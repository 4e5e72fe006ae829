---------------------------- MODULE GetMvcmdProofs ----------------------------
(***************************************************************************)
(* Proofs about GetMvcmd.  One inductive invariant says where the firmware *)
(* is at each command of the script; the three properties are part of it.  *)
(***************************************************************************)
EXTENDS GetMvcmd, TLAPS

\* mvnc has not been put aside; it has been, and what it held is in mvnc.old.
Before == pc \in {"rm_old", "mv_aside"}
PutAside == pc \in {"fetch", "mkdir", "find", "extract", "ls", "restore",
                    "rm_mvnc", "mv_back"}

FirmwareIsKept ==
    /\ had => sound
    /\ Before => /\ had => mvnc = "good"
                 /\ sound => mvnc \in {"none", "good"}
    /\ PutAside =>
         /\ had /\ "mv_aside" \notin unheeded => Whole(old)
         /\ sound /\ "rm_old" \notin unheeded => old \in {"none", "good"}
    /\ sound =>
         /\ pc \in {"fetch", "mkdir", "find", "extract"} =>
              mvnc \in {"none", "empty", "good"}
         /\ pc = "ls" => mvnc \in {"empty", "good"}
         /\ pc \in {"rm_saved", "rm_tar"} => mvnc = "good"

\* What a command has removed, unless it failed unnoticed.
NothingIsLost ==
    /\ pc = "mv_aside" => old = "none" \/ "rm_old" \in unheeded
    /\ pc = "rm_tar" => old = "none" \/ "rm_saved" \in unheeded
    /\ pc \in {"rm_mvnc", "mv_back"} =>
         old # "none" /\ (tar = "none" \/ "restore" \in unheeded)
    /\ pc = "mv_back" => mvnc = "none" \/ "rm_mvnc" \in unheeded

Inv ==
    /\ TypeOK
    /\ pc # "stopped" => exit = 1
    /\ FirmwareIsKept
    /\ NothingIsLost
    /\ FirmwareSurvives
    /\ SuccessMeansFirmware
    /\ NothingIsLeftBehind

\* The script has not begun.
LEMMA InitInv == Init => Inv
<1> SUFFICES ASSUME Init
             PROVE  Inv
    OBVIOUS
<1> USE DEF Init
<1>1. TypeOK
  <2>1. had \in BOOLEAN /\ sound \in BOOLEAN
    OBVIOUS
  <2> QED
    BY <2>1, Zenon DEF TypeOK, Dir, File, Commands
<1>2. ~had /\ exit # 0 /\ pc = "stopped"
  OBVIOUS
<1> QED
  BY <1>1, <1>2 DEF Inv, FirmwareIsKept, NothingIsLost, Before, PutAside,
     FirmwareSurvives, SuccessMeansFirmware, NothingIsLeftBehind

\* A run begins by noting what mvnc holds.
LEMMA StartInv == Inv /\ Start => Inv'
<1> SUFFICES ASSUME Inv, Start
             PROVE  Inv'
    OBVIOUS
<1>1. had' \in BOOLEAN /\ (had' => mvnc = "good")
  BY Zenon DEF Start
<1>2. /\ sound' \in BOOLEAN /\ (sound' => mvnc \in {"none", "good"})
      /\ mvnc = "good" => sound'
  <2>1. sound' = (mvnc \in {"none", "good"})
    BY DEF Start
  <2>2. CASE mvnc \in {"none", "good"}
    BY <2>1, <2>2
  <2>3. CASE mvnc \notin {"none", "good"}
    <3>1. (mvnc \in {"none", "good"}) = FALSE
      BY <2>3
    <3>2. sound' = FALSE
      BY <2>1, <3>1
    <3> QED
      BY <2>3, <3>2, Zenon
  <2> QED
    BY <2>2, <2>3
<1>3. pc' = "rm_old" /\ exit' = 1 /\ unheeded' = {} /\ UNCHANGED files
  BY DEF Start
<1>4. TypeOK'
  <2>1. pc' \in Commands \cup {"stopped"} /\ unheeded' \subseteq Commands
    BY <1>3 DEF Commands
  <2>2. archive' \in File /\ tar' \in File /\ mvnc' \in Dir /\ old' \in Dir
    BY <1>3 DEF Inv, TypeOK, files
  <2> QED
    BY <1>1, <1>2, <1>3, <2>1, <2>2 DEF TypeOK
<1>5. had' => sound'
  BY <1>1, <1>2
<1>6. FirmwareIsKept'
  BY <1>1, <1>2, <1>3, <1>5 DEF FirmwareIsKept, Before, PutAside, files
<1> QED
  BY <1>1, <1>3, <1>4, <1>6 DEF Inv, NothingIsLost, Whole,
     FirmwareSurvives, SuccessMeansFirmware, NothingIsLeftBehind, files

\* Every command, a kill at every command, make clean and a download keep it.
LEMMA NextInv == Inv /\ [Next]_vars => Inv'
<1> SUFFICES ASSUME Inv, [Next]_vars
             PROVE  Inv'
    OBVIOUS
<1> USE DEF Inv, TypeOK, FirmwareIsKept, NothingIsLost, Before, PutAside,
            FirmwareSurvives, SuccessMeansFirmware, NothingIsLeftBehind, Dir,
            File, Commands, Whole, At, Then, Exit, Works, Unheeded, dirs, files,
            ghosts
<1>1. CASE Start                BY <1>1, StartInv
<1>2. CASE RemoveOld
  <2> USE <1>2 DEF RemoveOld, Remove, Remains
  <2>1. TypeOK'
    OBVIOUS
  <2>2. pc' # "stopped" => exit' = 1
    OBVIOUS
  <2>3. FirmwareIsKept'
    OBVIOUS
  <2>4. NothingIsLost'
    OBVIOUS
  <2>5. FirmwareSurvives' /\ SuccessMeansFirmware' /\ NothingIsLeftBehind'
    OBVIOUS
  <2> QED
    BY ONLY <2>1, <2>2, <2>3, <2>4, <2>5 DEF Inv
<1>3. CASE MoveAside
  <2> USE <1>3 DEF MoveAside, Moved
  <2>1. TypeOK'
    OBVIOUS
  <2>2. pc' # "stopped" => exit' = 1
    OBVIOUS
  <2>3. FirmwareIsKept'
    OBVIOUS
  <2>4. NothingIsLost'
    OBVIOUS
  <2>5. FirmwareSurvives' /\ SuccessMeansFirmware' /\ NothingIsLeftBehind'
    OBVIOUS
  <2> QED
    BY ONLY <2>1, <2>2, <2>3, <2>4, <2>5 DEF Inv
<1>4. CASE Fetch
  <2> USE <1>4 DEF Fetch
  <2>1. TypeOK'
    <3>1. tar' \in File /\ unheeded' \subseteq Commands /\ pc' \in Commands
      OBVIOUS
    <3>2. exit' = exit /\ had' = had /\ sound' = sound /\ archive' = archive
      OBVIOUS
    <3> QED
      BY <3>1, <3>2
  <2>2. pc' # "stopped" => exit' = 1
    OBVIOUS
  <2>3. FirmwareIsKept'
    OBVIOUS
  <2>4. NothingIsLost'
    OBVIOUS
  <2>5. FirmwareSurvives' /\ SuccessMeansFirmware' /\ NothingIsLeftBehind'
    OBVIOUS
  <2> QED
    BY ONLY <2>1, <2>2, <2>3, <2>4, <2>5 DEF Inv
<1>5. CASE MakeDir
  <2> USE <1>5 DEF MakeDir
  <2>1. TypeOK'
    OBVIOUS
  <2>2. pc' # "stopped" => exit' = 1
    OBVIOUS
  <2>3. FirmwareIsKept'
    OBVIOUS
  <2>4. NothingIsLost'
    OBVIOUS
  <2>5. FirmwareSurvives' /\ SuccessMeansFirmware' /\ NothingIsLeftBehind'
    OBVIOUS
  <2> QED
    BY ONLY <2>1, <2>2, <2>3, <2>4, <2>5 DEF Inv
<1>6. CASE Find                 BY <1>6 DEF Find
<1>7. CASE Extract
  <2> USE <1>7 DEF Extract, Unpacked
  <2>1. TypeOK'
    OBVIOUS
  <2>2. pc' # "stopped" => exit' = 1
    OBVIOUS
  <2>3. FirmwareIsKept'
    OBVIOUS
  <2>4. NothingIsLost'
    OBVIOUS
  <2>5. FirmwareSurvives' /\ SuccessMeansFirmware' /\ NothingIsLeftBehind'
    OBVIOUS
  <2> QED
    BY ONLY <2>1, <2>2, <2>3, <2>4, <2>5 DEF Inv
<1>8. CASE Check                BY <1>8 DEF Check
<1>9. CASE RemoveSaved
  <2> USE <1>9 DEF RemoveSaved, Remove, Remains
  <2>1. TypeOK'
    OBVIOUS
  <2>2. pc' # "stopped" => exit' = 1
    OBVIOUS
  <2>3. FirmwareIsKept'
    OBVIOUS
  <2>4. NothingIsLost'
    OBVIOUS
  <2>5. FirmwareSurvives' /\ SuccessMeansFirmware' /\ NothingIsLeftBehind'
    OBVIOUS
  <2> QED
    BY ONLY <2>1, <2>2, <2>3, <2>4, <2>5 DEF Inv
<1>10. CASE RemoveTar
  <2> USE <1>10 DEF RemoveTar
  <2>1. TypeOK'
    OBVIOUS
  <2>2. pc' # "stopped" => exit' = 1
    OBVIOUS
  <2>3. FirmwareIsKept'
    OBVIOUS
  <2>4. NothingIsLost'
    OBVIOUS
  <2>5. FirmwareSurvives' /\ SuccessMeansFirmware' /\ NothingIsLeftBehind'
    OBVIOUS
  <2> QED
    BY ONLY <2>1, <2>2, <2>3, <2>4, <2>5 DEF Inv
<1>11. CASE Restore
  <2> USE <1>11 DEF Restore
  <2>1. TypeOK'
    <3>1. archive' \in File /\ tar' \in File /\ mvnc' \in Dir /\ old' \in Dir
      OBVIOUS
    <3>2. pc' \in Commands \cup {"stopped"} /\ exit' \in {0, 1}
      OBVIOUS
    <3>3. unheeded' \subseteq Commands /\ had' = had /\ sound' = sound
      OBVIOUS
    <3> QED
      BY <3>1, <3>2, <3>3
  <2>2. pc' # "stopped" => exit' = 1
    BY ONLY Inv, <1>11 DEF Inv, Restore, At, Then, Exit
  <2>3. FirmwareIsKept'
    OBVIOUS
  <2>4. NothingIsLost'
    OBVIOUS
  <2>5. FirmwareSurvives' /\ SuccessMeansFirmware' /\ NothingIsLeftBehind'
    OBVIOUS
  <2> QED
    BY ONLY <2>1, <2>2, <2>3, <2>4, <2>5 DEF Inv
<1>12. CASE RemoveMvnc
  <2> USE <1>12 DEF RemoveMvnc, Remove, Remains
  <2>1. TypeOK'
    OBVIOUS
  <2>2. pc' # "stopped" => exit' = 1
    OBVIOUS
  <2>3. FirmwareIsKept'
    OBVIOUS
  <2>4. NothingIsLost'
    OBVIOUS
  <2>5. FirmwareSurvives' /\ SuccessMeansFirmware' /\ NothingIsLeftBehind'
    OBVIOUS
  <2> QED
    BY ONLY <2>1, <2>2, <2>3, <2>4, <2>5 DEF Inv
<1>13. CASE MoveBack
  <2> USE <1>13 DEF MoveBack, Moved
  <2>1. TypeOK'
    <3>1. archive' \in File /\ tar' \in File /\ mvnc' \in Dir /\ old' \in Dir
      OBVIOUS
    <3>2. pc' \in Commands \cup {"stopped"} /\ exit' \in {0, 1}
      OBVIOUS
    <3>3. unheeded' \subseteq Commands /\ had' = had /\ sound' = sound
      OBVIOUS
    <3> QED
      BY <3>1, <3>2, <3>3
  <2>2. pc' # "stopped" => exit' = 1
    BY ONLY Inv, <1>13 DEF Inv, MoveBack, At, Then, Exit
  <2>3. FirmwareIsKept'
    OBVIOUS
  <2>4. NothingIsLost'
    OBVIOUS
  <2>5. FirmwareSurvives' /\ SuccessMeansFirmware' /\ NothingIsLeftBehind'
    OBVIOUS
  <2> QED
    BY ONLY <2>1, <2>2, <2>3, <2>4, <2>5 DEF Inv
<1>14. CASE Kill
  <2>1. /\ pc' = "stopped" /\ exit' = 1 /\ tar' \in File /\ archive' = archive
        /\ had' = had /\ sound' = sound /\ unheeded' = unheeded
    BY <1>14 DEF Kill
  <2>2. /\ old' \in Dir
        /\ pc \notin {"rm_old", "rm_saved"} => old' = old
    BY <1>14 DEF Kill, Remains
  <2>3. /\ mvnc' \in Dir
        /\ pc \notin {"rm_mvnc", "extract"} => mvnc' = mvnc
    BY <1>14 DEF Kill, Remains, Unpacked
  <2>4. had /\ "mv_aside" \notin unheeded => Whole(mvnc') \/ Whole(old')
    BY <1>14, <2>2, <2>3 DEF Kill
  <2>5. TypeOK' /\ FirmwareIsKept' /\ NothingIsLost'
    BY <2>1, <2>2, <2>3
  <2>6. FirmwareSurvives' /\ SuccessMeansFirmware' /\ NothingIsLeftBehind'
    BY <2>1, <2>4
  <2> QED
    BY ONLY <2>1, <2>5, <2>6 DEF Inv
<1>15. CASE Clean
  <2>1. /\ had' = FALSE /\ sound' = sound /\ unheeded' = unheeded
        /\ exit' = 1 /\ pc = "stopped"
    BY <1>15 DEF Clean
  <2>2. pc' = pc /\ mvnc' = "empty" /\ UNCHANGED <<archive, old, tar>>
    BY <1>15 DEF Clean
  <2>3. ~had' /\ had' \in BOOLEAN
    BY <2>1, Zenon
  <2> QED
    BY <2>1, <2>2, <2>3
<1>16. CASE InstallDownload     BY <1>16 DEF InstallDownload
<1>17. CASE UNCHANGED vars      BY <1>17 DEF vars
<1> QED
  BY <1>1, <1>2, <1>3, <1>4, <1>5, <1>6, <1>7, <1>8, <1>9, <1>10, <1>11, <1>12,
     <1>13, <1>14, <1>15, <1>16, <1>17 DEF Next, Step

LEMMA InvHolds == Spec => []Inv
BY InitInv, NextInv, PTL DEF Spec

\* Whatever else fails and wherever the script is killed, the firmware that a
\* run found in mvnc is whole in mvnc or mvnc.old, or moved into one of them,
\* unless the mv that puts it aside failed unnoticed (get_mvcmd.sh:57-107).
THEOREM FirmwareIsSafe == Spec => []FirmwareSurvives
BY InvHolds, PTL DEF Inv

\* A run that exits with 0 leaves the firmware in mvnc, if mvnc held it or was
\* absent when the run began, unless one of the three commands of lines 29, 38
\* (48) and 57, whose status nobody looks at, failed.
THEOREM SuccessIsReal == Spec => []SuccessMeansFirmware
BY InvHolds, PTL DEF Inv

\* A run that exits with 0 leaves no saved directory, unless the last command to
\* touch it failed unnoticed (lines 38 and 48, or 100), and no archive, unless
\* the rm of line 20 did.
THEOREM RunsCleanUp == Spec => []NothingIsLeftBehind
BY InvHolds, PTL DEF Inv

\* A directory is in one of its five states, and the script at one of its
\* commands.
THEOREM ScriptIsTyped == Spec => []TypeOK
BY InvHolds, PTL DEF Inv
=============================================================================
