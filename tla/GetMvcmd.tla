------------------------------- MODULE GetMvcmd -------------------------------
(***************************************************************************)
(* api/src/get_mvcmd.sh, which make runs to fetch the firmware of the      *)
(* stick: it puts the firmware directory aside, fetches and unpacks an     *)
(* archive, and on a failure puts the old directory back.  The script may  *)
(* be killed between two commands or inside one, and is run again; between *)
(* two runs install.sh may download the archive and make clean may delete  *)
(* the firmware.  Every command may fail.  The script looks at the status  *)
(* of wget, of grep behind tar -t, of tar -x and of ls, and ends with that *)
(* of its last rm; it goes on after every other command as if it had       *)
(* worked.                                                                 *)
(***************************************************************************)
CONSTANT Versions   \* what /opt/movidius/version.txt may say, or "none"

ASSUME VersionAssumption == Versions \subseteq {"none", "same", "other"}

VARIABLES
    archive,    \* the archive in the root of the repository
    mvnc,       \* the directory mvnc
    old,        \* the directory mvnc.old
    tar,        \* the archive here: downloaded, or a link to the one above
    pc,         \* the command that comes next
    exit,       \* exit status of the last run
    had,        \* ghost: mvnc was good when the last run began
    sound,      \* ghost: mvnc was good or absent when the last run began
    unheeded    \* ghost: commands of the last run that failed unnoticed

vars == <<archive, mvnc, old, tar, pc, exit, had, sound, unheeded>>
dirs == <<mvnc, old>>
files == <<archive, mvnc, old, tar>>
ghosts == <<had, sound, unheeded>>

\* A directory is absent, or holds no firmware, part of it, or all of it;
\* "inside": all of it is only in a directory that mv has moved into this one.
Dir == {"none", "empty", "part", "good", "inside"}
Whole(d) == d \in {"good", "inside"}
File == {"none", "bad", "good"}
Commands == {"rm_old", "mv_aside", "fetch", "mkdir", "find", "extract", "ls",
             "rm_saved", "rm_tar", "restore", "rm_mvnc", "mv_back"}

Init ==
    /\ archive = "none"
    /\ mvnc \in {"none", "good"}
    /\ old = "none"
    /\ tar = "none"
    /\ pc = "stopped"
    /\ exit = 1
    /\ had = FALSE
    /\ sound = TRUE
    /\ unheeded = {}

At(c) == pc = c
Then(c) == pc' = c /\ UNCHANGED <<exit, had, sound>>
Exit(rc) == pc' = "stopped" /\ exit' = rc /\ UNCHANGED <<had, sound>>
Works == UNCHANGED unheeded
Unheeded == unheeded' = unheeded \cup {pc}

Start ==
    /\ At("stopped")
    /\ pc' = "rm_old"
    /\ exit' = 1
    /\ had' = (mvnc = "good")
    /\ sound' = (mvnc \in {"none", "good"})
    /\ unheeded' = {}
    /\ UNCHANGED files

\* What rm -rf may leave of directory d when it fails or is killed, what tar -x
\* may have made of it, and what is at the target e when mv has moved d there:
\* mv moves into a directory that is there already.
Remains(d) == IF d \in {"none", "empty"} THEN {d} ELSE {d, "part", "empty"}
Unpacked(d) == IF d \in {"none", "inside"} THEN {d} ELSE {d, "part"}
Moved(d, e) ==
    IF e = "none" THEN d ELSE IF Whole(d) /\ e # "good" THEN "inside" ELSE e

\* [ -d d ] && rm -rf d, which leaves d1.
Remove(d, d1) ==
    \/ d1 = "none" /\ Works
    \/ d # "none" /\ d1 \in Remains(d) /\ Unheeded

-----------------------------------------------------------------------------
(***************************************************************************)
(* Mutated forms of definitions below, one for each property: each breaks  *)
(* the property that its comment names.                                    *)
(***************************************************************************)
\* The new directory is taken for good without ls (FirmwareSurvives).
TrustingCheck ==
    /\ At("ls")
    /\ Then("rm_saved")
    /\ Works
    /\ UNCHANGED files

\* restore_old_fw without rm, so that mv finds mvnc there (SuccessMeansFirmware).
LazyRemoveMvnc ==
    /\ At("rm_mvnc")
    /\ Then("mv_back")
    /\ Works
    /\ UNCHANGED files

\* restore_old_fw without rm of the archive (NothingIsLeftBehind).
LitteringRestore ==
    /\ At("restore")
    /\ IF old = "none" THEN Exit(1) ELSE Then("rm_mvnc")
    /\ Works
    /\ UNCHANGED files
-----------------------------------------------------------------------------
\* [ -d mvnc.old ] && rm -rf mvnc.old
RemoveOld ==
    /\ At("rm_old")
    /\ Remove(old, old')
    /\ Then("mv_aside")
    /\ UNCHANGED <<archive, mvnc, tar>>

\* [ -d mvnc ] && mv -f mvnc mvnc.old
MoveAside ==
    /\ At("mv_aside")
    /\ \/ mvnc = "none" /\ UNCHANGED dirs /\ Works
       \/ mvnc # "none" /\ mvnc' = "none" /\ old' = Moved(mvnc, old) /\ Works
       \/ mvnc # "none" /\ UNCHANGED dirs /\ Unheeded
    /\ Then("fetch")
    /\ UNCHANGED <<archive, tar>>

\* A link to an archive that is there, good or bad: rm or ln may fail, and an
\* older file or none be there instead.  Else wget, whose file may be bad though
\* it works, and may be there though it fails.
Fetch ==
    /\ At("fetch")
    /\ \/ /\ archive # "none"
          /\ \/ tar' = archive /\ Works
             \/ tar' \in {tar, "none"} /\ Unheeded
          /\ Then("mkdir")
       \/ /\ archive = "none" /\ Works
          /\ \/ tar' \in {"bad", "good"} /\ Then("mkdir")
             \/ tar' \in {"bad", tar} /\ Then("restore")
    /\ UNCHANGED <<archive, dirs>>

MakeDir ==
    /\ At("mkdir")
    /\ \/ mvnc' = (IF mvnc = "none" THEN "empty" ELSE mvnc) /\ Works
       \/ mvnc = "none" /\ mvnc' = mvnc /\ Unheeded
    /\ Then("find")
    /\ UNCHANGED <<archive, old, tar>>

\* tar -t | grep -q: is the firmware of this architecture in the archive?  The
\* status is that of grep, which may find it in a damaged archive too.
Find ==
    /\ At("find")
    /\ \/ Then("restore")
       \/ tar # "none" /\ Then("extract")
    /\ Works
    /\ UNCHANGED files

\* tar -x fails part of the way, or works; the firmware directory of the
\* archive may hold no .mvcmd.
Extract ==
    /\ At("extract")
    /\ \/ mvnc' \in Unpacked(mvnc) /\ Then("restore")
       \/ tar = "good" /\ mvnc # "none" /\ mvnc' \in {mvnc, "good"} /\ Then("ls")
    /\ Works
    /\ UNCHANGED <<archive, old, tar>>

\* ls mvnc/*.mvcmd
Check ==
    /\ At("ls")
    /\ \/ mvnc # "good" /\ Then("restore")
       \/ mvnc \notin {"none", "empty"} /\ Then("rm_saved")
    /\ Works
    /\ UNCHANGED files

\* [ -d mvnc.old ] && rm -rf mvnc.old
RemoveSaved ==
    /\ At("rm_saved")
    /\ Remove(old, old')
    /\ Then("rm_tar")
    /\ UNCHANGED <<archive, mvnc, tar>>

\* The last command: its status is that of the script.
RemoveTar ==
    /\ At("rm_tar")
    /\ \/ tar' = "none" /\ Exit(0)
       \/ tar # "none" /\ tar' = tar /\ Exit(1)
    /\ Works
    /\ UNCHANGED <<archive, dirs>>

\* restore_old_fw: the archive goes first; without a saved directory it stops.
Restore ==
    /\ At("restore")
    /\ \/ tar' = "none" /\ Works
       \/ tar # "none" /\ tar' = tar /\ Unheeded
    /\ IF old = "none" THEN Exit(1) ELSE Then("rm_mvnc")
    /\ UNCHANGED <<archive, dirs>>

\* [ -d mvnc ] && rm -rf mvnc
RemoveMvnc ==
    /\ At("rm_mvnc")
    /\ Remove(mvnc, mvnc')
    /\ Then("mv_back")
    /\ UNCHANGED <<archive, old, tar>>

\* mv -f mvnc.old mvnc, unless another version is installed; the script ends
\* with 0 whether or not mv worked.
MoveBack ==
    /\ At("mv_back")
    /\ \/ /\ Versions \cap {"none", "same"} # {}
          /\ \/ old' = "none" /\ mvnc' = Moved(old, mvnc) /\ Works
             \/ UNCHANGED dirs /\ Unheeded
          /\ Exit(0)
       \/ "other" \in Versions /\ UNCHANGED dirs /\ Works /\ Exit(1)
    /\ UNCHANGED <<archive, tar>>

Step ==
    \/ RemoveOld \/ MoveAside \/ Fetch \/ MakeDir \/ Find \/ Extract \/ Check
    \/ RemoveSaved \/ RemoveTar \/ Restore \/ RemoveMvnc \/ MoveBack

\* The script is killed.  A command that was removing or unpacking a directory
\* has done part of it; a download has left part of a file.
Kill ==
    /\ ~At("stopped")
    /\ old' \in IF pc \in {"rm_old", "rm_saved"} THEN Remains(old) ELSE {old}
    /\ mvnc' \in IF At("rm_mvnc") THEN Remains(mvnc)
                 ELSE IF At("extract") THEN Unpacked(mvnc) ELSE {mvnc}
    /\ tar' \in IF At("fetch") THEN {"bad", tar} ELSE {tar}
    /\ pc' = "stopped"
    /\ exit' = 1
    /\ UNCHANGED <<archive, ghosts>>

\* make clean: find mvnc/ -type f -delete
Clean ==
    /\ At("stopped")
    /\ mvnc # "none"
    /\ mvnc' = "empty"
    /\ exit' = 1
    /\ had' = FALSE
    /\ UNCHANGED <<archive, old, tar, pc, sound, unheeded>>

\* install.sh: wget -O leaves a file in the root even when it fails.
InstallDownload ==
    /\ At("stopped")
    /\ archive' \in {"bad", "good"}
    /\ UNCHANGED <<dirs, tar, pc, exit, ghosts>>

Next == Start \/ Step \/ Kill \/ Clean \/ InstallDownload

Spec == Init /\ [][Next]_vars
-----------------------------------------------------------------------------
(***************************************************************************)
(* Properties.                                                             *)
(***************************************************************************)
TypeOK ==
    /\ archive \in File /\ tar \in File
    /\ mvnc \in Dir /\ old \in Dir
    /\ pc \in Commands \cup {"stopped"}
    /\ exit \in {0, 1}
    /\ had \in BOOLEAN /\ sound \in BOOLEAN
    /\ unheeded \subseteq Commands

\* A run that finds the firmware in mvnc leaves it whole in mvnc or mvnc.old, or
\* in a directory that mv has moved into one of them, whatever else fails and
\* wherever it is killed, if it could be put aside: if that mv fails unnoticed
\* the archive is unpacked over the only copy.
FirmwareSurvives ==
    had /\ "mv_aside" \notin unheeded => Whole(mvnc) \/ Whole(old)

\* When the script exits with 0 the firmware is there, new or restored: make
\* goes on to copy it.  This needs that mvnc was whole or absent at the start:
\* what make clean or a killed run left is put aside and restored as it is.  It
\* also needs that both rm before a mv and the mv back have worked, since the
\* script does not look; that mv_aside, mkdir or the links fail does no harm.
SuccessMeansFirmware ==
    exit = 0 /\ sound /\ unheeded \cap {"rm_old", "rm_mvnc", "mv_back"} = {} =>
      mvnc = "good"

\* A run that exits with 0, also after a failed download, has cleaned up all
\* that the one command responsible for it did not fail to remove.
NothingIsLeftBehind ==
    exit = 0 => /\ old = "none" \/ unheeded \cap {"rm_saved", "mv_back"} # {}
                /\ tar = "none" \/ "restore" \in unheeded
=============================================================================
