\* Any version file; the script may be killed at any command and run again.
CONSTANT Versions = {"none", "same", "other"}
SPECIFICATION Spec
INVARIANTS FirmwareSurvives SuccessMeansFirmware NothingIsLeftBehind
