---------------------------- MODULE ReplacedFile ----------------------------
(***************************************************************************)
(* A file that its writers replace as a whole: write_text to a temporary   *)
(* file next to it, then tmp.replace(file).  Both registries of trials,    *)
(* the attestations and the downloads are written in this way.  The        *)
(* temporary file has one name for all writers, so writers that are not    *)
(* kept apart meet in it.                                                  *)
(*                                                                         *)
(* The content of a file is a value, Torn when it does not parse, or None  *)
(* when the file does not exist.  An open descriptor follows its file      *)
(* through the rename: it is "tmp" or "main" by the name that file has     *)
(* now, "gone" when it has none any more.                                  *)
(***************************************************************************)
CONSTANTS
    Proc,  \* the writers
    Torn,  \* the content of a file that does not parse
    None   \* no file

VARIABLES
    mainFile,  \* the file
    tmpFile,   \* the file with the suffix ".tmp"
    fd         \* which file the descriptor of each write_text refers to

FilesInit(content) ==
    /\ mainFile = content
    /\ tmpFile = None
    /\ fd = [p \in Proc |-> "closed"]

\* open(..., "w") of the temporary file.
TruncateTmp(p) ==
    /\ tmpFile' = Torn
    /\ fd' = [fd EXCEPT ![p] = "tmp"]
    /\ UNCHANGED mainFile

\* A text written over another writer's longer one leaves the end of that one.
Overwritten(old, new) == IF old = Torn THEN {new} ELSE {new, Torn}

\* The write goes to the file that was opened, whatever its name is now.
WriteText(p, text) ==
    /\ IF fd[p] = "tmp" THEN tmpFile' \in Overwritten(tmpFile, text)
                        ELSE UNCHANGED tmpFile
    /\ IF fd[p] = "main" THEN mainFile' \in Overwritten(mainFile, text)
                         ELSE UNCHANGED mainFile
    /\ fd' = [fd EXCEPT ![p] = "closed"]

\* The writer stops in the middle of the write.
CutOff(p) ==
    /\ tmpFile' = IF fd[p] = "tmp" THEN Torn ELSE tmpFile
    /\ mainFile' = IF fd[p] = "main" THEN Torn ELSE mainFile
    /\ fd' = [fd EXCEPT ![p] = "closed"]

\* tmp.replace(file), of the temporary file that is there now.
RenameTmp ==
    /\ tmpFile # None
    /\ mainFile' = tmpFile
    /\ tmpFile' = None
    /\ fd' = [q \in Proc |-> CASE fd[q] = "tmp"  -> "main"
                               [] fd[q] = "main" -> "gone"
                               [] OTHER -> fd[q]]
=============================================================================
