---------------------------- MODULE PowerHarness ----------------------------
(***************************************************************************)
(* attest_pipeline_power (testing/harness.py): processes that try a        *)
(* pipeline on a synthetic edge and on noise and, if it passes both, write *)
(* the attestation that TrialRegistry asks for.  The code of a process is  *)
(* what it was when the process started; the version it attests is what    *)
(* git says when the function is called.                                   *)
(***************************************************************************)
CONSTANTS
    Tester,    \* the processes
    Revision,  \* the committed states of the code
    Detects,   \* the revisions whose pipeline finds the edge
    Rejects,   \* those whose pipeline rejects the noise
    Dirty      \* the version of a working tree with uncommitted changes

ASSUME HarnessAssumption ==
    /\ Detects \subseteq Revision /\ Rejects \subseteq Revision
    /\ Dirty \notin Revision

VARIABLES
    tree,      \* the working tree: a revision, or Dirty
    attested,  \* the attestation file
    draft,     \* its ".tmp"
    pen,       \* the descriptor each process writes through
    suite,     \* what each process does: where it is, the tree it has imported, and
               \* the code_version it has read
    raced      \* history: the tree changed while a process was running

harnessVars == <<tree, attested, draft, pen, suite, raced>>

Unreadable == [parses |-> FALSE]
NoFile == [exists |-> FALSE]
Attestation(version) == [version |-> version]

Json == INSTANCE ReplacedFile
        WITH Proc <- Tester, Torn <- Unreadable, None <- NoFile,
             mainFile <- attested, tmpFile <- draft, fd <- pen

Tree == Revision \cup {Dirty}

Off == [at |-> "off"]

HarnessInit ==
    /\ tree \in Revision
    /\ Json!FilesInit(NoFile)
    /\ suite = [p \in Tester |-> Off]
    /\ raced = FALSE

-----------------------------------------------------------------------------
Running(p, s) == suite[p].at = s
GoOn(p, s) == suite' = [suite EXCEPT ![p].at = s]
Leave(p) == suite' = [suite EXCEPT ![p] = Off]

NoWrite == UNCHANGED <<tree, attested, draft, pen, raced>>

\* The suite starts, and imports the code.
Import(p) ==
    /\ suite[p] = Off
    /\ suite' = [suite EXCEPT ![p] = [at |-> "version", code |-> tree, version |-> tree]]
    /\ NoWrite

\* current_code_version; DirtyWorkingTreeError unless allow_dirty.
ReadVersion(p) ==
    /\ Running(p, "version")
    /\ \/ suite' = [suite EXCEPT ![p].version = tree, ![p].at = "edge"]
       \/ tree = Dirty /\ Leave(p)
    /\ NoWrite

\* A control passes, or it raises PipelineHasNoPowerError.  What the code of a
\* dirty tree does is not known.
Control(p, here, there, good) ==
    /\ Running(p, here)
    /\ \/ suite[p].code \in good \cup {Dirty} /\ GoOn(p, there)
       \/ suite[p].code \notin good /\ Leave(p)
    /\ NoWrite

\* Bug: the noise may be confirmed.
NoiseControlVacuous(p) == Control(p, "noise", "open", Revision)

EdgeControl(p)  == Control(p, "edge", "noise", Detects)
NoiseControl(p) == Control(p, "noise", "open", Rejects)

\* _atomic_write_json
OpenDraft(p) ==
    /\ Running(p, "open") /\ GoOn(p, "write")
    /\ Json!TruncateTmp(p)
    /\ UNCHANGED <<tree, raced>>

WriteDraft(p) ==
    /\ Running(p, "write") /\ GoOn(p, "rename")
    /\ Json!WriteText(p, Attestation(suite[p].version))
    /\ UNCHANGED <<tree, raced>>

RenameDraft(p) ==
    /\ Running(p, "rename") /\ Leave(p)
    /\ Json!RenameTmp
    /\ UNCHANGED <<tree, raced>>

\* The process dies, or the write or the rename raises.
Dies(p) ==
    /\ suite[p] # Off /\ Leave(p)
    /\ Json!CutOff(p)
    /\ UNCHANGED <<tree, raced>>

\* Somebody edits, commits or checks out.
Edit ==
    /\ tree' \in Tree \ {tree}
    /\ raced' = (raced \/ \E p \in Tester : suite[p] # Off)
    /\ UNCHANGED <<attested, draft, pen, suite>>

HarnessNext ==
    \/ \E p \in Tester :
         \/ Import(p) \/ ReadVersion(p) \/ EdgeControl(p) \/ NoiseControl(p)
         \/ OpenDraft(p) \/ WriteDraft(p) \/ RenameDraft(p) \/ Dies(p)
    \/ Edit

HarnessSpec == HarnessInit /\ [][HarnessNext]_harnessVars

-----------------------------------------------------------------------------
(* Property *)

\* Whatever runs overlap or die while they write, an attestation that can be read
\* and names a clean version is about code that has found the edge and rejected
\* the noise.  It needs a tree that nobody changes while a suite runs.
AttestationSound ==
    \A v \in Revision : attested = Attestation(v) /\ ~raced => v \in Detects \cap Rejects
=============================================================================
