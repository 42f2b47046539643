------------------------------- MODULE UjUpdate -------------------------------
(***************************************************************************)
(* Replacing the Java program of a board: the handlers under /uj/update    *)
(* (riot/nat/gcoap/nat_gcoap_native.c), which run in the CoAP thread, and  *)
(* the start of the uj thread (riot/nat_uj.c, riot/main.c), which installs *)
(* what /uj/update/finish has left and loads it.  The handlers are         *)
(* registered before the uj thread starts, so the two interleave call by   *)
(* call of the file system, and the power can fail between any two.        *)
(*                                                                         *)
(* A package is a number of blocks, each as large as one request can       *)
(* carry; a file maps each block to the version it comes from, or to Hole: *)
(* what was never written, and what lies behind the end, reads as zeros,   *)
(* and the loader takes zeros for the end of the package.                  *)
(*                                                                         *)
(* Requests come in any order, late and repeated (client = "any"), until a *)
(* careful client takes over: it aborts, starts, writes every block,       *)
(* finishes and restarts the board, and repeats a request until it is      *)
(* answered.                                                               *)
(***************************************************************************)
EXTENDS Integers

CONSTANTS
  NB,        \* blocks of a package
  Version,   \* versions of the program
  OldVersion, NewVersion,  \* the one installed at first, the one the careful client brings
  BuiltIn,   \* the package in constfs
  HasBuiltIn, \* MODULE_NAT_CONSTFS or not
  Replaces   \* rename to a name that exists works (littlefs) or fails (SPIFFS)

Hole == 0

ASSUME UpdateAssumption ==
  /\ NB \in Nat \ {0}
  /\ OldVersion \in Version /\ NewVersion \in Version /\ BuiltIn \notin Version
  /\ Hole \notin Version /\ Hole # BuiltIn
  /\ HasBuiltIn \subseteq BOOLEAN /\ Replaces \subseteq BOOLEAN

VARIABLES
  part,      \* /main/update.ujcpak.part
  update,    \* /main/update.ujcpak
  default,   \* /main/default.ujcpak
  boot,      \* the uj thread
  running,   \* what it has loaded
  aborting,  \* the abort handler has removed one file of two
  client,    \* "any", or the step of the careful client
  stable,    \* the power does not fail any more
  careful,   \* history: every request came from the careful client
  raced,     \* history: an abort came in the middle of an installation
  board

updateVars == <<part, update, default, boot, running, aborting, client, stable, careful, raced, board>>
files == <<part, update, default>>
history == <<careful, raced, board>>

Block == 1..NB
Absent == <<>>
Content == [Block -> Version \cup {Hole}]
Whole(v) == [b \in Block |-> v]
Empty == Whole(Hole)

Boot == {"look", "unlink", "rename", "load", "run", "dead"}

-----------------------------------------------------------------------------
(* The start of the uj thread. *)

UpdateInit ==
  /\ part \in {Absent, Empty} /\ update = Absent
  /\ board \in [builtin : HasBuiltIn, replaces : Replaces]
  /\ default \in {Whole(OldVersion)} \cup (IF board.builtin THEN {Absent} ELSE {})
  /\ boot = "look" /\ running = Absent /\ aborting = FALSE
  /\ client \in {"any", "abort"} /\ careful = (client = "abort")
  /\ stable = FALSE /\ raced = FALSE

\* (Mutant: the old program goes first, whether there is an update or not.)
LookForUpdate_UnlinksAlways ==
  /\ boot = "look"
  /\ boot' = "unlink"
  /\ UNCHANGED <<part, update, default, running, aborting, client, stable, careful, raced, board>>

\* vfs_open and vfs_close of the update
LookForUpdate ==
  /\ boot = "look"
  /\ boot' = IF update # Absent THEN "unlink" ELSE "load"
  /\ UNCHANGED <<part, update, default, running, aborting, client, stable, careful, raced, board>>

UnlinkDefault ==
  /\ boot = "unlink"
  /\ default' = Absent /\ boot' = "rename"
  /\ UNCHANGED <<part, update, running, aborting, client, stable, careful, raced, board>>

\* a failure is printed and nothing else
RenameUpdate ==
  /\ boot = "rename"
  /\ default' = IF update # Absent THEN update ELSE default
  /\ update' = Absent
  /\ boot' = "load"
  /\ UNCHANGED <<part, running, aborting, client, stable, careful, raced, board>>

Source == IF default = Absent /\ board.builtin THEN Whole(BuiltIn) ELSE default

\* The classes up to the first hole are loaded.  Without one there is no class to
\* start; some that belong to different versions, or lack others, may fit.
Loads(c) ==
  IF c = Absent \/ c[1] = Hole THEN {FALSE}
  ELSE IF \E v \in Version \cup {BuiltIn} : c = Whole(v) THEN {TRUE}
  ELSE BOOLEAN

\* vfs_open of the package and the rest of run_uj before the program's loop
LoadClasses ==
  /\ boot = "load"
  /\ \E ok \in Loads(Source) :
        /\ boot' = IF ok THEN "run" ELSE "dead"
        /\ running' = IF ok THEN Source ELSE Absent
  /\ UNCHANGED <<part, update, default, aborting, client, stable, careful, raced, board>>

\* An instruction fails, which no version that is complete does.
ProgramFails ==
  /\ boot = "run" /\ \A v \in Version \cup {BuiltIn} : running # Whole(v)
  /\ boot' = "dead" /\ running' = Absent
  /\ UNCHANGED <<part, update, default, aborting, client, stable, careful, raced, board>>

\* What the files survive: the power fails, or the program returns (pm_reboot),
\* which Default.main does when it gets EVT_UPD_RDY.
Restarted == boot' = "look" /\ running' = Absent /\ aborting' = FALSE

Restart ==
  /\ ~stable
  /\ Restarted
  /\ UNCHANGED <<part, update, default, client, stable, careful, raced, board>>

ProgramEnds ==
  /\ boot = "run"
  /\ Restarted
  /\ UNCHANGED <<part, update, default, client, stable, careful, raced, board>>

-----------------------------------------------------------------------------
(* The handlers.  One request is handled at a time. *)

\* (Mutant: a new upload also removes an update that waits to be installed.)
Start_DropsUpdate ==
  /\ ~aborting
  /\ part' = Empty /\ update' = Absent
  /\ UNCHANGED <<default, aborting, raced>>

\* uj_update_start_handler: the part is there and empty
Start ==
  /\ ~aborting
  /\ part' = Empty
  /\ UNCHANGED <<update, default, aborting, raced>>

\* uj_update_write_handler: without a part it answers 500
Write(b, v) ==
  /\ ~aborting
  /\ part' = IF part = Absent THEN part ELSE [part EXCEPT ![b] = v]
  /\ UNCHANGED <<update, default, aborting, raced>>

\* uj_update_abort_handler
Abort ==
  /\ ~aborting
  /\ part' = Absent
  /\ aborting' = TRUE
  /\ UNCHANGED <<update, default, raced>>

\* (Mutant: forgets the file that waits to be installed.)
AbortUpdate_KeepsUpdate ==
  /\ aborting
  /\ aborting' = FALSE
  /\ UNCHANGED <<part, update, default, boot, running, client, stable, careful, raced, board>>

AbortUpdate ==
  /\ aborting
  /\ update' = Absent /\ aborting' = FALSE
  /\ raced' = (raced \/ (update # Absent /\ (default = Absent \/ boot = "unlink")))
  /\ UNCHANGED <<part, default, boot, running, client, stable, careful, board>>

\* (Mutant: the new program replaces the one that runs.)
Finish_InPlace ==
  /\ ~aborting
  /\ default' = IF part # Absent THEN part ELSE default
  /\ part' = Absent
  /\ UNCHANGED <<update, aborting, raced>>

\* uj_update_finish_handler: vfs_rename fails without a part, and on a file
\* system that does not replace when there is an update already.  EVT_UPD_RDY,
\* which it posts, is in RiotEvents.
Finish ==
  /\ ~aborting
  /\ IF part # Absent /\ (update = Absent \/ board.replaces)
     THEN update' = part /\ part' = Absent
     ELSE UNCHANGED <<part, update>>
  /\ UNCHANGED <<default, aborting, raced>>

-----------------------------------------------------------------------------
(* The clients. *)

AnyRequest ==
  /\ client = "any"
  /\ \/ Start
     \/ \E b \in Block, v \in Version : Write(b, v)
     \/ Abort
     \/ Finish
  /\ UNCHANGED <<boot, running, client, stable, careful, board>>

CarefulTakesOver ==
  /\ client = "any" /\ client' = "abort"
  /\ UNCHANGED <<part, update, default, boot, running, aborting, stable, careful, raced, board>>

\* The careful client's next request, and the one after that; before the answer
\* comes it repeats a request.
Steps == <<"abort", "start", "write", "finish", "restart", "done">>
Request(step) ==
  \/ step = "abort" /\ Abort
  \/ step = "start" /\ Start
  \/ step = "write" /\ \E b \in Block : Write(b, NewVersion)
  \/ step = "finish" /\ Finish

\* the request has been answered
Answered(step) ==
  \/ step = "abort" /\ part = Absent /\ update = Absent /\ ~aborting
  \/ step = "start" /\ part = Empty
  \/ step = "write" /\ part = Whole(NewVersion)
  \/ step = "finish" /\ part = Absent

CarefulRequest ==
  /\ client \in {"abort", "start", "write", "finish"}
  /\ Request(client)
  /\ UNCHANGED <<boot, running, client, stable, careful, board>>

CarefulNext(s) ==
  /\ client = Steps[s] /\ Answered(client)
  /\ client' = Steps[s + 1]
  /\ UNCHANGED <<part, update, default, boot, running, aborting, stable, careful, raced, board>>

\* The careful client switches the board off and on.
CarefulRestart ==
  /\ client = "restart" /\ client' = "done"
  /\ Restarted
  /\ UNCHANGED <<part, update, default, stable, careful, raced, board>>

PowerIsStable ==
  /\ stable' = TRUE
  /\ UNCHANGED <<part, update, default, boot, running, aborting, client, careful, raced, board>>

Starting == LookForUpdate \/ UnlinkDefault \/ RenameUpdate \/ LoadClasses

UpdateNext ==
  \/ Starting \/ ProgramFails \/ Restart \/ ProgramEnds
  \/ AnyRequest \/ AbortUpdate
  \/ CarefulTakesOver \/ CarefulRequest \/ (\E s \in 1..4 : CarefulNext(s)) \/ CarefulRestart
  \/ PowerIsStable

UpdateSpec == UpdateInit /\ [][UpdateNext]_updateVars

\* Both threads go on.  A client repeats a request a few times only, so in the
\* end it gets its answer (SF); the power fails finitely often.
UpdateFairSpec ==
  /\ UpdateSpec
  /\ WF_updateVars(Starting) /\ WF_updateVars(AbortUpdate)
  /\ WF_updateVars(client \in {"abort", "start", "finish"} /\ CarefulRequest)
  /\ \A b \in Block : WF_updateVars(client = "write" /\ Write(b, NewVersion)
                                     /\ UNCHANGED <<boot, running, client, stable, careful, board>>)
  /\ \A s \in 1..4 : SF_updateVars(CarefulNext(s))
  /\ WF_updateVars(CarefulRestart)

-----------------------------------------------------------------------------
(* Properties. *)

WholeVersion(c) == \E v \in Version \cup {BuiltIn} : c = Whole(v)

\* An update by a careful client is atomic: at whatever moment the power fails or
\* the program ends, the board starts a complete program, the old one or the new
\* one, and not what has been transferred so far.
AlwaysWhole ==
  /\ careful => boot # "dead"
  /\ careful /\ boot = "load" => WholeVersion(Source)
  /\ careful /\ boot = "run" => running \in {Whole(OldVersion), Whole(BuiltIn), Whole(NewVersion)}

\* The power failing between the removal of the old program and the renaming of
\* the new one loses nothing: in any state and after any requests there is one of
\* the two, unless an abort came in the middle of the installation, which lasts
\* until the next start when the power failed in it.
LostOnlyByAbort ==
  ~board.builtin /\ default = Absent /\ update = Absent => raced

\* The file that the virtual machine reads bytecode from while the program runs
\* (ujReadClassByte) stays what it was when the classes were loaded: no request
\* changes it.
RunsInstalled == boot = "run" => running = Source

\* No sequence of requests, restarts and aborts leaves the board in a state from
\* which it cannot be updated: when the power has become stable a careful client
\* gets its version to run.
Recoverable == (stable /\ client # "any") ~> (boot = "run" /\ running = Whole(NewVersion))
=============================================================================
