----------------------------- MODULE VerifiedWrite -----------------------------
(***************************************************************************)
(* What a setting of the earbuds promises to the threads that share the    *)
(* controller, without frames, sockets or sequence numbers.  A command     *)
(* sends at most one write.  It ends either with a state the earbuds were  *)
(* in after that write, or with a failure that leaves nothing cached which *)
(* was read before it.  Lapses are the failures after which the code keeps *)
(* what it had: the failed strength write and the undecodable frame.       *)
(*                                                                         *)
(* AncSession and EqSession implement this under a refinement mapping.     *)
(***************************************************************************)
EXTENDS Naturals

VARIABLES
    phase,           \* "idle", "reading" (nothing is sent yet) or "written"
    writes,          \* how many writes were sent
    known,           \* after how many of them the cached state was read, {} if none is
    outcome,         \* of the last command: "none", "success" or "failure"
    lapsed           \* what is cached may be older than the last write

vars == <<phase, writes, known, outcome, lapsed>>

TypeOK ==
    /\ phase \in {"idle", "reading", "written"}
    /\ writes \in Nat
    /\ known \in SUBSET Nat
    /\ outcome \in {"none", "success", "failure"}
    /\ lapsed \in BOOLEAN

Init ==
    /\ phase = "idle"
    /\ writes = 0
    /\ known = {}
    /\ outcome = "none"
    /\ lapsed = FALSE

------------------------------------------------------------------------------

\* What is cached is replaced, or forgotten; with it goes a lapse.
Settles == UNCHANGED lapsed \/ lapsed' = FALSE

EndsWith(result) == phase' = "idle" /\ outcome' = result

\* A command that reads before it writes, or only reads.
Begin ==
    /\ phase = "idle"
    /\ phase' = "reading"
    /\ outcome' = "none"
    /\ \/ UNCHANGED <<known, lapsed>>
       \/ known' = {} /\ Settles
    /\ UNCHANGED writes

\* What a session that is opened for a command is told of the state.
Hears(after) == known' \in {known, {after}}

\* The write of a command is sent, from "idle" or after its first read.
Write ==
    /\ phase # "written"
    /\ writes' = writes + 1
    /\ phase' = "written"
    /\ outcome' = "none"
    /\ Settles
    /\ Hears(writes)

\* It is verified by what was read after it.
WriteSucceeds ==
    /\ phase = "written"
    /\ EndsWith("success")
    /\ known' \in {{writes}, {}}
    /\ Settles
    /\ UNCHANGED writes

\* So does a command that only reads.
ReadSucceeds ==
    /\ phase = "reading"
    /\ EndsWith("success")
    /\ known' = {writes}
    /\ Settles
    /\ UNCHANGED writes

\* A failure leaves nothing that was read before the write.
Fails ==
    /\ phase # "idle"
    /\ EndsWith("failure")
    /\ known' = {}
    /\ Settles
    /\ UNCHANGED writes

\* A command that sent nothing leaves what is cached.
Rejected ==
    /\ phase # "written"
    /\ EndsWith("failure")
    /\ Hears(writes) \/ known' = {}
    /\ UNCHANGED <<writes, lapsed>>

Lapses ==
    /\ phase # "idle"
    /\ EndsWith("failure")
    /\ lapsed' = TRUE
    /\ UNCHANGED <<writes, known>>

\* A write on a socket of its own, nobody being able to look in between.
OneShot ==
    /\ phase = "idle"
    /\ writes' = writes + 1
    /\ \/ /\ EndsWith("success") \/ EndsWith("failure")
          /\ known' = {writes'} \/ (known = {} /\ UNCHANGED known)
          /\ Settles
       \/ /\ EndsWith("failure")
          /\ lapsed' = TRUE
          /\ Hears(writes')

\* Between commands a report or a new session tells the state, or it is forgotten.
Refreshes ==
    /\ phase = "idle"
    /\ known' \in {{writes}, {}}
    /\ Settles
    /\ UNCHANGED <<phase, writes, outcome>>

Next ==
    \/ Begin
    \/ Write
    \/ WriteSucceeds
    \/ ReadSucceeds
    \/ Fails
    \/ Rejected
    \/ Lapses
    \/ OneShot
    \/ Refreshes

Spec == Init /\ [][Next]_vars

------------------------------------------------------------------------------

\* What another thread can see cached was read after the last write, unless the
\* command of that write lapsed.
KnownIsCurrent == phase = "idle" /\ ~lapsed => known \subseteq {writes}
==============================================================================
