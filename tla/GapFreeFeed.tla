---------------------------- MODULE GapFreeFeed ----------------------------
(***************************************************************************)
(* What the block monitor promises about its durable cursor.               *)
(*                                                                         *)
(* Blocks become "covered" in any order and in any number: for each of     *)
(* their event types the node was asked for the logs, and every log it     *)
(* returned was dealt with.  The cursor is opened at the end of a covered  *)
(* interval that starts at origin, and from then on only moves forward,    *)
(* over covered blocks.  It is opened again only when a process could not  *)
(* read it.  A monitor that implements this module can be restarted from   *)
(* its cursor at any time and leaves no gap behind.                        *)
(***************************************************************************)
EXTENDS Integers

CONSTANT None       \* no cursor has been stored yet

VARIABLES
  covered,          \* blocks that need no further work
  origin,           \* first block of the interval the cursor closes
  cursor,           \* last block of that interval, or None
  reading            \* "lost": the running process could not read the cursor

feedVars == <<covered, origin, cursor, reading>>

Init ==
  /\ covered = {}
  /\ origin = None
  /\ cursor = None
  /\ reading = "known"

Cover ==
  /\ covered \subseteq covered'
  /\ UNCHANGED <<origin, cursor, reading>>

Restart ==
  /\ reading' \in {"known", "lost"}
  /\ UNCHANGED <<covered, origin, cursor>>

Open ==
  /\ cursor = None \/ reading = "lost"
  /\ reading' = "known"
  /\ origin' \in Int /\ cursor' \in Int
  /\ origin' .. cursor' \subseteq covered
  /\ UNCHANGED covered

Move ==
  /\ cursor # None /\ reading = "known"
  /\ cursor' \in Int /\ cursor' > cursor
  /\ cursor + 1 .. cursor' \subseteq covered
  /\ UNCHANGED <<covered, origin, reading>>

Next == Cover \/ Restart \/ Open \/ Move

Spec == Init /\ [][Next]_feedVars
=============================================================================
