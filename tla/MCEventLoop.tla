---------------------------- MODULE MCEventLoop ----------------------------
(***************************************************************************)
(* What everything else stands on: the callbacks of the event loop, and    *)
(* the trees that hold most collections.  Each model runs by itself, from  *)
(* its own initial states; system says which one, and the other stays      *)
(* where it is.                                                            *)
(*                                                                         *)
(* Two contexts, a queue of three and five frames: handlers can be         *)
(* suspended in dialogs while another one, dispatched by a dialog's loop,  *)
(* queues, frees and reallocates behind their backs.  Fourteen elements: a *)
(* tree gets three levels, whose inner nodes split, lend and merge.        *)
(***************************************************************************)
EXTENDS EventLoop

CONSTANTS c1, c2

VARIABLES system, tree

MCContexts == {c1, c2}

Trees == INSTANCE Tree234 WITH MaxElements <- 14

ASSUME Trees!TreeAssumption

BaseInit == system \in {"events", "trees"} /\ Init /\ Trees!Init

Events == system = "events" /\ Next /\ UNCHANGED <<system, tree>>

Collections == system = "trees" /\ Trees!Next /\ UNCHANGED <<system, vars>>

BaseNext == Events \/ Collections

BaseSpec == BaseInit /\ [][BaseNext]_<<vars, system, tree>> /\ Fairness

-----------------------------------------------------------------------------

\* However a tree has been built and taken apart, adding and deleting keep it
\* balanced with exact counts and change the list that it stands for as asked,
\* and lookups by position and by relation give what a search of the list would
\* (tree234.c).
TreesRight == system = "trees" => Trees!TreesRight
=============================================================================
