---------------------------- MODULE MCTaskBridge ----------------------------
(* What TLC needs beside TaskBridge: pictures that the geometry policy     *)
(* accepts, the one at the edge of the envelope included, and one for each *)
(* of its reasons to refuse; and a bound that lets a second task come or   *)
(* the scene change, but not both in one behaviour.                        *)
EXTENDS TaskBridge

Cup == [id |-> "1", label |-> "cup", numbers |-> TRUE, confidence |-> 60,
        axes |-> {<<-1900, 200>>, <<0, 80>>, <<400, 120>>}]
Shows(objects) == [ok |-> TRUE, frame |-> "base_link", objects |-> objects]
Seen == Shows(<<Cup>>)
Table == [Cup EXCEPT !.id = "2", !.label = "table", !.confidence = 0]

MCPicture ==
  {Seen, Shows(<<Table, Cup>>), [Seen EXCEPT !.ok = FALSE],
   [Seen EXCEPT !.frame = "camera"], Shows(<< >>), Shows(<<Table>>)}
  \cup {Shows(<<Cup, other>>) :
         other \in {[Table EXCEPT !.id = "1"], [Table EXCEPT !.id = ""],
                   [Table EXCEPT !.numbers = FALSE], [Cup EXCEPT !.id = "2"]}}
  \cup {Shows(<<cup>>) :
         cup \in {[Cup EXCEPT !.confidence = 59], [Cup EXCEPT !.axes = @ \cup {<<5, 0>>}],
                 [Cup EXCEPT !.axes = {<<-1901, 200>>, <<0, 80>>, <<400, 120>>}]}}
-----------------------------------------------------------------------------
CONSTANT Second     \* the task that comes only while the scene stands

(* Bound: tasks meet under one scene, scenes change around one task.  It *)
(* holds back only what no fairness is owed to.                          *)
Narrow == at[Second] = "new" \/ (now = 0 /\ Len(taken) <= 1)

NarrowSpec == TaskInit /\ [][TaskNext /\ Narrow']_taskVars /\ TaskFairness
=============================================================================
