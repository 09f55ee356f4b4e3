------------------------- MODULE WorkOrderLifecycle -------------------------
(***************************************************************************)
(* What the work-order feature promises about one order, whoever calls and *)
(* however often: the flow that WorkOrderStatus documents                  *)
(* (app/models/enums.py) and the transition table of the service           *)
(* (app/features/work_orders/service.py).                                  *)
(***************************************************************************)
CONSTANT Order

VARIABLE stage      \* [Order -> Stage]: the status column, or no row at all

LiveStage == {"awaiting_assignment", "assigned", "in_progress",
              "completed", "closed", "cancelled"}

Stage == LiveStage \cup {"none", "deleted"}

\* The steps of an order's life.
Edge ==
    {<<"none", "awaiting_assignment">>, <<"none", "assigned">>,
     <<"awaiting_assignment", "assigned">>,
     <<"assigned", "in_progress">>, <<"in_progress", "completed">>,
     <<"completed", "closed">>}
    \cup ({"awaiting_assignment", "assigned", "in_progress"} \X {"cancelled"})
    \cup (LiveStage \X {"deleted"})

Init == stage = [o \in Order |-> "none"]

Advance(o, next) ==
    /\ <<stage[o], next>> \in Edge
    /\ stage' = [stage EXCEPT ![o] = next]

Next == \E o \in Order, next \in Stage : Advance(o, next)

Spec == Init /\ [][Next]_stage

=============================================================================
