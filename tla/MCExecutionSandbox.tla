-------------------------- MODULE MCExecutionSandbox --------------------------
(***************************************************************************)
(* Scenarios for TLC, each with every schedule of its reports.             *)
(***************************************************************************)
EXTENDS ExecutionSandbox

OrderReport(o, sequence, target, position) ==
  [order |-> o, kind |-> "ORDER", sequence |-> sequence, target |-> target,
   resolution |-> NoResolution, stream |-> o, position |-> position]

RefusedCancel(o, sequence, target, position) ==
  [OrderReport(o, sequence, target, position) EXCEPT !.resolution = "REJECTED"]

FillReport(o, sequence, position) ==
  [order |-> o, kind |-> "FILL", sequence |-> sequence, target |-> "NONE",
   resolution |-> NoResolution, stream |-> o, position |-> position]

Plan(kind, o, reports) == [kind |-> kind, order |-> o, reports |-> reports]

\* An order is modified and cancelled; its acknowledgement is reported twice, and
\* the client is disconnected for a while.
Amended ==
  [ script |-> <<"submit", "modify", "cancel", "off", "on">>,
    plan |-> [submit |-> Plan("SUBMIT", "o1", <<1, 2>>),
              modify |-> Plan("MODIFY", "o1", <<3, 4, 5>>),
              cancel |-> Plan("CANCEL", "o1", <<6>>),
              off |-> Plan("DISCONNECT", "o1", << >>),
              on |-> Plan("RECONNECT", "o1", << >>)],
    event |-> <<OrderReport("o1", 1, "SUBMITTED", 1), OrderReport("o1", 2, "ACCEPTED", 2),
                OrderReport("o1", 3, "PENDING_UPDATE", 3), OrderReport("o1", 2, "ACCEPTED", 2),
                OrderReport("o1", 4, "ACCEPTED", 4), OrderReport("o1", 5, "CANCELED", 5)>>,
    original |-> <<0, 0, 0, 2, 0, 0>> ]

\* A cancellation races two fills, while another order is rejected.
Filled ==
  [ script |-> <<"submit", "cancel", "other">>,
    plan |-> [submit |-> Plan("SUBMIT", "o1", <<1, 2, 3>>),
              cancel |-> Plan("CANCEL", "o1", <<4, 5, 6>>),
              other |-> Plan("SUBMIT", "o2", <<7>>)],
    event |-> <<OrderReport("o1", 1, "SUBMITTED", 1), FillReport("o1", 1, 2),
                OrderReport("o1", 2, "PARTIALLY_FILLED", 3),
                OrderReport("o1", 3, "PENDING_CANCEL", 4), FillReport("o1", 2, 5),
                OrderReport("o1", 4, "FILLED", 6), OrderReport("o2", 1, "DENIED", 1)>>,
    original |-> <<0, 0, 0, 0, 0, 0, 0>> ]

\* A cancellation is refused while a partial fill overtakes it; the order expires.
Refused ==
  [ script |-> <<"submit", "cancel", "modify">>,
    plan |-> [submit |-> Plan("SUBMIT", "o1", <<1, 2>>),
              cancel |-> Plan("CANCEL", "o1", <<3, 4, 5>>),
              modify |-> Plan("MODIFY", "o1", <<6>>)],
    event |-> <<OrderReport("o1", 1, "SUBMITTED", 1), OrderReport("o1", 2, "ACCEPTED", 2),
                OrderReport("o1", 3, "PENDING_CANCEL", 3),
                OrderReport("o1", 4, "PARTIALLY_FILLED", 4),
                RefusedCancel("o1", 5, "PARTIALLY_FILLED", 5), OrderReport("o1", 6, "EXPIRED", 6)>>,
    original |-> <<0, 0, 0, 0, 0, 0>> ]

Scheduled(s, times) ==
  { [script |-> s.script, plan |-> s.plan, event |-> s.event, original |-> s.original,
     deliverAt |-> at] : at \in [DOMAIN s.event -> times] }

MCScenario == UNION {Scheduled(s, 0 .. MaxTime) : s \in {Amended, Filled, Refused}}
=============================================================================
