--------------------------- MODULE MCOrderLifecycle ---------------------------
(***************************************************************************)
(* Small instances of OrderLifecycle.  Order ids are built from the id of  *)
(* their hub; the instances have one hub.                                  *)
(***************************************************************************)
EXTENDS OrderLifecycle, TLC

CONSTANT h1

OneHub == [o \in Orders |-> h1]
\* The answer to a cancelation is written and never read: it tells states apart only
\* where a property is about it.
WithoutReply == <<rows, session, timer, proc, inbox, dispatch, online, submits, approvals,
                  reports, rounds, faults, crashes>>

ItemSymmetry == Permutations(Items)
=============================================================================
