---------------------------- MODULE BaseLifecycle ----------------------------
(***************************************************************************)
(* TransmissionBaseState of crates/reconcile: the canonical states of a    *)
(* transmission and the moves between them.                                *)
(***************************************************************************)
TransmissionBaseState ==
  {"draft", "validated", "signed", "reserved", "sent", "delivered",
   "acknowledged", "rejected", "archived"}

\* Mutant: a rejected transmission may be reserved again.
RejectedIsRetried(from, to) ==
  \/ <<from, to>> \in
       {<<"draft", "validated">>, <<"validated", "signed">>,
        <<"signed", "reserved">>, <<"reserved", "sent">>,
        <<"sent", "delivered">>, <<"sent", "rejected">>,
        <<"delivered", "acknowledged">>, <<"delivered", "rejected">>,
        <<"acknowledged", "archived">>, <<"rejected", "archived">>}
  \/ from = "rejected" /\ to = "reserved"

CanTransitionTo(from, to) ==
  <<from, to>> \in
    {<<"draft", "validated">>, <<"validated", "signed">>,
     <<"signed", "reserved">>, <<"reserved", "sent">>,
     <<"sent", "delivered">>, <<"sent", "rejected">>,
     <<"delivered", "acknowledged">>, <<"delivered", "rejected">>,
     <<"acknowledged", "archived">>, <<"rejected", "archived">>}

IsTerminal(base) == base = "archived"
=============================================================================
