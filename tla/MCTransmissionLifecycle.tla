----------------------- MODULE MCTransmissionLifecycle -----------------------
(***************************************************************************)
(* The KSEF and ZATCA rules of the registry in the crate's tests           *)
(* (lib.rs:2698-2748), which end before the archive, and a system without  *)
(* rules.                                                                  *)
(***************************************************************************)
EXTENDS TransmissionLifecycle

Rule(system, fromBase, fromCode, toBase, toCode) ==
  [system |-> system, fromBase |-> fromBase, fromCode |-> fromCode,
   toBase |-> toBase, toCode |-> toCode]

MCRules ==
  {Rule("KSEF", "reserved", None, "sent", "reserved"),
   Rule("KSEF", "sent", "reserved", "delivered", "committed"),
   Rule("ZATCA", "sent", None, "delivered", "cleared"),
   Rule("ZATCA", "delivered", "cleared", "acknowledged", "reported")}

MCSubState ==
  [system : {"KSEF"}, code : {"reserved", "committed"}]
    \union [system : {"ZATCA"}, code : {"cleared", "reported"}]
    \union [system : {"PEPPOL"}, code : {"accepted"}]

\* Machines are built fresh, or from a state that already carries a code.
MCStart == [base : {"draft", "reserved", "sent"}, sub : MCSubState \union {None}]
=============================================================================
