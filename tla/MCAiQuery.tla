------------------------------ MODULE MCAiQuery ------------------------------
(* Two threads, a vendor with a key and the mock behind it, one tenant.       *)
EXTENDS AiQuery

CONSTANTS q1, q2, ta

const_Order == <<"claude", "openai", "mock">>
const_CallLists == {<<"get_balances", "rm_rf">>}
=============================================================================
