---------------------------- MODULE MCExpressions ----------------------------
(* name = 1 - 2 * 3 - 4; name!(=); name = 1;                               *)
EXTENDS Expressions

OperationWords == <<"name", "=", "1", "-", "2", "*", "3", "-", "4", ";">>
CallWords == <<"name!", "(", "=", ")", ";">>
AfterWords == <<"name", "=", "1", ";">>

OneFile == {[file |-> OperationWords \o CallWords \o AfterWords, meant |-> {}]}
=============================================================================
