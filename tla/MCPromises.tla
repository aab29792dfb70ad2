----------------------------- MODULE MCPromises -----------------------------
(* An instance of promises with a few of them and bounded content.           *)
EXTENDS Promises

\* two of the four: each handler is chosen by the state alone
BothOrNeither == {<<Identity, Thrower>>, <<Content, Content>>}
=============================================================================
