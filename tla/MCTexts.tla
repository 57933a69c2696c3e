------------------------------ MODULE MCTexts ------------------------------
(* Texts on small instances: registration numbers of four and of six digits, such
   that begin like the number of a row among them. *)
EXTENDS Texts

MCRegNumbers == {<<1, 0, 1, 2>>, <<2, 2, 1, 0>>, <<1, 1, 1, 2, 3, 4>>, <<5, 1, 2, 3, 4, 5>>}
MCNames == {<<"memorandumului">>, <<"traian", "vuia">>}
=============================================================================
