--------------------------- MODULE MCStartProcess ---------------------------
EXTENDS StartProcess

(* One word; two; none; a refused character; spaces only and repeated.     *)
MCNames == {<<"c">>, <<"c", " ", "c">>, <<>>, <<"c", ";">>, <<" ", " ", "c", " ">>}
=============================================================================
