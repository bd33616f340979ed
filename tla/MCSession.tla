----------------------------- MODULE MCSession -----------------------------
(* One definition of a text between two other columns, one of a number;    *)
(* rows that are complete, short, and of the wrong type.                   *)
EXTENDS SessionProofs

MCColumns == [wide   |-> << <<"a", "int">>, <<"t", "text">>, <<"u", "text">> >>,
              narrow |-> << <<"b", "int">> >>]

MCRows == { << <<"int", 5>>, <<"text", <<1>>>>, <<"text", <<2, 3>>>> >>,
            << <<"int", 7>> >>,
            << <<"text", <<>>>> >> }
=============================================================================
