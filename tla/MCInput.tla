------------------------------ MODULE MCInput ------------------------------
(***************************************************************************)
(* Small instances of what lies between an input file and a line of the    *)
(* output: the lexer, the reader, and the way from the sort to the writer. *)
(* They share no state: a behaviour is one of one of the three.            *)
(***************************************************************************)
EXTENDS MCLoadAndSearch, Lexer, Parser

CONSTANT
    MaxRead     \* bound on the matrices of a kind that are read

VARIABLE part   \* which of the three it is

LexerAtRest == file = <<>> /\ LexerInit

LoadAtRest ==
    /\ ids = [n \in 1 .. K |-> 0] /\ side = [n \in 1 .. K |-> 1]
    /\ cells = [n \in 1 .. K |-> {}]
    /\ LoadInit

MCInit ==
    \/ part = "lexer" /\ LexerInit /\ ReaderInit /\ LoadAtRest
    \/ part = "reader" /\ LexerAtRest /\ ReaderInit /\ LoadAtRest
    \/ part = "load and search" /\ LexerAtRest /\ ReaderInit /\ LoadInit

MCNext ==
    /\ UNCHANGED part
    /\ \/ part = "lexer" /\ LexerNext /\ UNCHANGED <<readerVars, loadVars>>
       \/ /\ part = "reader" /\ ReaderNext /\ UNCHANGED <<lexerVars, loadVars>>
          /\ \A w \in Kinds : num'[w] <= MaxRead
       \/ part = "load and search" /\ LoadNext /\ UNCHANGED <<lexerVars, readerVars>>

MCSpec == MCInit /\ [][MCNext]_<<part, lexerVars, readerVars, loadVars>>

=============================================================================
