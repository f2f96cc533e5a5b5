---------------------------- MODULE MCPrograms -----------------------------
(***************************************************************************)
(* What user programs rest on: the kernel's files and pipes, the allocator *)
(* of the user library, and two programs, the shell and grep.  The parts   *)
(* share no variable: each behaviour is one of one part, chosen at the     *)
(* start, while the others stay as they were.                              *)
(***************************************************************************)
EXTENDS Files, Heap, Grep, Shell

CONSTANT Parts

VARIABLE part

Sym == Permutations(Bytes)

(* Every short pattern on one line, and a few on every short file.         *)
MCJobs ==
  {[re |-> re, file |-> Append(text, "\n")] :
     re \in BoundedSeq({"a", ".", "*", "^", "$"}, 4), text \in BoundedSeq({"a", "b"}, 3)}
  \cup {[re |-> re, file |-> text] :
          re \in {<<"a">>, <<"^", "a", "$">>}, text \in BoundedSeq({"a", "b", "\n"}, 6)}

(* Every short line, and some in which commands are nested.                *)
MCCmdLines ==
  BoundedSeq({"a", "<", "|", "&", ";", "(", ")"}, 4)
  \cup BoundedSeq({"a", ">", "+", "|"}, 5)
  \cup {<<"a", "|", "a", "|", "a">>, <<"a", "|", "a", ";", "a">>, <<"a", ";", "a", "|", "a">>,
        <<"a", "&", ";", "a", "|", "a">>, <<"(", "a", ";", "a", ")", "|", "a">>,
        <<"(", "a", "|", "a", ")", "<", "a", "&">>, <<"(", "a", "&", ")", ";", "a", ";", "a">>,
        <<"a", "|", "(", "a", ";", "a", ")", ">", "a">>, <<"a", "<", "a", "<", "a", "a">>,
        <<"(", "a", ")", "<", "a", "a">>, <<"a", "a", "a", "a">>}

NoJob == [re |-> <<>>, file |-> <<>>]

MCInit ==
  /\ part \in Parts
  /\ Init /\ HeapInit
  /\ GrepInit(IF part = "grep" THEN Jobs ELSE {NoJob})
  /\ ShInit(IF part = "shell" THEN CmdLines ELSE {<<>>})

MCNext ==
  \/ part = "files" /\ Next /\ UNCHANGED <<part, heapVars, grepVars, shVars>>
  \/ part = "heap" /\ HeapNext /\ UNCHANGED <<part, vars, grepVars, shVars>>
  \/ part = "grep" /\ GrepNext /\ UNCHANGED <<part, vars, heapVars, shVars>>
  \/ part = "shell" /\ ShNext /\ UNCHANGED <<part, vars, heapVars, grepVars>>

MCSpec == MCInit /\ [][MCNext]_<<part, vars, heapVars, grepVars, shVars>>
=============================================================================
