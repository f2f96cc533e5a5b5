---------------------------- MODULE MCResources ----------------------------
(***************************************************************************)
(* Inodes and physical pages: what the kernel hands out, counts and takes  *)
(* back.  The two share no variable: each behaviour is one of one part,    *)
(* chosen at the start, while the other stays as it was.                   *)
(***************************************************************************)
EXTENDS Inodes, Memory

CONSTANTS p1, p2

Call(op, abs, elems) == [op |-> op, abs |-> abs, elems |-> elems]

(* Directories that are removed while one is a current directory.          *)
Removal == [size |-> 3, calls |-> p1 :> {
  Call("mkdir", TRUE, <<"a">>), Call("mkdir", TRUE, <<"a", "b">>), Call("mknod", FALSE, <<"b">>),
  Call("chdir", TRUE, <<"a", "b">>), Call("chdir", FALSE, <<"..">>), Call("unlink", TRUE, <<"a">>)}
  @@ p2 :> {
  Call("unlink", TRUE, <<"a", "b">>), Call("unlink", TRUE, <<"a", "..">>)}]

(* Files that lose their names while they are open or being linked.        *)
Linking == [size |-> 3, calls |-> p1 :> {
  Call("creat", TRUE, <<"a">>), Call("trunc", TRUE, <<"b">>), Call("link", TRUE, <<"a">>)}
  @@ p2 :> {
  Call("unlink", TRUE, <<"a">>), Call("unlink", TRUE, <<"b">>), Call("exec", TRUE, <<"b">>),
  Call("open", TRUE, <<"b", "a">>)}]

(* Too few inodes and blocks for everybody.                                *)
Scarce == [size |-> 3, calls |-> p1 :> {
  Call("mkdir", TRUE, <<"a">>), Call("mkdir", TRUE, <<"b">>), Call("unlink", TRUE, <<"a">>)}
  @@ p2 :> {
  Call("mkdir", TRUE, <<"a">>), Call("mknod", TRUE, <<"a", "b">>), Call("unlink", TRUE, <<"a", "b">>),
  Call("open", FALSE, <<".">>), Call("link", TRUE, <<"a">>), Call("chdir", TRUE, <<>>)}]

MCPrograms == {Removal, Linking, Scarce}

MCNewPaths == {[abs |-> TRUE, elems |-> <<"b">>], [abs |-> TRUE, elems |-> <<>>]}

VARIABLE part

MCInit ==
  /\ part \in {"inodes", "memory"}
  /\ MemInit /\ (part = "inodes" => held = 0)
  /\ Init /\ (part = "memory" => prog = Linking)

MCNext ==
  \/ part = "inodes" /\ Next /\ UNCHANGED <<part, memVars>>
  \/ part = "memory" /\ MemNext /\ UNCHANGED <<part, vars>>

MCSpec == MCInit /\ [][MCNext]_<<part, vars, memVars>>
=============================================================================
