------------------------------ MODULE TreeWalk ------------------------------
(***************************************************************************)
(* ast_wlkr (compiler/rxcpast.c): every pass of the compiler is a handler  *)
(* that is called for a node on the way in, before its children, and on    *)
(* the way out.  A handler may rewrite the tree under the walk, and the    *)
(* walk goes on with the sibling that the node has then.                   *)
(***************************************************************************)
EXTENDS Sequences, SequencesExt

VARIABLES
  ast,        \* the nodes of the tree
  path,       \* the recursion of ast_wlkr: from the root to the current node
  direction   \* "in" or "out"

Node == Last(path)
Kids == ast[Node].child
Kid(k) == ast[Kids[k]]
Kind == ast[Node].node_type

Started(t) == ast = t /\ path = <<1>> /\ direction = "in"
Restart == path' = <<1>> /\ direction' = "in"
Walked == path = << >>
Entering == ~Walked /\ direction = "in"
Leaving == ~Walked /\ direction = "out"

(* node->sibling, or 0.                                                    *)
sibling(t, n) ==
  IF t[n].parent = 0 THEN 0
  ELSE LET kids == t[t[n].parent].child
           later == {k \in 2 .. Len(kids) : kids[k - 1] = n} IN
       IF later = {} THEN 0 ELSE kids[CHOOSE k \in later : TRUE]

(* The handler left the tree as t.                                         *)
Enter(t) ==
  IF t[Node].child = << >> THEN direction' = "out" /\ UNCHANGED path
  ELSE path' = Append(path, t[Node].child[1]) /\ UNCHANGED direction
Leave(t) ==
  IF sibling(t, Node) # 0 THEN path' = Append(Front(path), sibling(t, Node)) /\ direction' = "in"
  ELSE path' = Front(path) /\ UNCHANGED direction

(* ast_rpl and ast_del: the node loses its parent and its sibling; its own *)
(* children still point to it.                                             *)
ast_rpl(t, n, new) ==
  LET p == t[n].parent IN
  [t EXCEPT ![p].child = [k \in DOMAIN @ |-> IF @[k] = n THEN new ELSE @[k]],
            ![new].parent = p, ![n].parent = 0]
ast_del(t, n) ==
  LET p == t[n].parent IN
  IF p = 0 THEN t
  ELSE [t EXCEPT ![p].child = SelectSeq(@, LAMBDA k : k # n), ![n].parent = 0]

=============================================================================
