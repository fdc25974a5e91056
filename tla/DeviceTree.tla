---------------------------- MODULE DeviceTree ----------------------------
(***************************************************************************)
(* What libfdt promises of a device tree, whatever the blob looks like:    *)
(* the nodes in document order with their depth, names and properties.     *)
(* A call either changes the tree as its name says or fails and changes    *)
(* nothing.  Module Fdt is shown to implement this specification.          *)
(***************************************************************************)
EXTENDS Integers, Sequences, SequencesExt, FiniteSetsExt

CONSTANTS MATCH(_, _)  \* does a node's name answer to the name looked for

VARIABLES tree,      \* the nodes in document order
          reserved,  \* the memory reservations, the terminator included
          open,      \* how many nodes are being written
          did        \* the latest call that succeeded, with its arguments

dtVars == <<tree, reserved, open, did>>

Node(d, n) == [depth |-> d, name |-> n, props |-> <<>>]

PropIdx(node, n) == {i \in DOMAIN node.props : node.props[i][1] = n}

\* the first node after k that is not below it
After(t, k) ==
  Min({j \in k + 1 .. Len(t) + 1 : j = Len(t) + 1 \/ t[j].depth <= t[k].depth})

Below(t, k) == {j \in k + 1 .. After(t, k) - 1 : t[j].depth = t[k].depth + 1}

Create ==
  tree' = <<>> /\ reserved' = <<>> /\ open' = 0

Reserve(e) ==
  reserved' = Append(reserved, e) /\ UNCHANGED <<tree, open>>

WriteNode(n) ==
  /\ tree' = Append(tree, Node(open, n)) /\ open' = open + 1
  /\ UNCHANGED reserved

WriteProp(n, v) ==
  /\ LET t == tree
     IN tree' = [t EXCEPT ![Len(t)].props = Append(@, <<n, v>>)]
  /\ UNCHANGED <<reserved, open>>

CloseNode == open' = open - 1 /\ UNCHANGED <<tree, reserved>>

\* the node with the value of its first property n changed, or the property added
WithProp(node, n, new(_)) ==
  LET has == PropIdx(node, n)
  IN IF has = {} THEN [node EXCEPT !.props = <<<<n, new(<<>>)>>>> \o @]
     ELSE [node EXCEPT !.props[Min(has)][2] = new(@)]

SetProp(k, n, v) ==
  /\ tree' = [tree EXCEPT ![k] = WithProp(@, n, LAMBDA old : v)]
  /\ UNCHANGED <<reserved, open>>

ExtendProp(k, n, v) ==
  /\ tree' = [tree EXCEPT ![k] = WithProp(@, n, LAMBDA old : old \o v)]
  /\ UNCHANGED <<reserved, open>>

DropProp(k, n) ==
  /\ tree' = [tree EXCEPT ![k].props = RemoveAt(@, Min(PropIdx(tree[k], n)))]
  /\ UNCHANGED <<reserved, open>>

Rename(k, n) ==
  tree' = [tree EXCEPT ![k].name = n] /\ UNCHANGED <<reserved, open>>

NewNode(k, n) ==
  LET t == tree
  IN /\ \A j \in Below(t, k) : ~MATCH(t[j].name, n)
     /\ tree' = InsertAt(t, k + 1, Node(t[k].depth + 1, n))
     /\ UNCHANGED <<reserved, open>>

DropNode(k) ==
  LET t == tree
  IN /\ tree' = SubSeq(t, 1, k - 1) \o SubSeq(t, After(t, k), Len(t))
     /\ UNCHANGED <<reserved, open>>

\* a new reservation goes before the terminator
AddReserved(e) ==
  /\ reserved' = InsertAt(reserved, Min({i \in DOMAIN reserved : reserved[i][2] = 0}), e)
  /\ UNCHANGED <<tree, open>>

DropReserved(i) ==
  reserved' = RemoveAt(reserved, i) /\ UNCHANGED <<tree, open>>

Same == UNCHANGED <<tree, reserved, open>>

\* what a call named op does when it succeeds
Does(op, k, n, v) ==
  CASE op = "create"  -> Create
    [] op = "reserve" -> Reserve(v)
    [] op = "begin"   -> WriteNode(n)
    [] op = "prop"    -> WriteProp(n, v)
    [] op = "end"     -> CloseNode
    [] op = "set"     -> SetProp(k, n, v)
    [] op = "append"  -> ExtendProp(k, n, v)
    [] op = "del"     -> DropProp(k, n)
    [] op = "rename"  -> Rename(k, n)
    [] op = "add"     -> NewNode(k, n)
    [] op = "remove"  -> DropNode(k)
    [] op = "addrsv"  -> AddReserved(v)
    [] op = "delrsv"  -> DropReserved(k)
    [] op \in {"finish", "resize", "open", "pack", "none"} -> Same

DTInit == tree = <<>> /\ reserved = <<>> /\ open = 0

DTNext == Does(did'.op, did'.node, did'.name, did'.val)

DTSpec == DTInit /\ [][DTNext]_dtVars
===========================================================================
