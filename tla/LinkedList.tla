----------------------------- MODULE LinkedList -----------------------------
(***************************************************************************)
(* list.c at the level of its pointers.  Memory is a heap: for every      *)
(* address calloc() may return, the List node stored there (next, prev,   *)
(* user_data), and the set of addresses currently allocated.  A freed     *)
(* node keeps the fields it had; reading it is the caller's business.     *)
(*                                                                         *)
(* Each list function is an operator from a heap and a head to the new    *)
(* heap and the head it returns.  The sequence of payloads reached from a *)
(* head by next is what the program means by "the list"; the sequence     *)
(* operators at the end are that meaning, against which the pointer       *)
(* operators are checked.                                                  *)
(***************************************************************************)
EXTENDS Naturals, Sequences, FiniteSets, Functions

CONSTANTS
  Links,   \* the addresses list_new() may return
  NULL     \* the null pointer, and calloc()'s zeroed user_data

ASSUME NULL \notin Links

Addr == Links \cup {NULL}

\* The heap before any list node is allocated.
EmptyHeap ==
  [node |-> [a \in Links |-> [next |-> NULL, prev |-> NULL, user_data |-> NULL]],
   live |-> {}]

HeapType(Data) ==
  [node : [Links -> [next : Addr, prev : Addr, user_data : Data \cup {NULL}]],
   live : SUBSET Links]

\* list_new(): calloc() one node, all fields zero.  The address is some
\* unallocated one; which one does not matter to the program.
ListNew(h) ==
  LET a == CHOOSE x \in Links \ h.live : TRUE
  IN  [addr |-> a,
       heap |-> [node |-> [h.node EXCEPT ![a] =
                             [next |-> NULL, prev |-> NULL, user_data |-> NULL]],
                 live |-> h.live \cup {a}]]

\* list_free_link(): free() a node, ignoring NULL.
ListFreeLink(h, link) == [h EXCEPT !.live = @ \ {link}]

\* list_prepend(): a new node holding d, inserted before list (after
\* list->prev when there is one); it is returned as the new head.
ListPrepend(h, list, d) ==
  LET new  == ListNew(h)
      l    == new.addr
      n0   == [new.heap.node EXCEPT ![l].user_data = d]
      p    == IF list # NULL THEN n0[list].prev ELSE NULL
      n1   == IF p # NULL THEN [n0 EXCEPT ![p].next = l, ![l].prev = p] ELSE n0
      n2   == IF list # NULL THEN [n1 EXCEPT ![list].prev = l, ![l].next = list]
              ELSE n1
  IN  [heap |-> [new.heap EXCEPT !.node = n2], head |-> l]

\* list_remove_link(): splice link out of its neighbours, move the head
\* on when link was the head, and clear link's own next and prev.
ListRemoveLink(h, list, link) ==
  IF link = NULL THEN [heap |-> h, head |-> list]
  ELSE
  LET x  == h.node[link]
      n1 == IF x.prev # NULL THEN [h.node EXCEPT ![x.prev].next = x.next] ELSE h.node
      n2 == IF x.next # NULL THEN [n1 EXCEPT ![x.next].prev = x.prev] ELSE n1
      hd == IF list = link THEN n2[list].next ELSE list
  IN  [heap |-> [h EXCEPT !.node = [n2 EXCEPT ![link].next = NULL,
                                               ![link].prev = NULL]],
       head |-> hd]

\* list_delete_link(): list_remove_link(), then list_free_link().
ListDeleteLink(h, list, link) ==
  LET r == ListRemoveLink(h, list, link)
  IN  [heap |-> ListFreeLink(r.heap, link), head |-> r.head]

\* The addresses reached from head by next, at most one more than there
\* are addresses, so that a cycle shows as a repeated address.
RECURSIVE Walk(_, _, _)
Walk(h, a, fuel) ==
  IF a = NULL \/ fuel = 0 THEN <<>>
  ELSE <<a>> \o Walk(h, h.node[a].next, fuel - 1)

Chain(h, head) == Walk(h, head, Cardinality(Links) + 1)

\* list_last(): the node reached from list by next whose next is NULL.
ListLast(h, list) ==
  IF list = NULL THEN NULL
  ELSE LET c == Chain(h, list) IN c[Len(c)]

\* list_append(): a new node holding d after list_last(list); the head is
\* unchanged unless the list was empty.
ListAppend(h, list, d) ==
  LET new  == ListNew(h)
      l    == new.addr
      n0   == [new.heap.node EXCEPT ![l].user_data = d]
      tail == ListLast(new.heap, list)
  IN  IF list = NULL
      THEN [heap |-> [new.heap EXCEPT !.node = n0], head |-> l]
      ELSE [heap |-> [new.heap EXCEPT !.node =
                        [n0 EXCEPT ![tail].next = l, ![l].prev = tail]],
            head |-> list]

\* The list_user_data() of every node of the list, head first.
Payloads(h, head) ==
  LET c == Chain(h, head) IN [i \in 1 .. Len(c) |-> h.node[c[i]].user_data]

\* A list is well linked: its nodes are allocated and distinct, the head
\* has no prev, and each node's prev is the node before it.
WellLinked(h, head) ==
  LET c == Chain(h, head) IN
  /\ IsInjective(c)
  /\ Range(c) \subseteq h.live
  /\ \A i \in 1 .. Len(c) : h.node[c[i]].prev = IF i = 1 THEN NULL ELSE c[i - 1]

-----------------------------------------------------------------------------
(***************************************************************************)
(* The reference: what each call does to the sequence of payloads.  A     *)
(* call is a record: prepend or append a payload, or delete the node at a *)
(* position of the list.                                                   *)
(***************************************************************************)
Calls(Data, MaxLen) ==
  [op : {"prepend", "append"}, arg : Data] \cup [op : {"delete"}, arg : 1 .. MaxLen]

SeqEffect(s, c) ==
  CASE c.op = "prepend" -> <<c.arg>> \o s
    [] c.op = "append"  -> Append(s, c.arg)
    [] c.op = "delete"  -> SubSeq(s, 1, c.arg - 1) \o SubSeq(s, c.arg + 1, Len(s))

ListEffect(h, head, c) ==
  CASE c.op = "prepend" -> ListPrepend(h, head, c.arg)
    [] c.op = "append"  -> ListAppend(h, head, c.arg)
    [] c.op = "delete"  -> ListDeleteLink(h, head, Chain(h, head)[c.arg])

\* A call the program could make: a delete names a node of the list, and
\* an insertion finds an unallocated address.
Callable(h, s, c) ==
  IF c.op = "delete" THEN c.arg <= Len(s) ELSE Links \ h.live # {}

\* Running the calls on the heap keeps the list well linked, its payloads
\* equal to the reference sequence, and no node allocated off the list.
RECURSIVE AgreesWithSeq(_, _, _, _)
AgreesWithSeq(calls, h, head, s) ==
  IF calls = <<>> \/ ~Callable(h, s, Head(calls)) THEN TRUE
  ELSE LET r == ListEffect(h, head, Head(calls))
           t == SeqEffect(s, Head(calls))
       IN  /\ WellLinked(r.heap, r.head)
           /\ Payloads(r.heap, r.head) = t
           /\ r.heap.live = Range(Chain(r.heap, r.head))
           /\ AgreesWithSeq(Tail(calls), r.heap, r.head, t)

=============================================================================
