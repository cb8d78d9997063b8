------------------------------- MODULE AList -------------------------------
(***************************************************************************)
(* util/AList.c: a doubly linked list, whose nodes come from the slice     *)
(* allocator.  The operators give the list that an operation leaves; each  *)
(* operation is an action.  Nothing is synchronised.                       *)
(***************************************************************************)
EXTENDS MergeSort, FiniteSets, SequencesExt

CONSTANTS Nodes,
          Datas, rank,    \* data and the order of the comparison callback
          None            \* NULL

VARIABLES list,           \* first, last, size and the fields of the nodes
          used,           \* the nodes that are allocated
          held,           \* those that removeNode() has left to its caller
          content,        \* history: the sequence that the calls should make
          cleared         \* history: clear() was called on a longer list

vars == <<list, used, held, content, cleared>>

Init == /\ list = [first |-> None, last |-> None, size |-> 0,
                   next |-> [n \in Nodes |-> None],
                   prev |-> [n \in Nodes |-> None],
                   data |-> [n \in Nodes |-> None]]
        /\ used = {} /\ held = {} /\ content = <<>> /\ cleared = FALSE

(* The nodes from n on, along next or prev; a longer walk is a cycle.      *)
RECURSIVE Walk(_, _, _)
Walk(n, link, most) == IF n = None \/ most = 0 THEN <<>>
                       ELSE <<n>> \o Walk(link[n], link, most - 1)

Forward(l) == Walk(l.first, l.next, Cardinality(Nodes) + 1)
Backward(l) == Walk(l.last, l.prev, Cardinality(Nodes) + 1)

(* node(): from the end that is nearer.                                    *)
NodeAt(l, index) == IF index < l.size \div 2 THEN Forward(l)[index + 1]
                    ELSE Backward(l)[l.size - index]

IndexOf(s, x) == CHOOSE k \in 1 .. Len(s) : s[k] = x

Set(field, n, x) == IF n = None THEN field ELSE [field EXCEPT ![n] = x]
-----------------------------------------------------------------------------
(* linkFirst(), linkBefore() and linkLast(): the node n between p and s.   *)
Link(l, n, e, p, s) ==
    [first |-> IF p = None THEN n ELSE l.first,
     last |-> IF s = None THEN n ELSE l.last,
     size |-> l.size + 1,
     next |-> Set(Set(l.next, n, s), p, n),
     prev |-> Set(Set(l.prev, n, p), s, n),
     data |-> Set(l.data, n, e)]

LinkLast(l, n, e) == Link(l, n, e, l.last, None)
LinkFirst(l, n, e) == Link(l, n, e, None, l.first)
LinkBefore(l, n, e, s) == Link(l, n, e, l.prev[s], s)

(* Faulty variant: last stays where it was.                                *)
DelLinkKeepsLast(l, x) ==
    [l EXCEPT !.first = IF l.prev[x] = None THEN l.next[x] ELSE @,
              !.size = @ - 1,
              !.next = [Set(@, l.prev[x], l.next[x]) EXCEPT ![x] = None],
              !.prev = [Set(@, l.next[x], l.prev[x]) EXCEPT ![x] = None],
              !.data = [@ EXCEPT ![x] = None]]

DelLink(l, x) ==
    [l EXCEPT !.first = IF l.prev[x] = None THEN l.next[x] ELSE @,
              !.last = IF l.next[x] = None THEN l.prev[x] ELSE @,
              !.size = @ - 1,
              !.next = [Set(@, l.prev[x], l.next[x]) EXCEPT ![x] = None],
              !.prev = [Set(@, l.next[x], l.prev[x]) EXCEPT ![x] = None],
              !.data = [@ EXCEPT ![x] = None]]

(* insertSortedReal(): in front of the first node that may follow.  Then   *)
(* insertSorted() looks for the last node.                                 *)
LinkSorted(l, n, e) ==
    LET places == {k \in 1 .. Len(Forward(l)) : rank[e] <= rank[l.data[Forward(l)[k]]]}
        linked == IF places = {} THEN Link(l, n, e, Last(Forward(l)), None)
                  ELSE LinkBefore(l, n, e, Forward(l)[CHOOSE k \in places : \A j \in places : k <= j])
    IN  IF l.size = 0 THEN LinkLast(l, n, e)
        ELSE [linked EXCEPT !.last = Last(Forward(linked))]

(* sortReal() sets both links, sort() looks for the last node.             *)
SortNodes(l) ==
    LET s == MergeSorted(Forward(l), [n \in Nodes |-> IF l.data[n] = None THEN 0 ELSE rank[l.data[n]]])
        at(k) == IF k \in 1 .. Len(s) THEN s[k] ELSE None
    IN  [l EXCEPT !.first = at(1), !.last = at(Len(s)),
                  !.next = [n \in Nodes |-> IF n \in ToSet(s) THEN at(IndexOf(s, n) + 1) ELSE @[n]],
                  !.prev = [n \in Nodes |-> IF n \in ToSet(s) THEN at(IndexOf(s, n) - 1) ELSE @[n]]]

(* reverse(): the links of every node change places.                       *)
ReverseNodes(l) ==
    LET s == ToSet(Forward(l))
    IN  [l EXCEPT !.first = l.last, !.last = l.first,
                  !.next = [n \in Nodes |-> IF n \in s THEN l.prev[n] ELSE @[n]],
                  !.prev = [n \in Nodes |-> IF n \in s THEN l.next[n] ELSE @[n]]]

(* removeAll(data): the loop, which reads next before it frees the node.   *)
RECURSIVE DelFrom(_, _, _)
DelFrom(l, x, e) == IF x = None THEN l
                    ELSE DelFrom(IF l.data[x] = e THEN DelLink(l, x) ELSE l, l.next[x], e)
-----------------------------------------------------------------------------
(* createNode(): which of the free nodes does not matter.                  *)
NewNode == CHOOSE n \in Nodes : n \notin used

Create(l, seq) == /\ used # Nodes
                  /\ list' = l /\ content' = seq
                  /\ used' = used \cup {NewNode}
                  /\ UNCHANGED <<held, cleared>>

(* add(), addFirst(), insert() and insertSorted().                         *)
Add(e) == Create(LinkLast(list, NewNode, e), Append(content, e))
AddFirst(e) == Create(LinkFirst(list, NewNode, e), <<e>> \o content)

Insert(index, e) ==
    /\ index \in 1 .. list.size - 1
    /\ Create(LinkBefore(list, NewNode, e, NodeAt(list, index)),
              InsertAt(content, index + 1, e))

(* As in AQueue: in front of the first item that may follow.               *)
SortedPlace(e) == Cardinality({k \in 1 .. Len(content) :
                      \A j \in 1 .. k : rank[content[j]] < rank[e]}) + 1

InsertSorted(e) == Create(LinkSorted(list, NewNode, e), InsertAt(content, SortedPlace(e), e))

Delete(n, seq) == /\ list' = DelLink(list, n) /\ content' = seq
                  /\ used' = used \ {n}
                  /\ UNCHANGED <<held, cleared>>

(* remove(data): the first node with the data.                             *)
RemoveData(e) == /\ e \in ToSet(content)
                 /\ Delete(Forward(list)[IndexOf([k \in 1 .. list.size |->
                                              list.data[Forward(list)[k]]], e)],
                           RemoveFirst(content, e))

(* remove(index), removeFirst() and removeLast().                          *)
RemoveIndex(index) ==
    /\ index \in 0 .. list.size - 1
    /\ Delete(IF index = 0 THEN list.first ELSE NodeAt(list, index),
              RemoveAt(content, index + 1))

RemoveLast == list.last # None /\ Delete(list.last, Front(content))

RemoveAll(e) == /\ list' = DelFrom(list, list.first, e)
                /\ used' = used \ {n \in ToSet(Forward(list)) : list.data[n] = e}
                /\ content' = SelectSeq(content, LAMBDA x : x # e)
                /\ UNCHANGED <<held, cleared>>

(* removeNode(): the caller frees the node, with nodeFree().               *)
RemoveNode(n) == /\ n \in ToSet(Forward(list))
                 /\ list' = DelLink(list, n)
                 /\ content' = RemoveAt(content, IndexOf(Forward(list), n))
                 /\ held' = held \cup {n}
                 /\ UNCHANGED <<used, cleared>>

NodeFree(n) == /\ n \in held
               /\ used' = used \ {n} /\ held' = held \ {n}
               /\ UNCHANGED <<list, content, cleared>>

(* clear(): delLink() has cut the link to the next node when the loop      *)
(* wants it, so only the first node is freed.                              *)
Clear == /\ list.first # None
         /\ list' = [DelLink(list, list.first) EXCEPT !.first = None, !.last = None, !.size = 0]
         /\ content' = <<>>
         /\ used' = used \ {list.first}
         /\ cleared' = (cleared \/ list.size > 1)
         /\ UNCHANGED held

Sort == /\ list' = SortNodes(list)
        /\ content' = MergeSorted(content, rank)
        /\ UNCHANGED <<used, held, cleared>>

Reversed == /\ list' = ReverseNodes(list)
            /\ content' = Reverse(content)
            /\ UNCHANGED <<used, held, cleared>>

Next == \/ \E e \in Datas : \/ Add(e) \/ AddFirst(e) \/ InsertSorted(e)
                            \/ RemoveData(e) \/ RemoveAll(e)
                            \/ \E i \in 1 .. Cardinality(Nodes) : Insert(i, e)
        \/ \E i \in 0 .. Cardinality(Nodes) : RemoveIndex(i)
        \/ \E n \in Nodes : RemoveNode(n) \/ NodeFree(n)
        \/ RemoveLast \/ Clear \/ Sort \/ Reversed

Spec == Init /\ [][Next]_vars
-----------------------------------------------------------------------------
(* Every operation: the nodes hold the sequence that the calls make, and   *)
(* the same one from either end, so that node() may start from both; nodes *)
(* are freed when they have left the list, not before, and none is         *)
(* forgotten - except by clear().                                          *)
ListIsSequence ==
    /\ Len(content) = list.size
    /\ [k \in 1 .. Len(Forward(list)) |-> list.data[Forward(list)[k]]] = content
    /\ Backward(list) = Reverse(Forward(list))
    /\ ToSet(Forward(list)) \cap held = {}
    /\ ToSet(Forward(list)) \cup held \subseteq used
    /\ cleared \/ used = ToSet(Forward(list)) \cup held
=============================================================================
