---------------------------- MODULE DevListProofs ----------------------------
(***************************************************************************)
(* Theorems about DevList, for every finite set of devices, every set of   *)
(* addresses and every choice of faults.                                   *)
(***************************************************************************)
EXTENDS DevList, FiniteSetTheorems, TLAPS

-----------------------------------------------------------------------------
(***************************************************************************)
(* The inductive invariant.                                                *)
(***************************************************************************)
\* Where the list is that holds the nodes: a node that is not filled in yet is
\* not in it, and ser_dev_list_destroy has freed the nodes before "curr".
Root ==
  CASE pc = "fill"                        -> prev
    [] pc \in {"destroy", "destroy_prev"} -> curr
    [] OTHER                              -> lst

Linked == IF pc = "fill" THEN heap \ {lst} ELSE heap

\* The nodes of a finite set in an order, each once.
Orders(S) ==
  UNION {{order \in [1..n -> S] :
            /\ \A i, j \in 1..n : order[i] = order[j] => i = j
            /\ \A a \in S : \E i \in 1..n : order[i] = a} : n \in Nat}

\* The links lead from "first" through the nodes of S, and end.
Reached(first, link, S) ==
  \E order \in Orders(S) :
    /\ first = At(order, 1)
    /\ \A i \in DOMAIN order : link[order[i]] = At(order, i + 1)

\* Every node that is allocated is reached.
AllReached == Reached(Root, next, Linked)

NoList == {"idle", "null", "udev_new", "enumerate_new", "matching", "class_devs",
           "destroy_prev"}

Pointers ==
  /\ pc \in NoList => lst = NULL
  /\ pc = "fill" => lst \in heap
  /\ pc = "returned" => lst # NULL

\* No device is in two nodes, or in one and among the entries to be looked at.
Named ==
  /\ \A m, n \in heap : dev[m] \in Devices /\ dev[m] = dev[n] => m = n
  /\ pc \in {"foreach", "fill"} =>
       /\ IsInjective(todo)
       /\ \A n \in heap : dev[n] \in Devices => dev[n] \notin ToSet(todo)
  /\ pc = "fill" => todo # <<>> /\ dev[lst] = NoDev

\* There is a list, complete or in the making.
HasList ==
  \/ pc \in {"foreach", "fill", "returned"}
  \/ pc = "release" /\ lst # NULL

\* A device that stays is in the list if it is not still to be looked at.
Kept ==
  /\ stayed \subseteq plugged
  /\ HasList /\ pc \notin {"foreach", "fill"} => todo = <<>>
  /\ HasList /\ faults \cap {"malloc", "registry"} = {} =>
       \A d \in stayed : d \in ToSet(todo) \/ \E n \in heap : dev[n] = d

Objects ==
  /\ pc \in {"idle", "null", "returned", "destroy"} => held \subseteq {"io_dev"}
  /\ "io_dev" \in held =>
       os = "macos" /\ (pc = "fill" \/ "calloc" \in faults)
  /\ \A d \in owed : os = "macos" /\ ~(d \in Usb /\ Climb[d] = 1)

Reasons ==
  /\ pc \in {"null", "destroy_prev"} => err
  /\ pc = "release" /\ lst = NULL => err

IInv ==
  TypeOK /\ AllReached /\ Pointers /\ Named /\ Kept /\ Objects /\ Reasons

-----------------------------------------------------------------------------
(***************************************************************************)
(* Links.                                                                  *)
(***************************************************************************)
LEMMA OrderFrom ==
  ASSUME NEW S, NEW n \in Nat, NEW order \in [1..n -> S],
         \A i, j \in 1..n : order[i] = order[j] => i = j,
         \A a \in S : \E i \in 1..n : order[i] = a
  PROVE  order \in Orders(S)
  BY DEF Orders

LEMMA OrderIs ==
  ASSUME NEW S, NEW order \in Orders(S)
  PROVE  \E n \in Nat :
           /\ order \in [1..n -> S]
           /\ \A i, j \in 1..n : order[i] = order[j] => i = j
           /\ \A a \in S : \E i \in 1..n : order[i] = a
  BY DEF Orders

LEMMA NoneReached ==
  ASSUME NEW link
  PROVE  Reached(NULL, link, {})
<1> DEFINE order == [i \in 1..0 |-> NULL]
<1>1. DOMAIN order = {} /\ order \in [1..0 -> {}]
  OBVIOUS
<1>2. order \in Orders({})
  <2>1. /\ \A i, j \in 1..0 : order[i] = order[j] => i = j
        /\ \A a \in {} : \E i \in 1..0 : order[i] = a
    OBVIOUS
  <2> HIDE DEF order
  <2>2. QED
    BY <1>1, <2>1, OrderFrom
<1>3. QED
  BY <1>1, <1>2 DEF Reached, At

\* A node in front.
LEMMA OneMoreReached ==
  ASSUME NEW first, NEW link, NEW link2, NEW S, NEW a,
         Reached(first, link, S), a \notin S, link2[a] = first,
         \A m \in S : link2[m] = link[m]
  PROVE  Reached(a, link2, S \cup {a})
<1>1. PICK order \in Orders(S) :
         /\ first = At(order, 1)
         /\ \A i \in DOMAIN order : link[order[i]] = At(order, i + 1)
  BY DEF Reached
<1>2. PICK n \in Nat :
         /\ order \in [1..n -> S]
         /\ \A i, j \in 1..n : order[i] = order[j] => i = j
         /\ \A b \in S : \E i \in 1..n : order[i] = b
  BY OrderIs
<1> DEFINE longer == [i \in 1..n + 1 |-> IF i = 1 THEN a ELSE order[i - 1]]
<1>3. /\ DOMAIN longer = 1..n + 1 /\ DOMAIN order = 1..n
      /\ 1 \in 1..n + 1 /\ longer[1] = a
  BY <1>2
<1>4. ASSUME NEW i \in 1..n
      PROVE  i + 1 \in 1..n + 1 /\ longer[i + 1] = order[i] /\ order[i] \in S
  BY <1>2
<1>5. ASSUME NEW i \in 1..n + 1
      PROVE  i = 1 \/ (i - 1 \in 1..n /\ i = (i - 1) + 1
                       /\ longer[i] = order[i - 1] /\ order[i - 1] \in S)
  <2>1. CASE i # 1
    <3>1. i - 1 \in 1..n /\ i = (i - 1) + 1
      BY <2>1, <1>2
    <3>2. QED
      BY <3>1, <2>1, <1>2
  <2>2. QED
    BY <2>1
<1> HIDE DEF longer
<1>6. longer \in Orders(S \cup {a})
  <2>1. longer \in [1..n + 1 -> S \cup {a}]
    <3>1. ASSUME NEW i \in 1..n + 1 PROVE longer[i] \in S \cup {a}
      BY <1>3, <1>5
    <3>2. longer = [i \in 1..n + 1 |-> longer[i]]
      BY DEF longer
    <3>3. QED
      BY <3>1, <3>2
  <2>2. ASSUME NEW i \in 1..n + 1, NEW j \in 1..n + 1, longer[i] = longer[j]
        PROVE  i = j
    <3>1. CASE i = 1 /\ j = 1
      BY <3>1
    <3>2. CASE i # 1 /\ j # 1
      <4>1. i - 1 = j - 1
        BY <3>2, <2>2, <1>5, <1>2
      <4>2. QED
        BY <4>1
    <3>3. CASE i = 1 /\ j # 1
      BY <3>3, <2>2, <1>3, <1>5
    <3>4. CASE i # 1 /\ j = 1
      BY <3>4, <2>2, <1>3, <1>5
    <3>5. QED
      BY <3>1, <3>2, <3>3, <3>4
  <2>3. ASSUME NEW b \in S \cup {a}
        PROVE  \E i \in 1..n + 1 : longer[i] = b
    <3>1. CASE b = a
      BY <3>1, <1>3
    <3>2. CASE b \in S
      <4>1. PICK i \in 1..n : order[i] = b
        BY <3>2, <1>2
      <4>2. QED
        BY <4>1, <1>4
    <3>3. QED
      BY <3>1, <3>2
  <2>4. n + 1 \in Nat
    OBVIOUS
  <2>5. QED
    BY <2>1, <2>2, <2>3, <2>4, OrderFrom
<1>7. \A i \in 1..n + 1 : At(longer, i + 1) = At(order, i)
  <2>1. ASSUME NEW i \in 1..n + 1 PROVE At(longer, i + 1) = At(order, i)
    <3>1. CASE i \in 1..n
      BY <3>1, <1>3, <1>4 DEF At
    <3>2. CASE i = n + 1
      <4>1. i \notin 1..n /\ i + 1 \notin 1..n + 1
        BY <3>2
      <4>2. QED
        BY <4>1, <1>3 DEF At
    <3>3. i \in 1..n \/ i = n + 1
      OBVIOUS
    <3>4. QED
      BY <3>1, <3>2, <3>3
  <2>2. QED
    BY <2>1
<1>8. ASSUME NEW i \in 1..n + 1 PROVE link2[longer[i]] = At(longer, i + 1)
  <2>1. CASE i = 1
    BY <2>1, <1>1, <1>3, <1>7
  <2>2. CASE i # 1
    <3>1. /\ i - 1 \in 1..n /\ i = (i - 1) + 1
          /\ longer[i] = order[i - 1] /\ order[i - 1] \in S
      BY <2>2, <1>5
    <3>2. link[order[i - 1]] = At(order, (i - 1) + 1)
      BY <3>1, <1>1, <1>3
    <3>3. QED
      BY <3>1, <3>2, <1>7
  <2>3. QED
    BY <2>1, <2>2
<1>9. a = At(longer, 1)
  BY <1>3 DEF At
<1>10. QED
  BY <1>3, <1>6, <1>8, <1>9 DEF Reached

\* The first node is read and freed.
LEMMA OneLessReached ==
  ASSUME NEW first, NEW link, NEW S, Reached(first, link, S),
         first # NULL
  PROVE  first \in S /\ Reached(link[first], link, S \ {first})
<1>1. PICK order \in Orders(S) :
         /\ first = At(order, 1)
         /\ \A i \in DOMAIN order : link[order[i]] = At(order, i + 1)
  BY DEF Reached
<1>2. PICK n \in Nat :
         /\ order \in [1..n -> S]
         /\ \A i, j \in 1..n : order[i] = order[j] => i = j
         /\ \A b \in S : \E i \in 1..n : order[i] = b
  BY OrderIs
<1>3. DOMAIN order = 1..n /\ 1 \in 1..n /\ first = order[1] /\ n - 1 \in Nat
  <2>1. DOMAIN order = 1..n
    BY <1>2
  <2>2. 1 \in 1..n /\ first = order[1]
    BY <2>1, <1>1 DEF At
  <2>3. QED
    BY <2>1, <2>2
<1> DEFINE shorter == [i \in 1..n - 1 |-> order[i + 1]]
           rest == S \ {first}
<1>4. DOMAIN shorter = 1..n - 1
  OBVIOUS
<1>5. ASSUME NEW i \in 1..n - 1
      PROVE  i + 1 \in 1..n /\ shorter[i] = order[i + 1] /\ order[i + 1] \in rest
  <2>1. i + 1 \in 1..n /\ i + 1 # 1
    BY <1>3
  <2>2. order[i + 1] \in S /\ order[i + 1] # order[1]
    BY <2>1, <1>2, <1>3
  <2>3. QED
    BY <2>1, <2>2, <1>3
<1>6. shorter \in [1..n - 1 -> rest]
  BY <1>5
<1> HIDE DEF shorter, rest
<1>7. shorter \in Orders(rest)
  <2>1. ASSUME NEW i \in 1..n - 1, NEW j \in 1..n - 1, shorter[i] = shorter[j]
        PROVE  i = j
    <3>1. i + 1 = j + 1
      BY <2>1, <1>5, <1>2
    <3>2. QED
      BY <3>1
  <2>2. ASSUME NEW b \in rest PROVE \E i \in 1..n - 1 : shorter[i] = b
    <3>1. b \in S /\ b # order[1]
      BY <1>3 DEF rest
    <3>2. PICK j \in 1..n : order[j] = b
      BY <3>1, <1>2
    <3>3. j # 1
      BY <3>1, <3>2
    <3>4. j - 1 \in 1..n - 1 /\ (j - 1) + 1 = j
      BY <3>3, <1>3
    <3>5. QED
      BY <3>2, <3>4, <1>5
  <2>3. QED
    BY <2>1, <2>2, <1>3, <1>6, OrderFrom
<1>8. ASSUME NEW i \in Nat \ {0} PROVE At(shorter, i) = At(order, i + 1)
  <2>1. CASE i \in 1..n - 1
    BY <2>1, <1>3, <1>4, <1>5 DEF At
  <2>2. CASE i \notin 1..n - 1
    <3>1. i + 1 \notin 1..n
      BY <2>2
    <3>2. QED
      BY <2>2, <3>1, <1>3, <1>4 DEF At
  <2>3. QED
    BY <2>1, <2>2
<1>9. ASSUME NEW i \in 1..n - 1 PROVE link[shorter[i]] = At(shorter, i + 1)
  <2>1. link[order[i + 1]] = At(order, (i + 1) + 1)
    BY <1>1, <1>3, <1>5
  <2>2. i + 1 \in Nat \ {0}
    OBVIOUS
  <2>3. QED
    BY <2>1, <2>2, <1>5, <1>8
<1>10. link[first] = At(shorter, 1)
  <2>1. link[first] = At(order, 1 + 1)
    BY <1>1, <1>3
  <2>2. QED
    BY <2>1, <1>8
<1>11. first \in S
  BY <1>2, <1>3
<1>12. QED
  BY <1>4, <1>7, <1>9, <1>10, <1>11 DEF Reached, rest

LEMMA EndReached ==
  ASSUME NEW link, NEW S, Reached(NULL, link, S), NULL \notin S
  PROVE  S = {}
<1>1. PICK order \in Orders(S) : NULL = At(order, 1)
  BY DEF Reached
<1>2. PICK n \in Nat :
         /\ order \in [1..n -> S]
         /\ \A b \in S : \E i \in 1..n : order[i] = b
  BY OrderIs
<1>3. ASSUME 1 \in 1..n PROVE FALSE
  <2>1. order[1] \in S /\ At(order, 1) = order[1]
    BY <1>2, <1>3 DEF At
  <2>2. QED
    BY <2>1, <1>1
<1>4. 1..n = {}
  BY <1>3
<1>5. QED
  BY <1>2, <1>4

LEMMA SameReached ==
  ASSUME NEW first, NEW link, NEW link2, NEW S, Reached(first, link, S),
         \A m \in S : link2[m] = link[m]
  PROVE  Reached(first, link2, S)
<1>1. PICK order \in Orders(S) :
         /\ first = At(order, 1)
         /\ \A i \in DOMAIN order : link[order[i]] = At(order, i + 1)
  BY DEF Reached
<1>2. \A i \in DOMAIN order : order[i] \in S
  BY OrderIs
<1>3. QED
  BY <1>1, <1>2 DEF Reached

\* The order as SetToSeqs has it.
LEMMA ListReached ==
  ASSUME Reached(lst, next, heap)
  PROVE  \E order \in SetToSeqs(heap) : Links(lst, order)
<1>1. PICK order \in Orders(heap) : Links(lst, order)
  BY DEF Reached, Links
<1>2. PICK n \in Nat :
         /\ order \in [1..n -> heap]
         /\ \A i, j \in 1..n : order[i] = order[j] => i = j
         /\ \A b \in heap : \E i \in 1..n : order[i] = b
  BY OrderIs
<1>3. Cardinality(heap) = n
  <2>1. IsFiniteSet(1..n) /\ Cardinality(1..n) = n
    BY FS_Interval
  <2>2. ExistsBijection(1..n, heap)
    BY <1>2 DEF ExistsBijection, Bijection, Injection, Surjection, IsInjective
  <2>3. QED
    BY <2>1, <2>2, FS_Bijection
<1>4. order \in SetToSeqs(heap)
  BY <1>2, <1>3 DEF SetToSeqs
<1>5. QED
  BY <1>1, <1>4

-----------------------------------------------------------------------------
(***************************************************************************)
(* The entries of the snapshot.                                            *)
(***************************************************************************)
LEMMA FirstEntry ==
  ASSUME NEW S, NEW s \in Seq(S), s # <<>>, IsInjective(s)
  PROVE  /\ Head(s) \in S /\ Tail(s) \in Seq(S) /\ IsInjective(Tail(s))
         /\ Head(s) \notin ToSet(Tail(s))
         /\ ToSet(s) = {Head(s)} \cup ToSet(Tail(s))
<1>1. /\ Head(s) \in S /\ Tail(s) \in Seq(S) /\ Head(s) = s[1]
      /\ Len(s) \in Nat \ {0} /\ DOMAIN s = 1..Len(s)
      /\ DOMAIN Tail(s) = 1..(Len(s) - 1)
      /\ \A i \in 1..(Len(s) - 1) : Tail(s)[i] = s[i + 1]
  OBVIOUS
<1>2. ASSUME NEW i \in 1..(Len(s) - 1) PROVE i + 1 \in 1..Len(s) /\ i + 1 # 1
  BY <1>1
<1>3. ASSUME NEW i \in 1..Len(s), i # 1
      PROVE  i - 1 \in 1..(Len(s) - 1) /\ (i - 1) + 1 = i
  BY <1>1, <1>3
<1>4. 1 \in 1..Len(s)
  BY <1>1
<1>5. IsInjective(Tail(s))
  <2>1. ASSUME NEW i \in 1..(Len(s) - 1), NEW j \in 1..(Len(s) - 1),
               s[i + 1] = s[j + 1]
        PROVE  i = j
    <3>1. i + 1 = j + 1
      BY <1>1, <1>2, <2>1 DEF IsInjective
    <3>2. QED
      BY <3>1
  <2>2. QED
    BY <1>1, <2>1 DEF IsInjective
<1>6. Head(s) \notin ToSet(Tail(s))
  BY <1>1, <1>2, <1>4 DEF IsInjective, ToSet
<1>7. ToSet(s) = {Head(s)} \cup ToSet(Tail(s))
  <2>1. ASSUME NEW i \in 1..Len(s) PROVE s[i] \in {Head(s)} \cup ToSet(Tail(s))
    <3>1. CASE i = 1
      BY <3>1, <1>1
    <3>2. CASE i # 1
      <4>1. Tail(s)[i - 1] = s[i]
        BY <3>2, <1>1, <1>3
      <4>2. QED
        BY <3>2, <4>1, <1>1, <1>3 DEF ToSet
    <3>3. QED
      BY <3>1, <3>2
  <2>2. ASSUME NEW i \in 1..(Len(s) - 1) PROVE Tail(s)[i] \in ToSet(s)
    BY <1>1, <1>2 DEF ToSet
  <2>3. Head(s) \in ToSet(s)
    BY <1>1, <1>4 DEF ToSet
  <2>4. QED
    BY <1>1, <2>1, <2>2, <2>3 DEF ToSet
<1>8. QED
  BY <1>1, <1>5, <1>6, <1>7

LEMMA SnapshotOf ==
  ASSUME NEW S, IsFiniteSet(S), NEW s \in SetToSeqs(S)
  PROVE  s \in Seq(S) /\ IsInjective(s) /\ ToSet(s) \subseteq S
<1>1. Cardinality(S) \in Nat
  BY FS_CardinalityType
<1>2. /\ s \in [1..Cardinality(S) -> S]
      /\ \A i, j \in 1..Cardinality(S) : i # j => s[i] # s[j]
  BY DEF SetToSeqs
<1>3. s \in Seq(S)
  BY <1>1, <1>2
<1>4. QED
  BY <1>2, <1>3 DEF IsInjective, ToSet

LEMMA NoEntries == /\ <<>> \in Seq(Devices \cup Others)
                   /\ IsInjective(<<>>) /\ ToSet(<<>>) = {}
  BY DEF IsInjective, ToSet

-----------------------------------------------------------------------------
(***************************************************************************)
(* The invariant holds at first and is preserved by every action.          *)
(***************************************************************************)
LEMMA NoNull == NULL \notin Nodes
  BY NodesAssumption DEF NULL

LEMMA InitIInv == Init => IInv
<1> SUFFICES ASSUME Init PROVE IInv
  OBVIOUS
<1>1. TypeOK
  BY NoEntries DEF Init, TypeOK, Address
<1>2. AllReached
  <2>1. Root = NULL /\ Linked = {}
    BY DEF Init, Root, Linked
  <2>2. QED
    BY <2>1, NoneReached DEF AllReached
<1>3. Pointers /\ Named /\ Kept /\ Objects /\ Reasons
  BY DEF Init, Pointers, Named, Kept, HasList, Objects, Reasons
<1>4. QED
  BY <1>1, <1>2, <1>3 DEF IInv

\* A step that neither moves the root nor touches a node in the list.
LEMMA SameList ==
  ASSUME AllReached, Root' = Root, Linked' = Linked,
         \A m \in Linked : next'[m] = next[m]
  PROVE  AllReached'
<1>1. Reached(Root, next', Linked)
  BY SameReached DEF AllReached
<1>2. QED
  BY <1>1 DEF AllReached

LEMMA NoNodes ==
  ASSUME IInv, Root = NULL
  PROVE  Linked = {}
<1>1. NULL \notin Linked
  BY NoNull DEF IInv, TypeOK, Linked
<1>2. QED
  BY <1>1, EndReached DEF IInv, AllReached

LEMMA GetStep == IInv /\ Get => IInv'
<1> SUFFICES ASSUME IInv, Get PROVE IInv'
  OBVIOUS
<1>1. pc' \in {"udev_new", "matching", "class_devs"} /\ pc \in {"idle", "null"}
  BY PlatformsAssumption DEF Get, IInv, TypeOK
<1>2. TypeOK'
  BY <1>1 DEF Get, memory, IInv, TypeOK
<1>3. AllReached'
  <2>1. Root' = Root /\ Linked' = Linked /\ next' = next
    BY <1>1 DEF Get, Root, Linked, memory
  <2>2. QED
    BY <2>1, SameList DEF IInv
<1>4. Pointers' /\ Named' /\ Kept' /\ Objects' /\ Reasons'
  BY <1>1 DEF Get, memory, IInv, Pointers, NoList, Named, Kept, HasList, Objects,
              Reasons
<1>5. QED
  BY <1>2, <1>3, <1>4 DEF IInv

LEMMA EnumerateStep == IInv /\ Enumerate => IInv'
<1> SUFFICES ASSUME IInv, Enumerate PROVE IInv'
  OBVIOUS
<1>1. /\ pc \in {"udev_new", "enumerate_new", "matching", "class_devs"}
      /\ pc' \in {"enumerate_new", "foreach", "release"}
      /\ held' \subseteq held \cup {"uinst", "uenum", "io_iter", "dev_info_set"}
      /\ err' \in BOOLEAN /\ (pc' = "release" => err')
  BY DEF Enumerate, Acquire, IInv, TypeOK
<1>2. lst = NULL /\ Root = NULL /\ heap = {}
  <2>1. lst = NULL /\ Root = NULL
    BY <1>1 DEF IInv, Pointers, NoList, Root
  <2>2. QED
    BY <1>1, <2>1, NoNodes DEF Linked
<1>3. /\ todo' \in Seq(Devices \cup Others) /\ stayed' \subseteq Devices
      /\ stayed' \subseteq plugged'
      /\ pc' = "foreach" => IsInjective(todo') /\ stayed' \subseteq ToSet(todo')
  <2>1. CASE pc' # "foreach"
    BY <2>1 DEF Enumerate, IInv, TypeOK, Kept
  <2>2. CASE pc' = "foreach"
    <3> DEFINE S == IF os = "macos" THEN plugged ELSE plugged \cup Others
    <3>1. IsFiniteSet(S) /\ S \subseteq Devices \cup Others
          /\ S \cap Devices \subseteq plugged
      <4>1. S \subseteq Devices \cup Others /\ S \cap Devices \subseteq plugged
        BY DevicesAssumption DEF IInv, TypeOK
      <4>2. QED
        BY <4>1, DevicesAssumption, FS_Subset
    <3>2. /\ todo' \in SetToSeqs(S) \cup {<<>>}
          /\ stayed' = ToSet(todo') \cap Devices /\ plugged' = plugged
      BY <2>2 DEF Enumerate
    <3> HIDE DEF S
    <3>3. CASE todo' = <<>>
      BY <3>2, <3>3, NoEntries
    <3>4. CASE todo' \in SetToSeqs(S)
      <4>1. todo' \in Seq(S) /\ IsInjective(todo') /\ ToSet(todo') \subseteq S
        BY <3>1, <3>4, SnapshotOf
      <4>2. todo' \in Seq(Devices \cup Others)
        BY <3>1, <4>1
      <4>3. QED
        BY <3>1, <3>2, <4>1, <4>2
    <3>5. QED
      BY <3>2, <3>3, <3>4
  <2>3. QED
    BY <2>1, <2>2
<1>4. TypeOK'
  BY <1>1, <1>3 DEF Enumerate, memory, IInv, TypeOK
<1>5. AllReached'
  <2>1. Root' = Root /\ Linked' = Linked /\ next' = next
    BY <1>1 DEF Enumerate, Root, Linked, memory
  <2>2. QED
    BY <2>1, SameList DEF IInv
<1>6. Pointers' /\ Named' /\ Kept' /\ Reasons'
  BY <1>1, <1>2, <1>3
     DEF Enumerate, memory, Pointers, NoList, Named, Kept, HasList, Reasons
<1>7. Objects'
  BY <1>1 DEF Enumerate, IInv, Objects
<1>8. QED
  BY <1>4, <1>5, <1>6, <1>7 DEF IInv

LEMMA SkipStep == IInv /\ Skip => IInv'
<1> SUFFICES ASSUME IInv, Skip PROVE IInv'
  OBVIOUS
<1>1. /\ pc = "foreach" /\ pc' = "foreach"
      /\ Tail(todo) \in Seq(Devices \cup Others) /\ IsInjective(Tail(todo))
      /\ ToSet(todo) = {Head(todo)} \cup ToSet(Tail(todo))
  BY FirstEntry DEF Skip, IInv, TypeOK, Named
<1>2. TypeOK'
  BY <1>1 DEF Skip, memory, IInv, TypeOK
<1>3. AllReached'
  <2>1. Root' = Root /\ Linked' = Linked /\ next' = next
    BY DEF Skip, Root, Linked, memory
  <2>2. QED
    BY <2>1, SameList DEF IInv
<1>4. Pointers' /\ Objects' /\ Reasons'
  BY <1>1 DEF Skip, memory, IInv, Pointers, NoList, Objects, Reasons
<1>5. Named'
  BY <1>1 DEF Skip, memory, IInv, Named
<1>6. Kept'
  <2>1. ASSUME faults \cap {"malloc", "registry"} = {} PROVE Head(todo) \notin stayed
    BY <2>1 DEF Skip, Skipped, IInv, Kept
  <2>2. QED
    BY <1>1, <2>1 DEF Skip, memory, IInv, Kept, HasList
<1>7. QED
  BY <1>2, <1>3, <1>4, <1>5, <1>6 DEF IInv

LEMMA AllocStep == IInv /\ Alloc => IInv'
<1> SUFFICES ASSUME IInv, Alloc PROVE IInv'
  OBVIOUS
<1>1. pc = "foreach" /\ todo # <<>> /\ Root = lst /\ Linked = heap
  BY DEF Alloc, Root, Linked
<1>2. CASE pc' = "destroy_prev"
  <2>1. /\ "calloc" \in faults /\ lst' = NULL /\ curr' = lst /\ err' = TRUE
        /\ heap' = heap /\ next' = next /\ dev' = dev
    BY <1>2 DEF Alloc, memory
  <2>2. TypeOK'
    BY <1>2, <2>1 DEF Alloc, IInv, TypeOK, Address
  <2>3. AllReached'
    <3>1. Root' = lst /\ Linked' = heap
      BY <1>2, <2>1 DEF Root, Linked
    <3>2. QED
      BY <1>1, <2>1, <3>1, SameList DEF IInv
  <2>4. Pointers' /\ Named' /\ Kept' /\ Objects' /\ Reasons'
    BY <1>2, <2>1 DEF Alloc, IInv, Pointers, NoList, Named, Kept, HasList, Objects,
                      Reasons
  <2>5. QED
    BY <2>2, <2>3, <2>4 DEF IInv
<1>3. CASE pc' # "destroy_prev"
  <2>1. PICK n \in Nodes \ heap :
          /\ lst' = n /\ heap' = heap \cup {n} /\ pc' = "fill"
          /\ next' = [next EXCEPT ![n] = NULL] /\ dev' = [dev EXCEPT ![n] = NoDev]
          /\ curr' = curr /\ err' = err
    BY <1>3 DEF Alloc
  <2>2. TypeOK'
    BY <2>1 DEF Alloc, IInv, TypeOK, Address
  <2>3. /\ dev'[n] = NoDev
        /\ \A m \in heap : dev'[m] = dev[m] /\ next'[m] = next[m]
    BY <2>1 DEF IInv, TypeOK
  <2>4. AllReached'
    <3>1. Root' = lst /\ Linked' = heap
      BY <2>1 DEF Alloc, Root, Linked
    <3>2. QED
      BY <1>1, <2>3, <3>1, SameList DEF IInv
  <2>5. Pointers' /\ Reasons'
    BY <2>1 DEF Pointers, NoList, Reasons
  <2>6. Named'
    <3>1. ASSUME NEW i \in heap', NEW j \in heap',
                 dev'[i] \in Devices, dev'[i] = dev'[j]
          PROVE  i = j
      BY <2>1, <2>3, <3>1, DevicesAssumption DEF IInv, Named
    <3>2. ASSUME NEW i \in heap', dev'[i] \in Devices
          PROVE  dev'[i] \notin ToSet(todo)
      BY <1>1, <2>1, <2>3, <3>2, DevicesAssumption DEF IInv, Named
    <3>3. IsInjective(todo)
      BY <1>1 DEF IInv, Named
    <3>4. QED
      BY <1>1, <2>1, <2>3, <3>1, <3>2, <3>3 DEF Alloc, Named
  <2>7. Kept'
    <3>1. HasList
      BY <1>1 DEF HasList
    <3>2. ASSUME faults \cap {"malloc", "registry"} = {}, NEW d \in stayed
          PROVE  d \in ToSet(todo) \/ \E m \in heap' : dev'[m] = d
      BY <2>1, <2>3, <3>1, <3>2 DEF IInv, Kept
    <3>3. QED
      BY <2>1, <3>2 DEF Alloc, IInv, Kept, HasList
  <2>8. Objects'
    BY <1>1, <2>1 DEF Alloc, IInv, Objects
  <2>9. QED
    BY <2>2, <2>4, <2>5, <2>6, <2>7, <2>8 DEF IInv
<1>4. QED
  BY <1>2, <1>3

LEMMA FillStep == IInv /\ Fill => IInv'
<1> SUFFICES ASSUME IInv, Fill PROVE IInv'
  OBVIOUS
<1> DEFINE d == Head(todo)
<1>1. /\ pc = "fill" /\ pc' = "foreach" /\ lst \in heap /\ lst \in Nodes
      /\ dev[lst] = NoDev
  BY DEF Fill, IInv, TypeOK, Pointers, Named
<1>2. /\ d \in Devices \cup Others
      /\ Tail(todo) \in Seq(Devices \cup Others) /\ IsInjective(Tail(todo))
      /\ d \in ToSet(todo) /\ d \notin ToSet(Tail(todo))
      /\ ToSet(todo) = {d} \cup ToSet(Tail(todo))
  BY <1>1, FirstEntry DEF IInv, TypeOK, Named
<1> HIDE DEF d
<1>3. PICK value \in Properties(d) : dev' = [dev EXCEPT ![lst] = value]
  BY DEF Fill, d
<1>4. value \in {d, NoDev} /\ (d \in plugged => value = d)
  BY PlatformsAssumption DEF Properties, IInv, TypeOK
<1>5. /\ dev'[lst] = value /\ next'[lst] = prev
      /\ \A m \in heap \ {lst} : dev'[m] = dev[m] /\ next'[m] = next[m]
  BY <1>1, <1>3 DEF Fill, IInv, TypeOK
<1>6. TypeOK'
  <2>1. owed' \subseteq owed \cup {d}
    BY DEF Fill, d
  <2>2. QED
    BY <1>1, <1>2, <1>3, <1>4, <2>1 DEF Fill, IInv, TypeOK
<1>7. AllReached'
  <2>1. /\ Reached(prev, next, heap \ {lst})
        /\ lst \notin heap \ {lst}
        /\ Root' = lst /\ Linked' = (heap \ {lst}) \cup {lst}
    BY <1>1 DEF Fill, IInv, AllReached, Root, Linked
  <2>2. Reached(lst, next', (heap \ {lst}) \cup {lst})
    BY <1>5, <2>1, OneMoreReached
  <2>3. QED
    BY <2>1, <2>2 DEF AllReached
<1>8. Pointers' /\ Objects' /\ Reasons'
  <2>1. ASSUME d \in Usb, Climb[d] = 1, NEW n \in Leaves(d) PROVE n = 0
    BY <2>1 DEF Leaves
  <2>2. \A e \in owed' : e \in owed \/ (e = d /\ os = "macos" /\ ~(d \in Usb /\ Climb[d] = 1))
    BY <2>1 DEF Fill, d
  <2>3. Objects'
    BY <1>1, <2>2 DEF Fill, IInv, Objects
  <2>4. QED
    BY <1>1, <2>3 DEF Fill, IInv, TypeOK, Pointers, NoList, Reasons
<1>9. Named'
  <2>1. heap' = heap /\ todo' = Tail(todo)
    BY DEF Fill
  <2>2. ASSUME NEW m \in heap \ {lst}, dev[m] \in Devices
        PROVE  dev[m] \notin ToSet(todo) /\ dev[m] # d
    BY <1>1, <1>2, <2>2 DEF IInv, Named
  <2>3. ASSUME value \in Devices PROVE value = d
    BY <1>4, <2>3, DevicesAssumption
  <2>4. ASSUME NEW i \in heap, NEW j \in heap,
               dev'[i] \in Devices, dev'[i] = dev'[j]
        PROVE  i = j
    <3>1. CASE i = lst /\ j = lst
      BY <3>1
    <3>2. CASE i = lst /\ j # lst
      BY <3>2, <1>5, <2>2, <2>3, <2>4
    <3>3. CASE i # lst /\ j = lst
      BY <3>3, <1>5, <2>2, <2>3, <2>4
    <3>4. CASE i # lst /\ j # lst
      BY <3>4, <1>5, <2>4 DEF IInv, Named
    <3>5. QED
      BY <3>1, <3>2, <3>3, <3>4
  <2>5. ASSUME NEW i \in heap, dev'[i] \in Devices
        PROVE  dev'[i] \notin ToSet(Tail(todo))
    <3>1. CASE i = lst
      BY <3>1, <1>2, <1>5, <2>3, <2>5
    <3>2. CASE i # lst
      BY <3>2, <1>2, <1>5, <2>2, <2>5
    <3>3. QED
      BY <3>1, <3>2
  <2>6. QED
    BY <1>1, <1>2, <2>1, <2>4, <2>5 DEF Named
<1>10. Kept'
  <2>1. heap' = heap /\ todo' = Tail(todo) /\ UNCHANGED <<faults, stayed, plugged>>
    BY DEF Fill
  <2>2. ASSUME faults \cap {"malloc", "registry"} = {}, NEW e \in stayed
        PROVE  e \in ToSet(Tail(todo)) \/ \E m \in heap : dev'[m] = e
    <3>1. e \in Devices /\ e \in plugged
          /\ (e \in ToSet(todo) \/ \E m \in heap : dev[m] = e)
      BY <1>1, <2>2 DEF IInv, TypeOK, Kept, HasList
    <3>2. CASE e = d
      BY <3>1, <3>2, <1>1, <1>4, <1>5
    <3>3. CASE e \in ToSet(todo) /\ e # d
      BY <3>3, <1>2
    <3>4. CASE \E m \in heap : dev[m] = e
      BY <3>1, <3>4, <1>1, <1>5, DevicesAssumption
    <3>5. QED
      BY <3>1, <3>2, <3>3, <3>4
  <2>3. QED
    BY <1>1, <2>1, <2>2 DEF IInv, Kept, HasList
<1>11. QED
  BY <1>6, <1>7, <1>8, <1>9, <1>10 DEF IInv

LEMMA FinishStep == IInv /\ Finish => IInv'
<1> SUFFICES ASSUME IInv, Finish PROVE IInv'
  OBVIOUS
<1>1. TypeOK'
  BY DEF Finish, memory, IInv, TypeOK
<1>2. AllReached'
  <2>1. Root' = Root /\ Linked' = Linked /\ next' = next
    BY DEF Finish, Root, Linked, memory
  <2>2. QED
    BY <2>1, SameList DEF IInv
<1>3. Pointers' /\ Objects' /\ Reasons'
  BY DEF Finish, memory, IInv, TypeOK, Pointers, NoList, Objects, Reasons
<1>4. Named' /\ Kept'
  BY DEF Finish, memory, IInv, Named, Kept, HasList
<1>5. QED
  BY <1>1, <1>2, <1>3, <1>4 DEF IInv

LEMMA ReleaseStep == IInv /\ Release => IInv'
<1> SUFFICES ASSUME IInv, Release PROVE IInv'
  OBVIOUS
<1>1. pc = "release" /\ pc' = IF lst = NULL THEN "null" ELSE "returned"
  BY DEF Release
<1>2. TypeOK'
  BY <1>1, NoEntries DEF Release, memory, IInv, TypeOK
<1>3. AllReached'
  <2>1. Root' = Root /\ Linked' = Linked /\ next' = next
    BY <1>1 DEF Release, Root, Linked, memory
  <2>2. QED
    BY <2>1, SameList DEF IInv
<1>4. Pointers' /\ Objects' /\ Reasons'
  BY <1>1 DEF Release, memory, IInv, TypeOK, Pointers, NoList, Objects, Reasons
<1>5. Named' /\ Kept'
  BY <1>1 DEF Release, memory, IInv, Named, Kept, HasList
<1>6. QED
  BY <1>2, <1>3, <1>4, <1>5 DEF IInv

LEMMA DestroyStep == IInv /\ Destroy => IInv'
<1> SUFFICES ASSUME IInv, Destroy PROVE IInv'
  OBVIOUS
<1>1. TypeOK'
  BY DEF Destroy, memory, IInv, TypeOK
<1>2. AllReached'
  <2>1. Root' = Root /\ Linked' = Linked /\ next' = next
    BY DEF Destroy, Root, Linked, memory
  <2>2. QED
    BY <2>1, SameList DEF IInv
<1>3. Pointers' /\ Objects' /\ Reasons' /\ Named' /\ Kept'
  BY DEF Destroy, memory, IInv, Pointers, NoList, Objects, Reasons, Named, Kept,
         HasList
<1>4. QED
  BY <1>1, <1>2, <1>3 DEF IInv

LEMMA FreeNodeStep == IInv /\ FreeNode => IInv'
<1> SUFFICES ASSUME IInv, FreeNode PROVE IInv'
  OBVIOUS
<1>1. /\ pc \in {"destroy", "destroy_prev"} /\ pc' = pc /\ curr # NULL
      /\ Root = curr /\ Linked = heap /\ Root' = next[curr]
      /\ Linked' = heap \ {curr} /\ next' = next
  BY DEF FreeNode, Root, Linked
<1>2. curr \in heap /\ Reached(next[curr], next, heap \ {curr})
  BY <1>1, OneLessReached DEF IInv, AllReached
<1>3. TypeOK'
  BY <1>2 DEF FreeNode, IInv, TypeOK
<1>4. AllReached'
  BY <1>1, <1>2 DEF AllReached
<1>5. Pointers' /\ Objects' /\ Reasons' /\ Named' /\ Kept'
  BY <1>1 DEF FreeNode, IInv, Pointers, NoList, Objects, Reasons, Named, Kept,
              HasList
<1>6. QED
  BY <1>3, <1>4, <1>5 DEF IInv

LEMMA DestroyReturnsStep == IInv /\ DestroyReturns => IInv'
<1> SUFFICES ASSUME IInv, DestroyReturns PROVE IInv'
  OBVIOUS
<1>1. /\ pc \in {"destroy", "destroy_prev"} /\ Root = NULL
      /\ pc' = IF pc = "destroy" THEN "idle" ELSE "release"
      /\ lst' = NULL /\ heap' = heap /\ next' = next
  BY DEF DestroyReturns, memory, Root, IInv, Pointers, NoList
<1>2. heap = {}
  BY <1>1, NoNodes DEF Linked
<1>3. TypeOK'
  BY <1>1 DEF DestroyReturns, memory, IInv, TypeOK, Address
<1>4. AllReached'
  <2>1. Root' = NULL /\ Linked' = {}
    BY <1>1, <1>2 DEF Root, Linked
  <2>2. QED
    BY <2>1, NoneReached DEF AllReached
<1>5. Pointers' /\ Objects' /\ Reasons'
  BY <1>1 DEF DestroyReturns, IInv, Pointers, NoList, Objects, Reasons
<1>6. Named' /\ Kept'
  BY <1>1, <1>2 DEF DestroyReturns, IInv, Named, Kept, HasList
<1>7. QED
  BY <1>3, <1>4, <1>5, <1>6 DEF IInv

LEMMA PlugStep == ASSUME NEW d \in Devices, IInv, Plug(d) \/ Unplug(d) PROVE IInv'
<1>1. /\ plugged' \subseteq Devices /\ stayed' \subseteq stayed
      /\ stayed' \subseteq plugged'
      /\ UNCHANGED <<os, faults, pc, todo, lst, prev, curr, memory, held, owed, err>>
  BY DEF Plug, Unplug, IInv, TypeOK, Kept
<1>2. TypeOK'
  BY <1>1 DEF memory, IInv, TypeOK
<1>3. AllReached'
  <2>1. Root' = Root /\ Linked' = Linked /\ next' = next
    BY <1>1 DEF Root, Linked, memory
  <2>2. QED
    BY <2>1, SameList DEF IInv
<1>4. Pointers' /\ Objects' /\ Reasons' /\ Named' /\ Kept'
  BY <1>1 DEF memory, IInv, Pointers, NoList, Objects, Reasons, Named, Kept,
              HasList
<1>5. QED
  BY <1>2, <1>3, <1>4 DEF IInv

LEMMA StutterStep == IInv /\ UNCHANGED vars => IInv'
<1> SUFFICES ASSUME IInv, UNCHANGED vars PROVE IInv'
  OBVIOUS
<1>1. AllReached'
  <2>1. Root' = Root /\ Linked' = Linked /\ next' = next
    BY DEF vars, memory, Root, Linked
  <2>2. QED
    BY <2>1, SameList DEF IInv
<1>2. TypeOK' /\ Pointers' /\ Objects' /\ Reasons' /\ Named' /\ Kept'
  BY DEF vars, memory, IInv, TypeOK, Pointers, Objects, Reasons, Named, Kept,
         HasList
<1>3. QED
  BY <1>1, <1>2 DEF IInv

LEMMA NextIInv == IInv /\ [Next]_vars => IInv'
  BY GetStep, EnumerateStep, SkipStep, AllocStep, FillStep, FinishStep, ReleaseStep,
     DestroyStep, FreeNodeStep, DestroyReturnsStep, PlugStep, StutterStep DEF Next

THEOREM Invariance == Spec => []IInv
  BY InitIInv, NextIInv, PTL DEF Spec

-----------------------------------------------------------------------------
(***************************************************************************)
(* What follows from it.                                                   *)
(***************************************************************************)
\* The variables keep their types, the members of every node included.
THEOREM TypeCorrect == Spec => []TypeOK
<1>1. IInv => TypeOK
  BY DEF IInv
<1>2. QED
  BY <1>1, Invariance, PTL

LEMMA InOneNode ==
  ASSUME IInv, NEW d \in Devices
  PROVE  /\ Cardinality(Listed(d)) <= 1
         /\ (\E n \in heap : dev[n] = d) => Cardinality(Listed(d)) = 1
<1>1. CASE \E n \in heap : dev[n] = d
  <2>1. PICK n \in heap : dev[n] = d
    BY <1>1
  <2>2. Listed(d) = {n}
    BY <2>1 DEF Listed, IInv, Named
  <2>3. Cardinality(Listed(d)) = 1
    <3>1. Cardinality({n}) = 1
      BY FS_Singleton
    <3>2. QED
      BY <2>2, <3>1
  <2>4. QED
    BY <2>3
<1>2. CASE ~\E n \in heap : dev[n] = d
  <2>1. Listed(d) = {}
    BY <1>2 DEF Listed
  <2>2. Cardinality(Listed(d)) = 0
    BY <2>1, FS_EmptySet
  <2>3. QED
    BY <1>2, <2>2
<1>3. QED
  BY <1>1, <1>2

\* The list ser_dev_list_get returns ends, holds every node it has allocated,
\* and names every device that was there all along, once.
THEOREM ListsAreComplete == Spec => []ListIsComplete
<1>1. IInv => ListIsComplete
  <2> SUFFICES ASSUME IInv, pc = "returned"
               PROVE  /\ \E order \in SetToSeqs(heap) : Links(lst, order)
                      /\ \A d \in Devices : Cardinality(Listed(d)) <= 1
                      /\ faults \cap {"malloc", "registry"} = {} =>
                           \A d \in stayed : Cardinality(Listed(d)) = 1
    BY DEF ListIsComplete
  <2>1. \E order \in SetToSeqs(heap) : Links(lst, order)
    BY ListReached DEF IInv, AllReached, Root, Linked
  <2>2. ASSUME faults \cap {"malloc", "registry"} = {}, NEW d \in stayed
        PROVE  d \in Devices /\ \E n \in heap : dev[n] = d
    BY <2>2, NoEntries DEF IInv, TypeOK, Kept, HasList
  <2>3. QED
    BY <2>1, <2>2, InOneNode
<1>2. QED
  BY <1>1, Invariance, PTL

\* What ser_dev_list_destroy frees is allocated; between calls no node is left
\* and no object of the system is held, but on macOS the io_dev for which calloc
\* failed and the registry entries above a device whose parent is not of USB;
\* and a NULL comes with a reason.
THEOREM NothingIsHeld == Spec => []NothingHeld
<1>1. IInv => NothingHeld
  <2> SUFFICES ASSUME IInv PROVE NothingHeld
    OBVIOUS
  <2>1. ASSUME pc \in {"destroy", "destroy_prev"} PROVE curr \in heap \cup {NULL}
    <3>1. Root = curr /\ Linked = heap
      BY <2>1 DEF Root, Linked
    <3>2. QED
      BY <3>1, OneLessReached DEF IInv, AllReached
  <2>2. ASSUME pc \in {"idle", "null"} PROVE heap = {}
    <3>1. Root = NULL /\ Linked = heap
      BY <2>2 DEF Root, Linked, IInv, Pointers, NoList
    <3>2. QED
      BY <3>1, NoNodes
  <2>3. ASSUME pc \in {"idle", "null", "returned"}
        PROVE  held \subseteq IF os = "macos" /\ "calloc" \in faults
                           THEN {"io_dev"} ELSE {}
    BY <2>3 DEF IInv, Objects
  <2>4. pc = "null" => err
    BY DEF IInv, Reasons
  <2>5. \A d \in owed : os = "macos" /\ ~(d \in Usb /\ Climb[d] = 1)
    BY DEF IInv, Objects
  <2>6. QED
    BY <2>1, <2>2, <2>3, <2>4, <2>5 DEF NothingHeld
<1>2. QED
  BY <1>1, Invariance, PTL
=============================================================================
