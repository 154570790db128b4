---------------------------- MODULE Alloc_proofs ----------------------------
(***************************************************************************)
(* alloc.c for any sizes and any heap: the blocks tile it, the free list   *)
(* is exact, and the program's blocks stay apart.                          *)
(***************************************************************************)
EXTENDS Alloc, TLAPS

(* A doubly linked list of the members of F: nothing but the members is    *)
(* reached, and all of them.                                               *)
LinkedList(F, first, nx, pv) ==
    /\ first \in F \cup {NULL}
    /\ \A m \in F : nx[m] \in F \cup {NULL} /\ pv[m] \in F \cup {NULL}
    /\ \A m, k \in F : nx[m] = k <=> pv[k] = m
    /\ \A m \in F : pv[m] = NULL <=> m = first
    /\ \A S \in SUBSET F : (first \in S \cup {NULL} /\ \A m \in S : nx[m] \in S \cup {NULL}) => S = F

LEMMA ListAdd ==
    ASSUME NEW F, NULL \notin F, NEW e, NEW nx, NEW pv, LinkedList(F, e, nx, pv),
           NEW n, n \notin F, n # NULL, NEW nx2, NEW pv2,
           nx2[n] = e, pv2[n] = NULL,
           \A m \in F : nx2[m] = nx[m] /\ pv2[m] = IF m = e THEN n ELSE pv[m]
    PROVE  LinkedList(F \cup {n}, n, nx2, pv2)
<1> DEFINE G == F \cup {n}
<1>1. /\ e \in F \cup {NULL}
      /\ \A m \in F : nx[m] \in F \cup {NULL} /\ pv[m] \in F \cup {NULL}
      /\ \A m, k \in F : nx[m] = k <=> pv[k] = m
      /\ \A m \in F : pv[m] = NULL <=> m = e
  BY DEF LinkedList
<1>2. \A m \in G : nx2[m] \in G \cup {NULL} /\ pv2[m] \in G \cup {NULL}
  BY <1>1
<1>3. \A m, k \in G : nx2[m] = k <=> pv2[k] = m
  BY <1>1
<1>4. \A m \in G : pv2[m] = NULL <=> m = n
  BY <1>1
<1>5. ASSUME NEW S \in SUBSET G, n \in S \cup {NULL}, \A m \in S : nx2[m] \in S \cup {NULL}
      PROVE  S = G
  <2> DEFINE T == S \ {n}
  <2>1. T \in SUBSET F /\ e \in T \cup {NULL}
    BY <1>1, <1>5
  <2>2. \A m \in T : nx[m] \in T \cup {NULL}
    BY <1>1, <1>5
  <2>3. T = F
    BY <2>1, <2>2 DEF LinkedList
  <2> QED
    BY <1>5, <2>3
<1> QED
  BY <1>2, <1>3, <1>4, <1>5 DEF LinkedList

\* The neighbours of n are linked.
DroppedAt(F, n, nx, pv, nx2, pv2) ==
    /\ n \in F
    /\ \A m \in F \ {n} : /\ nx2[m] = IF m = pv[n] THEN nx[n] ELSE nx[m]
                          /\ pv2[m] = IF m = nx[n] THEN pv[n] ELSE pv[m]

LEMMA ListRemove ==
    ASSUME NEW F, NULL \notin F, NEW e, NEW nx, NEW pv, LinkedList(F, e, nx, pv),
           NEW n, NEW nx2, NEW pv2, DroppedAt(F, n, nx, pv, nx2, pv2)
    PROVE  LinkedList(F \ {n}, IF n = e THEN nx[n] ELSE e, nx2, pv2)
<1> DEFINE G == F \ {n}
           f == IF n = e THEN nx[n] ELSE e
<1> USE DEF DroppedAt
<1>1. /\ e \in F \cup {NULL}
      /\ \A m \in F : nx[m] \in F \cup {NULL} /\ pv[m] \in F \cup {NULL}
      /\ \A m, k \in F : nx[m] = k <=> pv[k] = m
      /\ \A m \in F : pv[m] = NULL <=> m = e
  BY DEF LinkedList
<1>2. nx[n] # n /\ pv[n] # n
  <2>1. SUFFICES ASSUME nx[n] = n PROVE FALSE
    BY <1>1
  <2> DEFINE S == F \ {n}
  <2>2. e # n
    BY <1>1, <2>1
  <2>3. \A m \in S : nx[m] \in S \cup {NULL}
    BY <1>1, <2>1
  <2>4. S = F
    BY <1>1, <2>2, <2>3 DEF LinkedList
  <2> QED
    BY <2>4
<1>3. f \in G \cup {NULL} /\ \A m \in G : nx2[m] \in G \cup {NULL} /\ pv2[m] \in G \cup {NULL}
  BY <1>1, <1>2
<1>4. \A m, k \in G : nx2[m] = k <=> pv2[k] = m
  BY <1>1, <1>2
<1>5. \A m \in G : pv2[m] = NULL <=> m = f
  BY <1>1, <1>2
<1>6. ASSUME NEW S \in SUBSET G, f \in S \cup {NULL}, \A m \in S : nx2[m] \in S \cup {NULL}
      PROVE  S = G
  <2>1. CASE pv[n] \in S \/ n = e
    <3> DEFINE T == S \cup {n}
    <3>1. e \in T \cup {NULL}
      BY <1>6
    <3>2. nx[n] \in T \cup {NULL}
      <4>1. CASE n = e
        BY <1>6, <4>1
      <4>2. CASE pv[n] \in S
        BY <1>6, <4>2
      <4> QED
        BY <2>1, <4>1, <4>2
    <3>3. ASSUME NEW m \in S PROVE nx[m] \in T \cup {NULL}
      <4>1. CASE m = pv[n]
        BY <1>1, <1>6, <4>1
      <4>2. CASE m # pv[n]
        <5>1. nx2[m] = nx[m]
          BY <1>6, <4>2
        <5> QED
          BY <1>6, <5>1
      <4> QED
        BY <4>1, <4>2
    <3>4. T \in SUBSET F /\ \A m \in T : nx[m] \in T \cup {NULL}
      BY <3>2, <3>3
    <3> HIDE DEF T
    <3>5. T = F
      BY <3>1, <3>4 DEF LinkedList
    <3> QED
      BY <3>5 DEF T
  <2>2. CASE pv[n] \notin S /\ n # e
    <3>1. \A m \in S : nx[m] \in S \cup {NULL}
      BY <1>1, <1>6, <2>2
    <3>2. S = F
      BY <1>6, <2>2, <3>1 DEF LinkedList
    <3> QED
      BY <3>2
  <2> QED
    BY <2>1, <2>2
<1> QED
  BY <1>3, <1>4, <1>5, <1>6 DEF LinkedList

-----------------------------------------------------------------------------
\* The address after s words of block n, and that of its first word.
Behind(n, s) == n + HeaderSize + s

Payload(n) == n + HeaderSize

(* Blocks with the headers D and the sizes sz cover 0..top - 1.            *)
Tiles(D, first, last, top, sz, nx, pv) ==
    /\ \A n \in D : /\ n \in Nat /\ sz[n] \in Nat
                    /\ nx[n] \in D \cup {NULL} /\ pv[n] \in D \cup {NULL}
                    /\ nx[n] = NULL <=> n = last
                    /\ pv[n] = NULL <=> n = first
                    /\ n + 7 + sz[n] <= top
    /\ \A n, m \in D : /\ nx[n] = m <=> n + 7 + sz[n] = m
                       /\ pv[m] = n <=> n + 7 + sz[n] = m
                       /\ n < m => n + 7 + sz[n] <= m
    /\ IF D = {} THEN first = NULL /\ last = NULL /\ top = 0
       ELSE first = 0 /\ first \in D /\ last \in D /\ last + 7 + sz[last] = top

\* The block n of s + 7 + rest words is cut.
CutAt(D, n, s, rest, new, sz, nx, pv, sz2, nx2, pv2) ==
    /\ n \in D /\ s \in Nat /\ rest \in Nat /\ sz[n] = s + 7 + rest /\ new = n + 7 + s
    /\ sz2[new] = rest /\ nx2[new] = nx[n] /\ pv2[new] = n
    /\ \A m \in D : /\ sz2[m] = IF m = n THEN s ELSE sz[m]
                    /\ nx2[m] = IF m = n THEN new ELSE nx[m]
                    /\ pv2[m] = IF m = nx[n] THEN new ELSE pv[m]

LEMMA TilesSplit ==
    ASSUME NEW D, NULL \notin Int, NEW first, NEW last, NEW top, NEW sz, NEW nx, NEW pv,
           Tiles(D, first, last, top, sz, nx, pv), NEW n, NEW s, NEW rest, NEW new,
           NEW sz2, NEW nx2, NEW pv2, CutAt(D, n, s, rest, new, sz, nx, pv, sz2, nx2, pv2)
    PROVE  /\ new \notin D
           /\ Tiles(D \cup {new}, first, IF last = n THEN new ELSE last, top, sz2, nx2, pv2)
<1> DEFINE l == IF last = n THEN new ELSE last
<1> USE DEF CutAt
<1>1. /\ \A m \in D : /\ m \in Nat /\ sz[m] \in Nat
                      /\ nx[m] \in D \cup {NULL} /\ pv[m] \in D \cup {NULL}
                      /\ nx[m] = NULL <=> m = last
                      /\ pv[m] = NULL <=> m = first
                      /\ m + 7 + sz[m] <= top
      /\ \A k, m \in D : /\ nx[k] = m <=> k + 7 + sz[k] = m
                         /\ pv[m] = k <=> k + 7 + sz[k] = m
                         /\ k < m => k + 7 + sz[k] <= m
  BY DEF Tiles
<1>2. first = 0 /\ first \in D /\ last \in D /\ last + 7 + sz[last] = top
  BY DEF Tiles
<1>3. new \in Nat /\ n < new /\ new + 7 + rest = n + 7 + sz[n] /\ n \in Nat
  BY <1>1
<1>4. new \notin D
  BY <1>1, <1>3
<1>5. \A m \in D \cup {new} :
        /\ m \in Nat /\ sz2[m] \in Nat
        /\ nx2[m] \in D \cup {new} \cup {NULL} /\ pv2[m] \in D \cup {new} \cup {NULL}
        /\ nx2[m] = NULL <=> m = l
        /\ pv2[m] = NULL <=> m = first
  BY <1>1, <1>2, <1>3, <1>4
<1>6. ASSUME NEW m \in D \cup {new} PROVE m + 7 + sz2[m] <= top
  <2>1. n + 7 + sz[n] <= top /\ top \in Nat
    BY <1>1, <1>2
  <2>2. CASE m = new
    BY <1>3, <2>1, <2>2
  <2>3. CASE m = n
    BY <1>3, <1>4, <2>1, <2>3
  <2>4. CASE m \in D \ {n}
    BY <1>1, <2>4
  <2> QED
    BY <2>2, <2>3, <2>4
<1>7. ASSUME NEW k \in D \cup {new}, NEW m \in D \cup {new}
      PROVE  /\ nx2[k] = m <=> k + 7 + sz2[k] = m
             /\ pv2[m] = k <=> k + 7 + sz2[k] = m
             /\ k < m => k + 7 + sz2[k] <= m
  <2>1. CASE k = new /\ m = new
    BY <1>1, <1>3, <1>4, <2>1
  <2>2. CASE k = new /\ m \in D
    BY <1>1, <1>3, <1>4, <2>2
  <2>3. CASE k = n /\ m = new
    BY <1>1, <1>3, <1>4, <2>3
  <2>4. CASE k = n /\ m \in D
    BY <1>1, <1>3, <1>4, <2>4
  <2>5. CASE k \in D \ {n} /\ m = new
    BY <1>1, <1>3, <1>4, <2>5
  <2>6. CASE k \in D \ {n} /\ m \in D
    BY <1>1, <1>3, <1>4, <2>6
  <2> QED
    BY <2>1, <2>2, <2>3, <2>4, <2>5, <2>6
<1>8. first \in D \cup {new} /\ l \in D \cup {new} /\ l + 7 + sz2[l] = top
  BY <1>1, <1>2, <1>3, <1>4
<1> QED
  BY <1>2, <1>4, <1>5, <1>6, <1>7, <1>8 DEF Tiles

\* The blocks n and k, its successor, are joined.
JoinedAt(D, n, k, sz, nx, pv, sz2, nx2, pv2) ==
    /\ n \in D /\ k \in D /\ nx[n] = k
    /\ \A m \in D \ {k} : /\ sz2[m] = IF m = n THEN sz[n] + sz[k] + 7 ELSE sz[m]
                          /\ nx2[m] = IF m = n THEN nx[k] ELSE nx[m]
                          /\ pv2[m] = IF m = nx[k] THEN n ELSE pv[m]

LEMMA TilesMerge ==
    ASSUME NEW D, NULL \notin Int, NEW first, NEW last, NEW top, NEW sz, NEW nx, NEW pv,
           Tiles(D, first, last, top, sz, nx, pv), NEW n, NEW k, NEW sz2, NEW nx2, NEW pv2,
           JoinedAt(D, n, k, sz, nx, pv, sz2, nx2, pv2)
    PROVE  Tiles(D \ {k}, first, IF last = k THEN n ELSE last, top, sz2, nx2, pv2)
<1> DEFINE l == IF last = k THEN n ELSE last
           E == D \ {k}
<1> USE DEF JoinedAt
<1>1. /\ \A m \in D : /\ m \in Nat /\ sz[m] \in Nat
                      /\ nx[m] \in D \cup {NULL} /\ pv[m] \in D \cup {NULL}
                      /\ nx[m] = NULL <=> m = last
                      /\ pv[m] = NULL <=> m = first
                      /\ m + 7 + sz[m] <= top
      /\ \A j, m \in D : /\ nx[j] = m <=> j + 7 + sz[j] = m
                         /\ pv[m] = j <=> j + 7 + sz[j] = m
                         /\ j < m => j + 7 + sz[j] <= m
  BY DEF Tiles
<1>2. first = 0 /\ first \in D /\ last \in D /\ last + 7 + sz[last] = top
  BY DEF Tiles
<1>3. /\ n \in Nat /\ k \in Nat /\ k = n + 7 + sz[n] /\ n # k /\ sz[n] \in Nat /\ sz[k] \in Nat
      /\ n + 7 + (sz[n] + sz[k] + 7) = k + 7 + sz[k]
  BY <1>1
<1>4. \A m \in E :
        /\ m \in Nat /\ sz2[m] \in Nat
        /\ nx2[m] \in E \cup {NULL} /\ pv2[m] \in E \cup {NULL}
        /\ nx2[m] = NULL <=> m = l
        /\ pv2[m] = NULL <=> m = first
  BY <1>1, <1>2, <1>3
<1>5. ASSUME NEW m \in E PROVE m + 7 + sz2[m] <= top
  BY <1>1, <1>3
<1>6. ASSUME NEW j \in E, NEW m \in E
      PROVE  /\ nx2[j] = m <=> j + 7 + sz2[j] = m
             /\ pv2[m] = j <=> j + 7 + sz2[j] = m
             /\ j < m => j + 7 + sz2[j] <= m
  <2>1. CASE j = n
    BY <1>1, <1>3, <2>1
  <2>2. CASE j # n
    BY <1>1, <1>3, <2>2
  <2> QED
    BY <2>1, <2>2
<1>7. first \in E /\ l \in E /\ l + 7 + sz2[l] = top
  BY <1>1, <1>2, <1>3
<1> QED
  BY <1>2, <1>4, <1>5, <1>6, <1>7 DEF Tiles

\* A block of s words is added at top, behind last.
AddedAt(D, top, s, last, sz, nx, pv, sz2, nx2, pv2) ==
    /\ s \in Nat /\ top \in Nat /\ sz2[top] = s /\ nx2[top] = NULL /\ pv2[top] = last
    /\ \A m \in D : /\ sz2[m] = sz[m] /\ pv2[m] = pv[m]
                    /\ nx2[m] = IF m = last THEN top ELSE nx[m]

\* The first block then.
FirstOf(first, last, top) == IF last = NULL /\ first = NULL THEN top ELSE first

LEMMA TilesAdd ==
    ASSUME NEW D, NULL \notin Int, NEW first, NEW last, NEW top, NEW sz, NEW nx, NEW pv,
           Tiles(D, first, last, top, sz, nx, pv), NEW s, NEW sz2, NEW nx2, NEW pv2,
           AddedAt(D, top, s, last, sz, nx, pv, sz2, nx2, pv2),
           NEW f, f = FirstOf(first, last, top)
    PROVE  /\ top \notin D
           /\ Tiles(D \cup {top}, f, top, Behind(top, s), sz2, nx2, pv2)
<1> USE DEF AddedAt, FirstOf, Behind, HeaderSize
<1> DEFINE E == D \cup {top}
<1>1. /\ \A m \in D : /\ m \in Nat /\ sz[m] \in Nat
                      /\ nx[m] \in D \cup {NULL} /\ pv[m] \in D \cup {NULL}
                      /\ nx[m] = NULL <=> m = last
                      /\ pv[m] = NULL <=> m = first
                      /\ m + 7 + sz[m] <= top
      /\ \A j, m \in D : /\ nx[j] = m <=> j + 7 + sz[j] = m
                         /\ pv[m] = j <=> j + 7 + sz[j] = m
                         /\ j < m => j + 7 + sz[j] <= m
      /\ IF D = {} THEN first = NULL /\ last = NULL /\ top = 0
         ELSE first = 0 /\ first \in D /\ last \in D /\ last + 7 + sz[last] = top
  BY DEF Tiles
<1>2. top \notin D
  BY <1>1
<1>3. /\ f = 0 /\ f \in E /\ top \in E /\ top # NULL
      /\ IF D = {} THEN f = top /\ last = NULL ELSE f = first /\ last \in D /\ first \in D
  BY <1>1, <1>2
<1>4. ASSUME NEW m \in E
      PROVE  /\ m \in Nat /\ sz2[m] \in Nat
             /\ nx2[m] \in E \cup {NULL} /\ pv2[m] \in E \cup {NULL}
             /\ nx2[m] = NULL <=> m = top
             /\ pv2[m] = NULL <=> m = f
  <2>1. CASE m = top
    <3>1. sz2[m] = s /\ nx2[m] = NULL /\ pv2[m] = last /\ m \in Nat /\ s \in Nat
      BY <2>1
    <3>2. CASE D = {}
      BY <1>3, <2>1, <3>1, <3>2
    <3>3. CASE D # {}
      <4>1. last \in D /\ f \in D
        BY <1>3, <3>3
      <4>2. last \in Nat
        BY <1>1, <4>1
      <4>3. m # f
        BY <1>2, <2>1, <4>1
      <4> QED
        BY <2>1, <3>1, <4>1, <4>2, <4>3
    <3> QED
      BY <3>2, <3>3
  <2>2. CASE m \in D
    BY <1>1, <1>2, <1>3, <2>2
  <2> QED
    BY <2>1, <2>2
<1>5. ASSUME NEW m \in E PROVE m + 7 + sz2[m] <= top + 7 + s
  BY <1>1, <1>2
<1>6. ASSUME NEW j \in E, NEW m \in E
      PROVE  /\ nx2[j] = m <=> j + 7 + sz2[j] = m
             /\ pv2[m] = j <=> j + 7 + sz2[j] = m
             /\ j < m => j + 7 + sz2[j] <= m
  <2>1. CASE j \in D /\ m \in D
    BY <1>1, <1>2, <2>1
  <2>2. CASE j = top /\ m \in D
    BY <1>1, <1>2, <2>2
  <2>3. CASE j \in D /\ m = top
    <3>1. CASE j = last
      BY <1>1, <1>2, <2>3, <3>1
    <3>2. CASE j # last
      <4>1. nx[j] \in D /\ nx[j] = j + 7 + sz[j] /\ nx2[j] = nx[j]
        <5>1. nx[j] \in D
          BY <1>1, <2>3, <3>2
        <5>2. PICK q \in D : q = nx[j]
          BY <5>1
        <5>3. q = j + 7 + sz[j]
          BY <1>1, <2>3, <5>2
        <5>4. nx2[j] = nx[j]
          BY <1>2, <2>3, <3>2
        <5> QED
          BY <5>2, <5>3, <5>4
      <4>2. nx2[j] # m /\ nx[j] # m /\ sz2[j] = sz[j] /\ pv2[m] = last
        BY <1>2, <2>3, <4>1
      <4>3. j + 7 + sz[j] # m /\ j + 7 + sz[j] <= m
        BY <1>1, <2>3, <4>1, <4>2
      <4> QED
        BY <3>2, <4>2, <4>3
    <3> QED
      BY <3>1, <3>2
  <2>4. CASE j = top /\ m = top
    BY <1>1, <1>2, <2>4
  <2> QED
    BY <2>1, <2>2, <2>3, <2>4
<1> QED
  BY <1>2, <1>3, <1>4, <1>5, <1>6 DEF Tiles

\* The last block grows.
GrownAt(D, last, s, sz, sz2) ==
    /\ last \in D /\ s \in Nat /\ s > sz[last]
    /\ \A m \in D : sz2[m] = IF m = last THEN s ELSE sz[m]

LEMMA TilesGrow ==
    ASSUME NEW D, NULL \notin Int, NEW first, NEW last, NEW top, top \in Nat,
           NEW sz, NEW nx, NEW pv, Tiles(D, first, last, top, sz, nx, pv),
           NEW s, NEW sz2, GrownAt(D, last, s, sz, sz2),
           NEW top2, top2 = top + (s - sz[last])
    PROVE  Tiles(D, first, last, top2, sz2, nx, pv)
<1> USE DEF GrownAt
<1>1. /\ \A m \in D : /\ m \in Nat /\ sz[m] \in Nat
                      /\ nx[m] \in D \cup {NULL} /\ pv[m] \in D \cup {NULL}
                      /\ nx[m] = NULL <=> m = last
                      /\ pv[m] = NULL <=> m = first
                      /\ m + 7 + sz[m] <= top
      /\ \A j, m \in D : /\ nx[j] = m <=> j + 7 + sz[j] = m
                         /\ pv[m] = j <=> j + 7 + sz[j] = m
                         /\ j < m => j + 7 + sz[j] <= m
      /\ first = 0 /\ first \in D /\ last + 7 + sz[last] = top
  BY DEF Tiles
<1>2. \A m \in D : m <= last
  BY <1>1
<1>3. ASSUME NEW m \in D PROVE sz2[m] \in Nat /\ m + 7 + sz2[m] <= top + (s - sz[last])
  BY <1>1
<1>4. ASSUME NEW j \in D, NEW m \in D
      PROVE  /\ nx[j] = m <=> j + 7 + sz2[j] = m
             /\ pv[m] = j <=> j + 7 + sz2[j] = m
             /\ j < m => j + 7 + sz2[j] <= m
  BY <1>1, <1>2
<1>5. last + 7 + sz2[last] = top + (s - sz[last])
  BY <1>1
<1> QED
  BY <1>1, <1>3, <1>4, <1>5 DEF Tiles

-----------------------------------------------------------------------------
(* Heaps.                                                                  *)
Links == Nat \cup {NULL}

Header == [ptr : Nat, size : Nat, free : BOOLEAN,
           next : Links, prev : Links, nextfree : Links, prevfree : Links]

HeapOn(D) == [node : [D -> Header], head : Links, tail : Links, emhead : Links, brk : Nat]

Freed(h) == {n \in DOMAIN h.node : h.node[n].free}

Tiled(h) == Tiles(DOMAIN h.node, h.head, h.tail, h.brk,
                  [n \in DOMAIN h.node |-> h.node[n].size],
                  [n \in DOMAIN h.node |-> h.node[n].next],
                  [n \in DOMAIN h.node |-> h.node[n].prev])

FreeListed(h) == LinkedList(Freed(h), h.emhead,
                            [n \in DOMAIN h.node |-> h.node[n].nextfree],
                            [n \in DOMAIN h.node |-> h.node[n].prevfree])

Pointers(h) == \A n \in DOMAIN h.node : h.node[n].ptr = n + 7

Typed(h) == h \in HeapOn(DOMAIN h.node)

GoodHeap(h) == Typed(h) /\ Tiled(h) /\ FreeListed(h) /\ Pointers(h)

-----------------------------------------------------------------------------
WithEmhead(h, e, N) == [h EXCEPT !.emhead = e, !.node = N]

WithTail(h, t, N) == [h EXCEPT !.tail = t, !.node = N]

LEMMA SetEmhead ==
    ASSUME NEW D, NEW h \in HeapOn(D), NEW e \in Links, NEW E, NEW N \in [E -> Header]
    PROVE  LET g == WithEmhead(h, e, N)
           IN /\ g \in HeapOn(E) /\ g.node = N /\ g.emhead = e
              /\ g.head = h.head /\ g.tail = h.tail /\ g.brk = h.brk
<1> DEFINE f == [h EXCEPT !.emhead = e]
<1>1. /\ f \in HeapOn(D) /\ f.node = h.node /\ f.emhead = e
      /\ f.head = h.head /\ f.tail = h.tail /\ f.brk = h.brk
  BY DEF HeapOn
<1> HIDE DEF f
<1> DEFINE g == [f EXCEPT !.node = N]
<1>2. /\ g \in HeapOn(E) /\ g.node = N /\ g.emhead = f.emhead
      /\ g.head = f.head /\ g.tail = f.tail /\ g.brk = f.brk
  BY <1>1 DEF HeapOn
<1>3. g = WithEmhead(h, e, N)
  BY DEF f, WithEmhead
<1> HIDE DEF g
<1> QED
  BY <1>1, <1>2, <1>3

LEMMA SetTail ==
    ASSUME NEW D, NEW h \in HeapOn(D), NEW t \in Links, NEW E, NEW N \in [E -> Header]
    PROVE  LET g == WithTail(h, t, N)
           IN /\ g \in HeapOn(E) /\ g.node = N /\ g.tail = t
              /\ g.head = h.head /\ g.emhead = h.emhead /\ g.brk = h.brk
<1> DEFINE f == [h EXCEPT !.tail = t]
<1>1. /\ f \in HeapOn(D) /\ f.node = h.node /\ f.tail = t
      /\ f.head = h.head /\ f.emhead = h.emhead /\ f.brk = h.brk
  BY DEF HeapOn
<1> HIDE DEF f
<1> DEFINE g == [f EXCEPT !.node = N]
<1>2. /\ g \in HeapOn(E) /\ g.node = N /\ g.tail = f.tail
      /\ g.head = f.head /\ g.emhead = f.emhead /\ g.brk = f.brk
  BY <1>1 DEF HeapOn
<1>3. g = WithTail(h, t, N)
  BY DEF f, WithTail
<1> HIDE DEF g
<1> QED
  BY <1>1, <1>2, <1>3

LEMMA HeapFields ==
    ASSUME NEW D, NEW h \in HeapOn(D)
    PROVE  /\ DOMAIN h.node = D /\ h.node \in [D -> Header]
           /\ h.head \in Links /\ h.tail \in Links /\ h.emhead \in Links /\ h.brk \in Nat
           /\ \A n \in D : /\ h.node[n] \in Header
                           /\ h.node[n].ptr \in Nat /\ h.node[n].size \in Nat
                           /\ h.node[n].free \in BOOLEAN
                           /\ h.node[n].next \in Links /\ h.node[n].prev \in Links
                           /\ h.node[n].nextfree \in Links /\ h.node[n].prevfree \in Links
BY DEF HeapOn, Header

(* What the operations do to each field.  These lemmas say nothing of      *)
(* numbers: where a block begins is hidden in Behind and Payload.          *)
\* g is h without n on the free list.
Unlinked(D, h, n, g) ==
    LET before == h.node[n].prevfree
        after  == h.node[n].nextfree
    IN /\ g \in HeapOn(D)
       /\ g.head = h.head /\ g.tail = h.tail /\ g.brk = h.brk
       /\ g.emhead = IF n = h.emhead THEN after ELSE h.emhead
       /\ \A m \in D :
            /\ g.node[m].ptr = h.node[m].ptr /\ g.node[m].size = h.node[m].size
            /\ g.node[m].free = h.node[m].free
            /\ g.node[m].next = h.node[m].next /\ g.node[m].prev = h.node[m].prev
            /\ g.node[m].nextfree = IF m = before THEN after ELSE h.node[m].nextfree
            /\ g.node[m].prevfree = IF m = after THEN before ELSE h.node[m].prevfree

LEMMA RemoveNodeFields ==
    ASSUME NEW D, NEW h \in HeapOn(D), NEW n \in D
    PROVE  Unlinked(D, h, n, remove_node(h, n))
<1> DEFINE before == h.node[n].prevfree
           after  == h.node[n].nextfree
           e == IF n = h.emhead THEN after ELSE h.emhead
           N == [m \in DOMAIN h.node |->
                   [h.node[m] EXCEPT !.nextfree = IF m = before THEN after ELSE @,
                                     !.prevfree = IF m = after THEN before ELSE @]]
<1>1. remove_node(h, n) = WithEmhead(h, e, N)
  BY DEF remove_node, WithEmhead
<1>2. /\ DOMAIN h.node = D /\ before \in Links /\ after \in Links /\ e \in Links
      /\ \A m \in D : h.node[m] \in Header
  BY HeapFields
<1>3. \A m \in D :
        /\ N[m] \in Header
        /\ N[m].ptr = h.node[m].ptr /\ N[m].size = h.node[m].size
        /\ N[m].free = h.node[m].free
        /\ N[m].next = h.node[m].next /\ N[m].prev = h.node[m].prev
        /\ N[m].nextfree = IF m = before THEN after ELSE h.node[m].nextfree
        /\ N[m].prevfree = IF m = after THEN before ELSE h.node[m].prevfree
  <2>1. ASSUME NEW m \in D
        PROVE  /\ N[m] \in Header
               /\ N[m].ptr = h.node[m].ptr /\ N[m].size = h.node[m].size
               /\ N[m].free = h.node[m].free
               /\ N[m].next = h.node[m].next /\ N[m].prev = h.node[m].prev
               /\ N[m].nextfree = IF m = before THEN after ELSE h.node[m].nextfree
               /\ N[m].prevfree = IF m = after THEN before ELSE h.node[m].prevfree
    <3> HIDE DEF before, after
    <3>1. PICK r : r = h.node[m] /\ r \in Header
      BY <1>2
    <3>2. N[m] = [r EXCEPT !.nextfree = IF m = before THEN after ELSE @,
                           !.prevfree = IF m = after THEN before ELSE @]
      BY <1>2, <3>1
    <3> HIDE DEF N
    <3> QED
      BY <1>2, <3>1, <3>2 DEF Header
  <2> QED
    BY <2>1
<1>4. N \in [D -> Header]
  BY <1>2, <1>3
<1> HIDE DEF N, e
<1>5. PICK g : g = remove_node(h, n)
  OBVIOUS
<1>6. /\ g \in HeapOn(D) /\ g.node = N /\ g.emhead = e
      /\ g.head = h.head /\ g.tail = h.tail /\ g.brk = h.brk
  BY <1>1, <1>2, <1>4, <1>5, SetEmhead
<1> QED
  BY <1>3, <1>5, <1>6 DEF e, Unlinked

\* g is h with n in front of the free list.
LinkedFirst(D, h, n, g) ==
    /\ g \in HeapOn(D)
    /\ g.head = h.head /\ g.tail = h.tail /\ g.brk = h.brk /\ g.emhead = n
    /\ \A m \in D :
         /\ g.node[m].ptr = h.node[m].ptr /\ g.node[m].size = h.node[m].size
         /\ g.node[m].free = h.node[m].free
         /\ g.node[m].next = h.node[m].next /\ g.node[m].prev = h.node[m].prev
         /\ g.node[m].nextfree = IF m = n THEN h.emhead ELSE h.node[m].nextfree
         /\ g.node[m].prevfree = IF m = h.emhead THEN n
                                 ELSE IF m = n THEN NULL ELSE h.node[m].prevfree

LEMMA PutFirstFields ==
    ASSUME NEW D, NEW h \in HeapOn(D), NEW n \in D, n \in Links
    PROVE  LinkedFirst(D, h, n, PutFirst(h, n))
<1> DEFINE first == h.emhead
           N == [m \in DOMAIN h.node |->
                [h.node[m] EXCEPT !.nextfree = IF m = n THEN first ELSE @,
                                  !.prevfree = IF m = first THEN n
                                               ELSE IF m = n THEN NULL ELSE @]]
<1>1. PutFirst(h, n) = WithEmhead(h, n, N)
  BY DEF PutFirst, WithEmhead
<1>2. /\ DOMAIN h.node = D /\ first \in Links /\ n \in Links
      /\ \A m \in D : h.node[m] \in Header
  BY HeapFields DEF Links
<1>3. \A m \in D :
        /\ N[m] \in Header
        /\ N[m].ptr = h.node[m].ptr /\ N[m].size = h.node[m].size
        /\ N[m].free = h.node[m].free
        /\ N[m].next = h.node[m].next /\ N[m].prev = h.node[m].prev
        /\ N[m].nextfree = IF m = n THEN first ELSE h.node[m].nextfree
        /\ N[m].prevfree = IF m = first THEN n ELSE IF m = n THEN NULL ELSE h.node[m].prevfree
  <2> HIDE DEF first
  <2>1. NULL \in Links
    BY DEF Links
  <2> QED
    BY <1>2, <2>1 DEF Header
<1>4. N \in [D -> Header]
  BY <1>2, <1>3
<1> HIDE DEF N
<1>5. PICK e, g : e \in Links /\ e = n /\ g = WithEmhead(h, e, N)
  BY <1>2
<1>6. /\ g \in HeapOn(D) /\ g.node = N /\ g.emhead = e
      /\ g.head = h.head /\ g.tail = h.tail /\ g.brk = h.brk
  BY <1>4, <1>5, SetEmhead
<1> QED
  BY <1>1, <1>3, <1>5, <1>6 DEF LinkedFirst

\* N has the header of a new free block in addition, behind n.
DividedAt(h, n, s, rest, new) ==
    [m \in DOMAIN h.node \cup {new} |->
       IF m = new
       THEN [ptr |-> Payload(new), size |-> rest, free |-> TRUE,
             next |-> h.node[n].next, prev |-> n, nextfree |-> NULL, prevfree |-> NULL]
       ELSE [h.node[m] EXCEPT !.size = IF m = n THEN s ELSE @,
                              !.next = IF m = n THEN new ELSE @,
                              !.prev = IF m = h.node[n].next THEN new ELSE @]]

HasDivided(D, h, n, s, rest, new, N) ==
    /\ N \in [D \cup {new} -> Header]
    /\ \A m \in D \cup {new} :
         /\ N[m].ptr = IF m = new THEN Payload(new) ELSE h.node[m].ptr
         /\ N[m].size = IF m = new THEN rest ELSE IF m = n THEN s ELSE h.node[m].size
         /\ N[m].free = IF m = new THEN TRUE ELSE h.node[m].free
         /\ N[m].next = IF m = new THEN h.node[n].next
                        ELSE IF m = n THEN new ELSE h.node[m].next
         /\ N[m].prev = IF m = new THEN n
                        ELSE IF m = h.node[n].next THEN new ELSE h.node[m].prev
         /\ N[m].nextfree = IF m = new THEN NULL ELSE h.node[m].nextfree
         /\ N[m].prevfree = IF m = new THEN NULL ELSE h.node[m].prevfree

LEMMA DividedFields ==
    ASSUME NEW D, NEW h \in HeapOn(D), NEW n \in D, n \in Links, NEW s \in Nat,
           NEW new \in Links, Payload(new) \in Nat, NEW rest \in Nat
    PROVE  HasDivided(D, h, n, s, rest, new, DividedAt(h, n, s, rest, new))
<1> DEFINE E == D \cup {new}
           temp == h.node[n].next
           p == Payload(new)
           r == [ptr |-> p, size |-> rest, free |-> TRUE,
                 next |-> temp, prev |-> n, nextfree |-> NULL, prevfree |-> NULL]
           e(m) == [h.node[m] EXCEPT !.size = IF m = n THEN s ELSE @,
                                     !.next = IF m = n THEN new ELSE @,
                                     !.prev = IF m = temp THEN new ELSE @]
<1>1. PICK N : N = DividedAt(h, n, s, rest, new)
  OBVIOUS
<1>2. /\ DOMAIN h.node = D /\ temp \in Links /\ NULL \in Links /\ p \in Nat
      /\ \A m \in D : h.node[m] \in Header
  BY HeapFields DEF Links
<1> HIDE DEF p
<1>3. /\ r \in Header /\ r.ptr = p /\ r.size = rest /\ r.free = TRUE
      /\ r.next = temp /\ r.prev = n /\ r.nextfree = NULL /\ r.prevfree = NULL
  BY <1>2 DEF Header
<1>4. ASSUME NEW m \in D
      PROVE  /\ e(m) \in Header
             /\ e(m).ptr = h.node[m].ptr /\ e(m).free = h.node[m].free
             /\ e(m).size = IF m = n THEN s ELSE h.node[m].size
             /\ e(m).next = IF m = n THEN new ELSE h.node[m].next
             /\ e(m).prev = IF m = temp THEN new ELSE h.node[m].prev
             /\ e(m).nextfree = h.node[m].nextfree /\ e(m).prevfree = h.node[m].prevfree
  <2> HIDE DEF temp
  <2>1. PICK x \in Header : x = h.node[m]
    BY <1>2
  <2>2. PICK y, z, v : /\ y = IF m = n THEN s ELSE x.size
                       /\ z = IF m = n THEN new ELSE x.next
                       /\ v = IF m = temp THEN new ELSE x.prev
    OBVIOUS
  <2>3. e(m) = [x EXCEPT !.size = y, !.next = z, !.prev = v]
    BY <2>1, <2>2, Zenon
  <2>4. y \in Nat /\ z \in Links /\ v \in Links
    BY <2>2 DEF Header
  <2>5. LET f == [x EXCEPT !.size = y, !.next = z, !.prev = v]
        IN  /\ f \in Header /\ f.size = y /\ f.next = z /\ f.prev = v
            /\ f.ptr = x.ptr /\ f.free = x.free
            /\ f.nextfree = x.nextfree /\ f.prevfree = x.prevfree
    BY ONLY <2>4, x \in Header DEF Header
  <2> HIDE DEF e
  <2> QED
    BY <2>1, <2>2, <2>3, <2>5, Zenon
<1>5. N = [m \in E |-> IF m = new THEN r ELSE e(m)]
  BY <1>1, <1>2 DEF DividedAt, p
<1> HIDE DEF r, e
<1>6. N[new] = r /\ \A m \in D : m # new => N[m] = e(m)
  BY <1>5
<1>7. N \in [E -> Header]
  BY <1>3, <1>4, <1>5
<1>8. ASSUME NEW m \in E
      PROVE  /\ N[m].ptr = IF m = new THEN Payload(new) ELSE h.node[m].ptr
             /\ N[m].size = IF m = new THEN rest ELSE IF m = n THEN s ELSE h.node[m].size
             /\ N[m].free = IF m = new THEN TRUE ELSE h.node[m].free
             /\ N[m].next = IF m = new THEN h.node[n].next
                            ELSE IF m = n THEN new ELSE h.node[m].next
             /\ N[m].prev = IF m = new THEN n
                            ELSE IF m = h.node[n].next THEN new ELSE h.node[m].prev
             /\ N[m].nextfree = IF m = new THEN NULL ELSE h.node[m].nextfree
             /\ N[m].prevfree = IF m = new THEN NULL ELSE h.node[m].prevfree
  <2>1. CASE m = new
    BY <1>3, <1>6, <2>1 DEF p
  <2>2. CASE m # new
    BY <1>4, <1>6, <1>8, <2>2
  <2> QED
    BY <2>1, <2>2
<1> QED
  BY <1>1, <1>7, <1>8 DEF HasDivided

\* g is h with the part of n behind its first s words split off.
SplitInto(D, h, n, s, rest, new, g) ==
    /\ g \in HeapOn(D \cup {new})
    /\ g.head = h.head /\ g.brk = h.brk /\ g.emhead = new
    /\ g.tail = IF h.tail = n THEN new ELSE h.tail
    /\ \A m \in D \cup {new} :
         /\ g.node[m].ptr = IF m = new THEN Payload(new) ELSE h.node[m].ptr
         /\ g.node[m].size = IF m = new THEN rest ELSE IF m = n THEN s ELSE h.node[m].size
         /\ g.node[m].free = IF m = new THEN TRUE ELSE h.node[m].free
         /\ g.node[m].next = IF m = new THEN h.node[n].next
                             ELSE IF m = n THEN new ELSE h.node[m].next
         /\ g.node[m].prev = IF m = new THEN n
                             ELSE IF m = h.node[n].next THEN new ELSE h.node[m].prev
         /\ g.node[m].nextfree = IF m = new THEN h.emhead ELSE h.node[m].nextfree
         /\ g.node[m].prevfree = IF m = h.emhead THEN new
                                 ELSE IF m = new THEN NULL ELSE h.node[m].prevfree

LEMMA SplitFields ==
    ASSUME NEW D, NEW h \in HeapOn(D), NEW n \in D, n \in Links, NEW s \in Nat,
           NEW rest \in Nat, Rest(h, n, s) = rest,
           NEW new \in Links, new = Behind(n, s), Payload(new) \in Nat
    PROVE  SplitInto(D, h, n, s, rest, new, block_split(h, n, s))
<1> DEFINE t == IF h.tail = n THEN new ELSE h.tail
           E == D \cup {new}
<1>1. PICK N : N = DividedAt(h, n, s, rest, new)
  OBVIOUS
<1>2. HasDivided(D, h, n, s, rest, new, N)
  BY <1>1, DividedFields
<1>3. N \in [E -> Header] /\ t \in Links
  BY <1>2, HeapFields DEF HasDivided
<1>4. PICK f : f = WithTail(h, t, N)
  OBVIOUS
<1>5. /\ f \in HeapOn(E) /\ f.node = N /\ f.tail = t
      /\ f.head = h.head /\ f.emhead = h.emhead /\ f.brk = h.brk
  BY <1>3, <1>4, SetTail
<1>6. PICK g : g = PutFirst(f, new)
  OBVIOUS
<1>7. LinkedFirst(E, f, new, g)
  BY <1>5, <1>6, PutFirstFields
<1>8. block_split(h, n, s) = g
  <2>1. N = Divided(h, n, s, Rest(h, n, s))
    BY <1>1 DEF DividedAt, Divided, Behind, Payload
  <2> QED
    BY <1>4, <1>6, <2>1 DEF block_split, WithTail, Behind
<1>9. SplitInto(D, h, n, s, rest, new, g)
  <2>1. /\ g \in HeapOn(E) /\ g.head = h.head /\ g.brk = h.brk /\ g.emhead = new
        /\ g.tail = IF h.tail = n THEN new ELSE h.tail
    BY <1>5, <1>7 DEF LinkedFirst
  <2>2. ASSUME NEW m \in E
        PROVE  /\ g.node[m].ptr = IF m = new THEN Payload(new) ELSE h.node[m].ptr
               /\ g.node[m].size = IF m = new THEN rest ELSE IF m = n THEN s ELSE h.node[m].size
               /\ g.node[m].free = IF m = new THEN TRUE ELSE h.node[m].free
               /\ g.node[m].next = IF m = new THEN h.node[n].next
                                   ELSE IF m = n THEN new ELSE h.node[m].next
               /\ g.node[m].prev = IF m = new THEN n
                                   ELSE IF m = h.node[n].next THEN new ELSE h.node[m].prev
               /\ g.node[m].nextfree = IF m = new THEN h.emhead ELSE h.node[m].nextfree
               /\ g.node[m].prevfree = IF m = h.emhead THEN new
                                       ELSE IF m = new THEN NULL ELSE h.node[m].prevfree
    <3>1. f.node[m] = N[m] /\ f.emhead = h.emhead
      BY <1>5
    <3>2. /\ g.node[m].ptr = N[m].ptr /\ g.node[m].size = N[m].size
          /\ g.node[m].free = N[m].free
          /\ g.node[m].next = N[m].next /\ g.node[m].prev = N[m].prev
          /\ g.node[m].nextfree = IF m = new THEN h.emhead ELSE N[m].nextfree
          /\ g.node[m].prevfree = IF m = h.emhead THEN new
                                  ELSE IF m = new THEN NULL ELSE N[m].prevfree
      BY <1>7, <3>1 DEF LinkedFirst
    <3> HIDE DEF E
    <3>3. /\ N[m].ptr = IF m = new THEN Payload(new) ELSE h.node[m].ptr
          /\ N[m].size = IF m = new THEN rest ELSE IF m = n THEN s ELSE h.node[m].size
          /\ N[m].free = IF m = new THEN TRUE ELSE h.node[m].free
          /\ N[m].next = IF m = new THEN h.node[n].next
                         ELSE IF m = n THEN new ELSE h.node[m].next
          /\ N[m].prev = IF m = new THEN n
                         ELSE IF m = h.node[n].next THEN new ELSE h.node[m].prev
          /\ N[m].nextfree = IF m = new THEN NULL ELSE h.node[m].nextfree
          /\ N[m].prevfree = IF m = new THEN NULL ELSE h.node[m].prevfree
      BY <1>2 DEF HasDivided, E
    <3> QED
      BY <3>2, <3>3
  <2> QED
    BY <2>1, <2>2 DEF SplitInto
<1> QED
  BY <1>8, <1>9

\* g is h with k, the block behind n, become a part of n.
MergedWith(D, h, n, k, g) ==
    LET before == h.node[k].prevfree
        after  == h.node[k].nextfree
    IN /\ g \in HeapOn(D \ {k})
       /\ g.head = h.head /\ g.brk = h.brk
       /\ g.tail = IF h.tail = k THEN n ELSE h.tail
       /\ g.emhead = IF k = h.emhead THEN after ELSE h.emhead
       /\ \A m \in D \ {k} :
            /\ g.node[m].ptr = h.node[m].ptr
            /\ g.node[m].size = IF m = n THEN h.node[n].size + h.node[k].size + 7
                                ELSE h.node[m].size
            /\ g.node[m].free = h.node[m].free
            /\ g.node[m].next = IF m = n THEN h.node[k].next ELSE h.node[m].next
            /\ g.node[m].prev = IF m = h.node[k].next THEN n ELSE h.node[m].prev
            /\ g.node[m].nextfree = IF m = before THEN after ELSE h.node[m].nextfree
            /\ g.node[m].prevfree = IF m = after THEN before ELSE h.node[m].prevfree

LEMMA MergeFields ==
    ASSUME NEW D, NEW h \in HeapOn(D), NEW n \in D, n \in Links,
           NEW k \in D, k = h.node[n].next, k # NULL
    PROVE  MergedWith(D, h, n, k, block_merge(h, n))
<1>1. PICK f : f = remove_node(h, k)
  OBVIOUS
<1>2. Unlinked(D, h, k, f)
  BY <1>1, RemoveNodeFields
<1>3. /\ f \in HeapOn(D)
      /\ f.head = h.head /\ f.tail = h.tail /\ f.brk = h.brk
      /\ \A m \in D : f.node[m].size = h.node[m].size
  BY <1>2 DEF Unlinked
<1>4. PICK t \in Links : t = IF h.tail = k THEN n ELSE h.tail
  BY HeapFields
<1>5. PICK temp \in Links : temp = h.node[k].next
  BY HeapFields
<1>6. PICK new \in Nat : new = h.node[n].size + h.node[k].size + 7
  BY HeapFields
<1> DEFINE E == D \ {k}
           N == [m \in E |->
                 [f.node[m] EXCEPT !.size = IF m = n THEN new ELSE @,
                                   !.next = IF m = n THEN temp ELSE @,
                                   !.prev = IF m = temp THEN n ELSE @]]
<1>7. block_merge(h, n) = WithTail(f, t, N)
  <2>1. DOMAIN h.node = D
    BY HeapFields
  <2>2. N = [m \in DOMAIN h.node \ {k} |->
              [f.node[m] EXCEPT
                !.size = IF m = n THEN @ + h.node[k].size + HeaderSize ELSE @,
                !.next = IF m = n THEN h.node[k].next ELSE @,
                !.prev = IF m = h.node[k].next THEN n ELSE @]]
    BY <1>3, <1>5, <1>6, <2>1, ZenonT(60) DEF HeaderSize
  <2> HIDE DEF N
  <2> QED
    BY <1>1, <1>3, <1>4, <2>2, ZenonT(60) DEF block_merge, WithTail
<1>8. \A m \in E :
        /\ N[m] \in Header
        /\ N[m].ptr = f.node[m].ptr
        /\ N[m].size = IF m = n THEN new ELSE f.node[m].size
        /\ N[m].free = f.node[m].free
        /\ N[m].next = IF m = n THEN temp ELSE f.node[m].next
        /\ N[m].prev = IF m = temp THEN n ELSE f.node[m].prev
        /\ N[m].nextfree = f.node[m].nextfree
        /\ N[m].prevfree = f.node[m].prevfree
  <2>1. \A m \in D : f.node[m] \in Header
    BY <1>3, HeapFields
  <2>2. ASSUME NEW m \in E
        PROVE  /\ N[m] \in Header
               /\ N[m].ptr = f.node[m].ptr
               /\ N[m].size = IF m = n THEN new ELSE f.node[m].size
               /\ N[m].free = f.node[m].free
               /\ N[m].next = IF m = n THEN temp ELSE f.node[m].next
               /\ N[m].prev = IF m = temp THEN n ELSE f.node[m].prev
               /\ N[m].nextfree = f.node[m].nextfree
               /\ N[m].prevfree = f.node[m].prevfree
    <3>1. PICK r \in Header : r = f.node[m]
      BY <2>1
    <3>2. PICK y, z, v : /\ y = IF m = n THEN new ELSE r.size
                         /\ z = IF m = n THEN temp ELSE r.next
                         /\ v = IF m = temp THEN n ELSE r.prev
      OBVIOUS
    <3>3. N[m] = [r EXCEPT !.size = y, !.next = z, !.prev = v]
      BY <3>1, <3>2, Zenon
    <3>4. y \in Nat /\ z \in Links /\ v \in Links
      <4>1. r.size \in Nat /\ r.next \in Links /\ r.prev \in Links
        BY ONLY TRUE DEF Header
      <4>2. new \in Nat /\ temp \in Links /\ n \in Links
        BY HeapFields
      <4> QED
        BY ONLY <3>2, <4>1, <4>2, Zenon
    <3>5. LET e == [r EXCEPT !.size = y, !.next = z, !.prev = v]
          IN  /\ e \in Header /\ e.size = y /\ e.next = z /\ e.prev = v
              /\ e.ptr = r.ptr /\ e.free = r.free
              /\ e.nextfree = r.nextfree /\ e.prevfree = r.prevfree
      BY ONLY <3>4 DEF Header
    <3> HIDE DEF N
    <3> QED
      BY <3>1, <3>2, <3>3, <3>5, Zenon
  <2> QED
    BY <2>2
<1>9. N \in [E -> Header]
  BY <1>8
<1> HIDE DEF N
<1>10. PICK g : g = block_merge(h, n)
  OBVIOUS
<1>11. /\ g \in HeapOn(E) /\ g.node = N /\ g.tail = t
       /\ g.head = f.head /\ g.emhead = f.emhead /\ g.brk = f.brk
  BY <1>3, <1>7, <1>9, <1>10, SetTail
<1>12. MergedWith(D, h, n, k, g)
  <2>1. /\ g \in HeapOn(E) /\ g.head = h.head /\ g.brk = h.brk
        /\ g.tail = IF h.tail = k THEN n ELSE h.tail
        /\ g.emhead = IF k = h.emhead THEN h.node[k].nextfree ELSE h.emhead
    BY <1>2, <1>3, <1>4, <1>11 DEF Unlinked
  <2>2. ASSUME NEW m \in E
        PROVE  /\ g.node[m].ptr = h.node[m].ptr
               /\ g.node[m].size = IF m = n THEN h.node[n].size + h.node[k].size + 7
                                   ELSE h.node[m].size
               /\ g.node[m].free = h.node[m].free
               /\ g.node[m].next = IF m = n THEN h.node[k].next ELSE h.node[m].next
               /\ g.node[m].prev = IF m = h.node[k].next THEN n ELSE h.node[m].prev
               /\ g.node[m].nextfree = IF m = h.node[k].prevfree THEN h.node[k].nextfree
                                       ELSE h.node[m].nextfree
               /\ g.node[m].prevfree = IF m = h.node[k].nextfree THEN h.node[k].prevfree
                                       ELSE h.node[m].prevfree
    <3>1. g.node[m] = N[m]
      BY <1>11
    <3> QED
      <4>1. /\ f.node[m].ptr = h.node[m].ptr /\ f.node[m].size = h.node[m].size
            /\ f.node[m].free = h.node[m].free
            /\ f.node[m].next = h.node[m].next /\ f.node[m].prev = h.node[m].prev
        BY <1>2, Zenon DEF Unlinked
      <4>2. /\ f.node[m].nextfree = IF m = h.node[k].prevfree THEN h.node[k].nextfree
                                    ELSE h.node[m].nextfree
            /\ f.node[m].prevfree = IF m = h.node[k].nextfree THEN h.node[k].prevfree
                                    ELSE h.node[m].prevfree
        BY <1>2, Zenon DEF Unlinked
      <4> QED
        BY ONLY <1>5, <1>6, <1>8, <3>1, <4>1, <4>2, m \in E
  <2> QED
    BY <2>1, <2>2 DEF MergedWith
<1> QED
  BY <1>10, <1>12
-----------------------------------------------------------------------------
(* What the operations keep.                                               *)
LEMMA InTiles ==
    ASSUME NULL \notin Int, NEW h, GoodHeap(h), NEW n \in DOMAIN h.node
    PROVE  /\ n \in Nat /\ n \in Links /\ n # NULL /\ h.node[n].ptr = n + 7
           /\ h.node[n].size \in Nat /\ n + 7 + h.node[n].size <= h.brk
<1> DEFINE D == DOMAIN h.node
           sz == [m \in D |-> h.node[m].size]
<1>1. n \in Nat /\ sz[n] \in Nat /\ n + 7 + sz[n] <= h.brk
  BY DEF GoodHeap, Tiled, Tiles
<1>2. sz[n] = h.node[n].size
  OBVIOUS
<1>3. h.node[n].ptr = n + 7
  BY DEF GoodHeap, Pointers
<1> QED
  BY <1>1, <1>2, <1>3 DEF Links

\* Block n can be split after s words.
CanSplit(h, n, s, rest) ==
    n \in DOMAIN h.node /\ s \in Nat /\ rest \in Nat /\ h.node[n].size = s + 7 + rest

LEMMA SplitKeeps ==
    ASSUME NULL \notin Int, NEW h, GoodHeap(h), NEW n, NEW s, NEW rest, CanSplit(h, n, s, rest),
           NEW new, new = Behind(n, s)
    PROVE  /\ SplitInto(DOMAIN h.node, h, n, s, rest, new, block_split(h, n, s))
           /\ new \notin DOMAIN h.node /\ new \in Nat
           /\ GoodHeap(block_split(h, n, s))
<1>0. PICK D, E : D = DOMAIN h.node /\ E = D \cup {new}
  OBVIOUS
<1>1. PICK g : g = block_split(h, n, s)
  OBVIOUS
<1>2. /\ n \in Nat /\ n \in Links /\ n # NULL /\ new \in Nat /\ new \in Links
      /\ Payload(new) = new + 7 /\ Payload(new) \in Nat
      /\ Rest(h, n, s) = rest /\ new = n + 7 + s
  BY InTiles DEF Links, Behind, Payload, Rest, HeaderSize, CanSplit
<1>3. h \in HeapOn(D)
  BY <1>0 DEF GoodHeap, Typed
<1>4. SplitInto(D, h, n, s, rest, new, g)
  <2>1. /\ n \in Links /\ new \in Links /\ Payload(new) \in Nat /\ Rest(h, n, s) = rest
        /\ n \in D /\ s \in Nat /\ rest \in Nat
    BY <1>0, <1>2 DEF CanSplit
  <2> QED
    BY <1>1, <1>3, <2>1, SplitFields
<1>5. g \in HeapOn(E) /\ DOMAIN g.node = E
  <2>1. g \in HeapOn(E)
    BY <1>0, <1>4 DEF SplitInto
  <2> QED
    BY <2>1, HeapFields
<1>6. new \notin D /\ Tiled(g)
  <2>0. PICK sz, nx, pv, sz2, nx2, pv2, last :
          /\ sz = [m \in D |-> h.node[m].size] /\ sz2 = [m \in E |-> g.node[m].size]
          /\ nx = [m \in D |-> h.node[m].next] /\ nx2 = [m \in E |-> g.node[m].next]
          /\ pv = [m \in D |-> h.node[m].prev] /\ pv2 = [m \in E |-> g.node[m].prev]
          /\ last = IF h.tail = n THEN new ELSE h.tail
    OBVIOUS
  <2>1. Tiles(D, h.head, h.tail, h.brk, sz, nx, pv)
    BY <1>0, <2>0 DEF GoodHeap, Tiled
  <2>2. n \in D /\ s \in Nat /\ rest \in Nat /\ sz[n] = s + 7 + rest /\ new = n + 7 + s
    BY <1>0, <1>2, <2>0 DEF CanSplit
  <2>3. new \notin D
    <3>1. \A k, m \in D : k < m => k + 7 + sz[k] <= m
      BY <2>1 DEF Tiles
    <3>2. \A m \in D : m \in Nat
      BY <2>1 DEF Tiles
    <3> QED
      BY <1>2, <2>2, <3>1, <3>2
  <2>4. /\ sz2[new] = rest /\ nx2[new] = nx[n] /\ pv2[new] = n
        /\ \A m \in D : /\ sz2[m] = IF m = n THEN s ELSE sz[m]
                        /\ nx2[m] = IF m = n THEN new ELSE nx[m]
                        /\ pv2[m] = IF m = nx[n] THEN new ELSE pv[m]
    <3>1. /\ g.node[new].size = rest /\ g.node[new].next = h.node[n].next
          /\ g.node[new].prev = n
      BY <1>4 DEF SplitInto
    <3>2. ASSUME NEW m \in D
          PROVE  /\ g.node[m].size = IF m = n THEN s ELSE h.node[m].size
                 /\ g.node[m].next = IF m = n THEN new ELSE h.node[m].next
                 /\ g.node[m].prev = IF m = h.node[n].next THEN new ELSE h.node[m].prev
      <4>1. m # new
        BY <2>3
      <4> QED
        BY <1>4, <4>1 DEF SplitInto
    <3> QED
      BY <1>0, <2>0, <2>2, <3>1, <3>2
  <2>5. CutAt(D, n, s, rest, new, sz, nx, pv, sz2, nx2, pv2)
    BY <2>2, <2>4 DEF CutAt
  <2>6. Tiles(E, h.head, last, h.brk, sz2, nx2, pv2)
    BY <1>0, <2>0, <2>1, <2>5, TilesSplit
  <2>7. g.head = h.head /\ g.tail = last /\ g.brk = h.brk
    BY <1>4, <2>0 DEF SplitInto
  <2> QED
    BY <1>5, <2>0, <2>3, <2>6, <2>7 DEF Tiled
<1>7. FreeListed(g)
  <2> DEFINE nx == [m \in D |-> h.node[m].nextfree]
             pv == [m \in D |-> h.node[m].prevfree]
             nx2 == [m \in E |-> g.node[m].nextfree]
             pv2 == [m \in E |-> g.node[m].prevfree]
             F == Freed(h)
  <2>1. LinkedList(F, h.emhead, nx, pv) /\ NULL \notin F /\ new \notin F /\ new # NULL
    <3>1. LinkedList(F, h.emhead, nx, pv)
      BY <1>0 DEF GoodHeap, FreeListed
    <3>2. \A m \in D : m # NULL
      BY <1>0, InTiles
    <3> QED
      BY <1>0, <1>2, <1>6, <3>1, <3>2 DEF Freed
  <2>2. Freed(g) = F \cup {new}
    <3>1. \A m \in E : g.node[m].free = IF m = new THEN TRUE ELSE h.node[m].free
      BY <1>0, <1>4 DEF SplitInto
    <3> QED
      BY <1>0, <1>5, <1>6, <3>1 DEF Freed
  <2>3. /\ nx2[new] = h.emhead /\ pv2[new] = NULL
        /\ \A m \in F : /\ nx2[m] = nx[m]
                        /\ pv2[m] = IF m = h.emhead THEN new ELSE pv[m]
    <3>1. h.emhead # new
      BY <2>1 DEF LinkedList
    <3>2. \A m \in E : /\ g.node[m].nextfree = IF m = new THEN h.emhead ELSE h.node[m].nextfree
                       /\ g.node[m].prevfree = IF m = h.emhead THEN new
                                               ELSE IF m = new THEN NULL ELSE h.node[m].prevfree
      BY <1>0, <1>4 DEF SplitInto
    <3>3. \A m \in F : m \in D /\ m # new
      BY <1>0, <1>6 DEF Freed
    <3>4. \A m \in D : nx[m] = h.node[m].nextfree /\ pv[m] = h.node[m].prevfree
      OBVIOUS
    <3>5. \A m \in E : nx2[m] = g.node[m].nextfree /\ pv2[m] = g.node[m].prevfree
      OBVIOUS
    <3> HIDE DEF nx, pv, nx2, pv2, F
    <3> QED
      BY <1>0, <3>1, <3>2, <3>3, <3>4, <3>5
  <2> HIDE DEF nx, pv, nx2, pv2, F
  <2>4. LinkedList(F \cup {new}, new, nx2, pv2)
    BY <2>1, <2>3, ListAdd
  <2>5. g.emhead = new
    BY <1>4 DEF SplitInto
  <2> QED
    BY <1>5, <2>2, <2>4, <2>5 DEF FreeListed, nx2, pv2
<1>8. Pointers(g)
  <2>1. \A m \in D : h.node[m].ptr = m + 7
    BY <1>0 DEF GoodHeap, Pointers
  <2>2. \A m \in E : g.node[m].ptr = IF m = new THEN Payload(new) ELSE h.node[m].ptr
    BY <1>0, <1>4 DEF SplitInto
  <2>3. ASSUME NEW m \in E PROVE g.node[m].ptr = m + 7
    BY <1>0, <1>2, <2>1, <2>2
  <2> QED
    BY <1>5, <2>3 DEF Pointers
<1> QED
  BY <1>0, <1>1, <1>2, <1>4, <1>5, <1>6, <1>7, <1>8 DEF GoodHeap, Typed

LEMMA MergeKeeps ==
    ASSUME NULL \notin Int, NEW h, GoodHeap(h), NEW n \in DOMAIN h.node, NEW k,
           k = h.node[n].next, k # NULL, h.node[k].free
    PROVE  /\ MergedWith(DOMAIN h.node, h, n, k, block_merge(h, n))
           /\ k \in DOMAIN h.node /\ k # n
           /\ GoodHeap(block_merge(h, n))
<1>0. PICK D, E : D = DOMAIN h.node /\ E = D \ {k}
  OBVIOUS
<1>1. PICK g : g = block_merge(h, n)
  OBVIOUS
<1>2. h \in HeapOn(D) /\ n \in D
  BY <1>0 DEF GoodHeap, Typed
<1>3. PICK sz, nx, pv :
        /\ sz = [m \in D |-> h.node[m].size]
        /\ nx = [m \in D |-> h.node[m].next]
        /\ pv = [m \in D |-> h.node[m].prev]
  OBVIOUS
<1>4. Tiles(D, h.head, h.tail, h.brk, sz, nx, pv)
  BY <1>0, <1>3 DEF GoodHeap, Tiled
<1>5. k \in D /\ k # n
  <2>1. nx[n] = k
    BY <1>2, <1>3
  <2>2. nx[n] \in D \cup {NULL}
    BY <1>2, <1>4 DEF Tiles
  <2>3. n + 7 + sz[n] # n
    BY <1>2, <1>4 DEF Tiles
  <2>4. k \in D
    BY <2>1, <2>2
  <2>5. n + 7 + sz[n] = k
    BY <1>2, <1>4, <2>1, <2>4 DEF Tiles
  <2> QED
    BY <2>3, <2>4, <2>5
<1>6. MergedWith(D, h, n, k, g)
  <2>1. n \in Links
    BY InTiles
  <2> QED
    BY <1>1, <1>2, <1>5, <2>1, MergeFields
<1>7. g \in HeapOn(E) /\ DOMAIN g.node = E
  <2>1. g \in HeapOn(E)
    BY <1>0, <1>6 DEF MergedWith
  <2> QED
    BY <2>1, HeapFields
<1>8. Tiled(g)
  <2>0. PICK sz2, nx2, pv2, last :
          /\ sz2 = [m \in E |-> g.node[m].size]
          /\ nx2 = [m \in E |-> g.node[m].next]
          /\ pv2 = [m \in E |-> g.node[m].prev]
          /\ last = IF h.tail = k THEN n ELSE h.tail
    OBVIOUS
  <2>1. \A m \in E : /\ sz2[m] = IF m = n THEN sz[n] + sz[k] + 7 ELSE sz[m]
                     /\ nx2[m] = IF m = n THEN nx[k] ELSE nx[m]
                     /\ pv2[m] = IF m = nx[k] THEN n ELSE pv[m]
    <3>1. \A m \in E :
            /\ g.node[m].size = IF m = n THEN h.node[n].size + h.node[k].size + 7
                                ELSE h.node[m].size
            /\ g.node[m].next = IF m = n THEN h.node[k].next ELSE h.node[m].next
            /\ g.node[m].prev = IF m = h.node[k].next THEN n ELSE h.node[m].prev
      BY <1>0, <1>6 DEF MergedWith
    <3>2. \A m \in D : /\ sz[m] = h.node[m].size /\ nx[m] = h.node[m].next
                       /\ pv[m] = h.node[m].prev
      BY <1>3
    <3>3. \A m \in E : /\ sz2[m] = g.node[m].size /\ nx2[m] = g.node[m].next
                       /\ pv2[m] = g.node[m].prev
      BY <2>0
    <3>4. E \subseteq D /\ k \in D /\ n \in D
      BY <1>0, <1>2, <1>5
    <3> QED
      BY <3>1, <3>2, <3>3, <3>4
  <2>2. JoinedAt(D, n, k, sz, nx, pv, sz2, nx2, pv2)
    BY <1>0, <1>2, <1>3, <1>5, <2>1 DEF JoinedAt
  <2>3. Tiles(E, h.head, last, h.brk, sz2, nx2, pv2)
    BY <1>0, <1>4, <2>0, <2>2, TilesMerge
  <2>4. g.head = h.head /\ g.tail = last /\ g.brk = h.brk
    BY <1>6, <2>0 DEF MergedWith
  <2> QED
    BY <1>7, <2>0, <2>3, <2>4 DEF Tiled
<1>9. FreeListed(g)
  <2>0. PICK F, fx, fv, fx2, fv2 :
          /\ F = Freed(h)
          /\ fx = [m \in D |-> h.node[m].nextfree] /\ fx2 = [m \in E |-> g.node[m].nextfree]
          /\ fv = [m \in D |-> h.node[m].prevfree] /\ fv2 = [m \in E |-> g.node[m].prevfree]
    OBVIOUS
  <2>1. LinkedList(F, h.emhead, fx, fv)
    BY <1>0, <2>0 DEF GoodHeap, FreeListed
  <2>2. NULL \notin F
    <3>1. \A m \in D : m # NULL
      BY <1>0, InTiles
    <3> QED
      BY <1>0, <2>0, <3>1 DEF Freed
  <2>3. k \in F /\ F \subseteq D
    BY <1>0, <1>5, <2>0 DEF Freed
  <2>4. Freed(g) = F \ {k}
    BY <1>0, <1>6, <1>7, <2>0 DEF MergedWith, Freed
  <2>5. \A m \in F \ {k} : /\ fx2[m] = IF m = fv[k] THEN fx[k] ELSE fx[m]
                           /\ fv2[m] = IF m = fx[k] THEN fv[k] ELSE fv[m]
    <3>1. \A m \in E :
            /\ g.node[m].nextfree = IF m = h.node[k].prevfree THEN h.node[k].nextfree
                                    ELSE h.node[m].nextfree
            /\ g.node[m].prevfree = IF m = h.node[k].nextfree THEN h.node[k].prevfree
                                    ELSE h.node[m].prevfree
      BY <1>0, <1>6, Zenon DEF MergedWith
    <3>2. \A m \in D : fx[m] = h.node[m].nextfree /\ fv[m] = h.node[m].prevfree
      BY <2>0
    <3>3. \A m \in E : fx2[m] = g.node[m].nextfree /\ fv2[m] = g.node[m].prevfree
      BY <2>0
    <3>4. F \ {k} \subseteq E /\ F \subseteq D /\ k \in D
      BY <1>0, <2>3
    <3> QED
      BY <3>1, <3>2, <3>3, <3>4
  <2>6. DroppedAt(F, k, fx, fv, fx2, fv2)
    BY <2>3, <2>5 DEF DroppedAt
  <2>7. LinkedList(F \ {k}, IF k = h.emhead THEN fx[k] ELSE h.emhead, fx2, fv2)
    BY <2>1, <2>2, <2>6, ListRemove
  <2>8. g.emhead = IF k = h.emhead THEN fx[k] ELSE h.emhead
    BY <1>5, <1>6, <2>0 DEF MergedWith
  <2> QED
    BY <1>7, <2>0, <2>4, <2>7, <2>8 DEF FreeListed
<1>10. Pointers(g)
  <2>1. \A m \in D : h.node[m].ptr = m + 7
    BY <1>0 DEF GoodHeap, Pointers
  <2>2. \A m \in E : g.node[m].ptr = h.node[m].ptr
    BY <1>0, <1>6 DEF MergedWith
  <2>3. ASSUME NEW m \in E PROVE g.node[m].ptr = m + 7
    BY <1>0, <2>1, <2>2
  <2> QED
    BY <1>7, <2>3 DEF Pointers
<1> QED
  BY <1>0, <1>1, <1>5, <1>6, <1>7, <1>8, <1>9, <1>10 DEF GoodHeap, Typed

-----------------------------------------------------------------------------
(* Block n is put on the free list, as the first of it.                    *)
PutOnList(h, n) == PutFirst([h EXCEPT !.node[n].free = TRUE], n)

FreedFirst(D, h, n, g) ==
    /\ g \in HeapOn(D)
    /\ g.head = h.head /\ g.tail = h.tail /\ g.brk = h.brk /\ g.emhead = n
    /\ \A m \in D :
         /\ g.node[m].ptr = h.node[m].ptr /\ g.node[m].size = h.node[m].size
         /\ g.node[m].free = IF m = n THEN TRUE ELSE h.node[m].free
         /\ g.node[m].next = h.node[m].next /\ g.node[m].prev = h.node[m].prev
         /\ g.node[m].nextfree = IF m = n THEN h.emhead ELSE h.node[m].nextfree
         /\ g.node[m].prevfree = IF m = h.emhead THEN n
                                 ELSE IF m = n THEN NULL ELSE h.node[m].prevfree

WithNode(h, N) == [h EXCEPT !.node = N]

LEMMA SetNode ==
    ASSUME NEW D, NEW h \in HeapOn(D), NEW E, NEW N \in [E -> Header]
    PROVE  LET g == WithNode(h, N)
           IN /\ g \in HeapOn(E) /\ g.node = N
              /\ g.head = h.head /\ g.tail = h.tail /\ g.emhead = h.emhead /\ g.brk = h.brk
BY DEF HeapOn, WithNode

LEMMA FreedFirstFields ==
    ASSUME NEW D, NEW h \in HeapOn(D), NEW n \in D, n \in Links
    PROVE  FreedFirst(D, h, n, PutOnList(h, n))
<1>1. DOMAIN h.node = D /\ h.node \in [D -> Header] /\ h.node[n] \in Header
  BY HeapFields
<1>2. PICK r : r = [h.node[n] EXCEPT !.free = TRUE]
  OBVIOUS
<1>3. /\ r \in Header /\ r.ptr = h.node[n].ptr /\ r.size = h.node[n].size /\ r.free = TRUE
      /\ r.next = h.node[n].next /\ r.prev = h.node[n].prev
      /\ r.nextfree = h.node[n].nextfree /\ r.prevfree = h.node[n].prevfree
  BY <1>1, <1>2 DEF Header
<1>4. PICK N : N = [h.node EXCEPT ![n] = r]
  OBVIOUS
<1>5. N \in [D -> Header] /\ \A m \in D : N[m] = IF m = n THEN r ELSE h.node[m]
  BY <1>1, <1>3, <1>4
<1>6. PICK f : f = WithNode(h, N)
  OBVIOUS
<1>7. /\ f \in HeapOn(D) /\ f.node = N
      /\ f.head = h.head /\ f.tail = h.tail /\ f.emhead = h.emhead /\ f.brk = h.brk
  BY <1>5, <1>6, SetNode
<1>8. PICK g : g = PutFirst(f, n)
  OBVIOUS
<1>9. LinkedFirst(D, f, n, g)
  BY <1>7, <1>8, PutFirstFields
<1>10. PutOnList(h, n) = g
  BY <1>2, <1>4, <1>6, <1>8 DEF PutOnList, WithNode
<1>11. ASSUME NEW m \in D
       PROVE  /\ g.node[m].ptr = h.node[m].ptr /\ g.node[m].size = h.node[m].size
              /\ g.node[m].free = IF m = n THEN TRUE ELSE h.node[m].free
              /\ g.node[m].next = h.node[m].next /\ g.node[m].prev = h.node[m].prev
              /\ g.node[m].nextfree = IF m = n THEN h.emhead ELSE h.node[m].nextfree
              /\ g.node[m].prevfree = IF m = h.emhead THEN n
                                      ELSE IF m = n THEN NULL ELSE h.node[m].prevfree
  <2>1. f.node[m] = IF m = n THEN r ELSE h.node[m]
    BY <1>5, <1>7
  <2>2. /\ g.node[m].ptr = f.node[m].ptr /\ g.node[m].size = f.node[m].size
        /\ g.node[m].free = f.node[m].free
        /\ g.node[m].next = f.node[m].next /\ g.node[m].prev = f.node[m].prev
        /\ g.node[m].nextfree = IF m = n THEN h.emhead ELSE f.node[m].nextfree
        /\ g.node[m].prevfree = IF m = h.emhead THEN n
                                ELSE IF m = n THEN NULL ELSE f.node[m].prevfree
    BY <1>7, <1>9 DEF LinkedFirst
  <2>3. CASE m = n
    <3>1. f.node[m] = r
      BY <2>1, <2>3
    <3>2. /\ g.node[m].ptr = h.node[m].ptr /\ g.node[m].size = h.node[m].size
          /\ g.node[m].free /\ g.node[m].next = h.node[m].next
          /\ g.node[m].prev = h.node[m].prev
      BY <1>3, <2>3, <2>2, <3>1
    <3> QED
      BY <2>3, <2>2, <3>2
  <2>4. CASE m # n
    BY <2>1, <2>4, <2>2
  <2> QED
    BY <2>3, <2>4
<1>12. /\ g \in HeapOn(D) /\ g.head = h.head /\ g.tail = h.tail /\ g.brk = h.brk
       /\ g.emhead = n
  BY <1>7, <1>9 DEF LinkedFirst
<1> QED
  BY <1>10, <1>11, <1>12 DEF FreedFirst

LEMMA FreeFirstKeeps ==
    ASSUME NULL \notin Int, NEW h, GoodHeap(h), NEW n \in DOMAIN h.node, ~h.node[n].free
    PROVE  /\ FreedFirst(DOMAIN h.node, h, n, PutOnList(h, n))
           /\ GoodHeap(PutOnList(h, n))
<1>0. PICK D : D = DOMAIN h.node
  OBVIOUS
<1>1. PICK g : g = PutOnList(h, n)
  OBVIOUS
<1>2. h \in HeapOn(D) /\ n \in D
  BY <1>0 DEF GoodHeap, Typed
<1>3. n \in Links /\ n # NULL
  BY InTiles
<1>4. FreedFirst(D, h, n, g)
  BY <1>1, <1>2, <1>3, FreedFirstFields
<1>5. g \in HeapOn(D) /\ DOMAIN g.node = D
  <2>1. g \in HeapOn(D)
    BY <1>4 DEF FreedFirst
  <2> QED
    BY <2>1, HeapFields
<1>6. Tiled(g)
  <2>1. /\ [m \in D |-> g.node[m].size] = [m \in D |-> h.node[m].size]
        /\ [m \in D |-> g.node[m].next] = [m \in D |-> h.node[m].next]
        /\ [m \in D |-> g.node[m].prev] = [m \in D |-> h.node[m].prev]
        /\ g.head = h.head /\ g.tail = h.tail /\ g.brk = h.brk
    BY <1>4 DEF FreedFirst
  <2> QED
    BY <1>0, <1>5, <2>1 DEF GoodHeap, Tiled
<1>7. FreeListed(g)
  <2>0. PICK F, fx, fv, fx2, fv2 :
          /\ F = Freed(h)
          /\ fx = [m \in D |-> h.node[m].nextfree] /\ fx2 = [m \in D |-> g.node[m].nextfree]
          /\ fv = [m \in D |-> h.node[m].prevfree] /\ fv2 = [m \in D |-> g.node[m].prevfree]
    OBVIOUS
  <2>1. LinkedList(F, h.emhead, fx, fv)
    BY <1>0, <2>0 DEF GoodHeap, FreeListed
  <2>2. NULL \notin F
    <3>1. \A m \in D : m # NULL
      BY <1>0, InTiles
    <3> QED
      BY <1>0, <2>0, <3>1 DEF Freed
  <2>3. n \notin F /\ F \subseteq D
    BY <1>0, <2>0 DEF Freed
  <2>4. Freed(g) = F \cup {n}
    BY <1>0, <1>2, <1>4, <1>5, <2>0 DEF FreedFirst, Freed
  <2>5. /\ fx2[n] = h.emhead /\ fv2[n] = NULL
        /\ \A m \in F : /\ fx2[m] = fx[m]
                        /\ fv2[m] = IF m = h.emhead THEN n ELSE fv[m]
    <3>1. h.emhead # n
      BY <1>3, <2>1, <2>3 DEF LinkedList
    <3>2. \A m \in D : /\ g.node[m].nextfree = IF m = n THEN h.emhead ELSE h.node[m].nextfree
                       /\ g.node[m].prevfree = IF m = h.emhead THEN n
                                               ELSE IF m = n THEN NULL ELSE h.node[m].prevfree
      BY <1>4 DEF FreedFirst
    <3>3. \A m \in D : /\ fx[m] = h.node[m].nextfree /\ fx2[m] = g.node[m].nextfree
                       /\ fv[m] = h.node[m].prevfree /\ fv2[m] = g.node[m].prevfree
      BY <2>0
    <3> QED
      BY <1>2, <2>3, <3>1, <3>2, <3>3
  <2>6. LinkedList(F \cup {n}, n, fx2, fv2)
    BY <1>3, <2>1, <2>2, <2>3, <2>5, ListAdd
  <2>7. g.emhead = n
    BY <1>4 DEF FreedFirst
  <2> QED
    BY <1>5, <2>0, <2>4, <2>6, <2>7 DEF FreeListed
<1>8. Pointers(g)
  <2>1. \A m \in D : g.node[m].ptr = h.node[m].ptr
    BY <1>4 DEF FreedFirst
  <2>2. \A m \in D : h.node[m].ptr = m + 7
    BY <1>0 DEF GoodHeap, Pointers
  <2> QED
    BY <1>5, <2>1, <2>2 DEF Pointers
<1> QED
  BY <1>0, <1>1, <1>4, <1>5, <1>6, <1>7, <1>8 DEF GoodHeap, Typed
-----------------------------------------------------------------------------
(* Block n leaves the free list for the program.                           *)
GiveOut(h, n) ==
    [remove_node(h, n) EXCEPT
       !.node[n] = [@ EXCEPT !.free = FALSE, !.nextfree = NULL, !.prevfree = NULL]]

GivenOut(D, h, n, g) ==
    LET before == h.node[n].prevfree
        after  == h.node[n].nextfree
    IN /\ g \in HeapOn(D)
       /\ g.head = h.head /\ g.tail = h.tail /\ g.brk = h.brk
       /\ g.emhead = IF n = h.emhead THEN after ELSE h.emhead
       /\ \A m \in D :
            /\ g.node[m].ptr = h.node[m].ptr /\ g.node[m].size = h.node[m].size
            /\ g.node[m].free = IF m = n THEN FALSE ELSE h.node[m].free
            /\ g.node[m].next = h.node[m].next /\ g.node[m].prev = h.node[m].prev
            /\ m # n =>
                 /\ g.node[m].nextfree = IF m = before THEN after ELSE h.node[m].nextfree
                 /\ g.node[m].prevfree = IF m = after THEN before ELSE h.node[m].prevfree

LEMMA GivenOutFields ==
    ASSUME NEW D, NEW h \in HeapOn(D), NEW n \in D
    PROVE  GivenOut(D, h, n, GiveOut(h, n))
<1>1. PICK f : f = remove_node(h, n)
  OBVIOUS
<1>2. Unlinked(D, h, n, f)
  BY <1>1, RemoveNodeFields
<1>3. f \in HeapOn(D)
  BY <1>2 DEF Unlinked
<1>4. f.node \in [D -> Header] /\ f.node[n] \in Header
  BY <1>3, HeapFields
<1>5. PICK r : r = [f.node[n] EXCEPT !.free = FALSE, !.nextfree = NULL, !.prevfree = NULL]
  OBVIOUS
<1>6. /\ r \in Header /\ r.ptr = f.node[n].ptr /\ r.size = f.node[n].size /\ r.free = FALSE
      /\ r.next = f.node[n].next /\ r.prev = f.node[n].prev
  <2>1. NULL \in Links
    BY DEF Links
  <2> QED
    BY <1>4, <1>5, <2>1 DEF Header
<1>7. PICK N : N = [f.node EXCEPT ![n] = r]
  OBVIOUS
<1>8. N \in [D -> Header] /\ \A m \in D : N[m] = IF m = n THEN r ELSE f.node[m]
  BY <1>4, <1>6, <1>7
<1>9. PICK g : g = WithNode(f, N)
  OBVIOUS
<1>10. /\ g \in HeapOn(D) /\ g.node = N
       /\ g.head = f.head /\ g.tail = f.tail /\ g.emhead = f.emhead /\ g.brk = f.brk
  BY <1>3, <1>8, <1>9, SetNode
<1>11. GiveOut(h, n) = g
  BY <1>1, <1>5, <1>7, <1>9 DEF GiveOut, WithNode
<1>12. ASSUME NEW m \in D
       PROVE  /\ g.node[m].ptr = f.node[m].ptr /\ g.node[m].size = f.node[m].size
              /\ g.node[m].free = IF m = n THEN FALSE ELSE f.node[m].free
              /\ g.node[m].next = f.node[m].next /\ g.node[m].prev = f.node[m].prev
              /\ m # n => g.node[m] = f.node[m]
  <2>1. CASE m = n
    <3>1. g.node[m] = r
      BY <1>8, <1>10, <2>1
    <3> QED
      BY <1>6, <2>1, <3>1
  <2>2. CASE m # n
    <3>1. g.node[m] = f.node[m]
      BY <1>8, <1>10, <2>2
    <3> QED
      BY <2>2, <3>1
  <2> QED
    BY <2>1, <2>2
<1>13. /\ g \in HeapOn(D) /\ g.head = h.head /\ g.tail = h.tail /\ g.brk = h.brk
       /\ g.emhead = IF n = h.emhead THEN h.node[n].nextfree ELSE h.emhead
  BY <1>2, <1>10 DEF Unlinked
<1>14. ASSUME NEW m \in D
       PROVE  /\ g.node[m].ptr = h.node[m].ptr /\ g.node[m].size = h.node[m].size
              /\ g.node[m].free = IF m = n THEN FALSE ELSE h.node[m].free
              /\ g.node[m].next = h.node[m].next /\ g.node[m].prev = h.node[m].prev
              /\ m # n =>
                   /\ g.node[m].nextfree = IF m = h.node[n].prevfree THEN h.node[n].nextfree
                                           ELSE h.node[m].nextfree
                   /\ g.node[m].prevfree = IF m = h.node[n].nextfree THEN h.node[n].prevfree
                                           ELSE h.node[m].prevfree
  <2>1. /\ f.node[m].ptr = h.node[m].ptr /\ f.node[m].size = h.node[m].size
        /\ f.node[m].free = h.node[m].free
        /\ f.node[m].next = h.node[m].next /\ f.node[m].prev = h.node[m].prev
        /\ f.node[m].nextfree = IF m = h.node[n].prevfree THEN h.node[n].nextfree
                                ELSE h.node[m].nextfree
        /\ f.node[m].prevfree = IF m = h.node[n].nextfree THEN h.node[n].prevfree
                                ELSE h.node[m].prevfree
    BY <1>2 DEF Unlinked
  <2> QED
    BY <1>12, <2>1
<1> QED
  BY <1>11, <1>13, <1>14 DEF GivenOut

LEMMA GiveOutKeeps ==
    ASSUME NULL \notin Int, NEW h, GoodHeap(h), NEW n \in DOMAIN h.node, h.node[n].free
    PROVE  /\ GivenOut(DOMAIN h.node, h, n, GiveOut(h, n))
           /\ GoodHeap(GiveOut(h, n))
<1>0. PICK D : D = DOMAIN h.node
  OBVIOUS
<1>1. PICK g : g = GiveOut(h, n)
  OBVIOUS
<1>2. h \in HeapOn(D) /\ n \in D
  BY <1>0 DEF GoodHeap, Typed
<1>3. GivenOut(D, h, n, g)
  BY <1>1, <1>2, GivenOutFields
<1>4. g \in HeapOn(D) /\ DOMAIN g.node = D
  <2>1. g \in HeapOn(D)
    BY <1>3 DEF GivenOut
  <2> QED
    BY <2>1, HeapFields
<1>5. Tiled(g)
  <2>1. /\ [m \in D |-> g.node[m].size] = [m \in D |-> h.node[m].size]
        /\ [m \in D |-> g.node[m].next] = [m \in D |-> h.node[m].next]
        /\ [m \in D |-> g.node[m].prev] = [m \in D |-> h.node[m].prev]
        /\ g.head = h.head /\ g.tail = h.tail /\ g.brk = h.brk
    <3>1. \A m \in D : /\ g.node[m].size = h.node[m].size
                       /\ g.node[m].next = h.node[m].next /\ g.node[m].prev = h.node[m].prev
      BY <1>3 DEF GivenOut
    <3>2. g.head = h.head /\ g.tail = h.tail /\ g.brk = h.brk
      BY <1>3 DEF GivenOut
    <3> QED
      BY <3>1, <3>2
  <2> QED
    BY <1>0, <1>4, <2>1 DEF GoodHeap, Tiled
<1>6. FreeListed(g)
  <2>0. PICK F, fx, fv, fx2, fv2 :
          /\ F = Freed(h)
          /\ fx = [m \in D |-> h.node[m].nextfree] /\ fx2 = [m \in D |-> g.node[m].nextfree]
          /\ fv = [m \in D |-> h.node[m].prevfree] /\ fv2 = [m \in D |-> g.node[m].prevfree]
    OBVIOUS
  <2>1. LinkedList(F, h.emhead, fx, fv)
    BY <1>0, <2>0 DEF GoodHeap, FreeListed
  <2>2. NULL \notin F
    <3>1. \A m \in D : m # NULL
      BY <1>0, InTiles
    <3> QED
      BY <1>0, <2>0, <3>1 DEF Freed
  <2>3. n \in F /\ F \subseteq D
    BY <1>0, <2>0 DEF Freed
  <2>4. Freed(g) = F \ {n}
    BY <1>0, <1>2, <1>3, <1>4, <2>0 DEF GivenOut, Freed
  <2>5. \A m \in F \ {n} : /\ fx2[m] = IF m = fv[n] THEN fx[n] ELSE fx[m]
                           /\ fv2[m] = IF m = fx[n] THEN fv[n] ELSE fv[m]
    BY <1>2, <1>3, <2>0, <2>3 DEF GivenOut
  <2>6. DroppedAt(F, n, fx, fv, fx2, fv2)
    BY <2>3, <2>5 DEF DroppedAt
  <2>7. LinkedList(F \ {n}, IF n = h.emhead THEN fx[n] ELSE h.emhead, fx2, fv2)
    BY <2>1, <2>2, <2>6, ListRemove
  <2>8. g.emhead = IF n = h.emhead THEN fx[n] ELSE h.emhead
    BY <1>2, <1>3, <2>0 DEF GivenOut
  <2> QED
    BY <1>4, <2>0, <2>4, <2>7, <2>8 DEF FreeListed
<1>7. Pointers(g)
  <2>1. \A m \in D : g.node[m].ptr = h.node[m].ptr
    BY <1>3 DEF GivenOut
  <2>2. \A m \in D : h.node[m].ptr = m + 7
    BY <1>0 DEF GoodHeap, Pointers
  <2> QED
    BY <1>4, <2>1, <2>2 DEF Pointers
<1> QED
  BY <1>0, <1>1, <1>3, <1>4, <1>5, <1>6, <1>7 DEF GoodHeap, Typed
-----------------------------------------------------------------------------
(* A new block of s words behind the last one.                             *)
Appended(D, h, s, n, g) ==
    /\ g \in HeapOn(D \cup {n})
    /\ g.head = IF h.tail = NULL /\ h.head = NULL THEN n ELSE h.head
    /\ g.tail = n /\ g.brk = Behind(n, s) /\ g.emhead = h.emhead
    /\ \A m \in D \cup {n} :
         /\ g.node[m].ptr = IF m = n THEN Payload(n) ELSE h.node[m].ptr
         /\ g.node[m].size = IF m = n THEN s ELSE h.node[m].size
         /\ g.node[m].free = IF m = n THEN FALSE ELSE h.node[m].free
         /\ g.node[m].next = IF m = n THEN NULL
                             ELSE IF m = h.tail THEN n ELSE h.node[m].next
         /\ g.node[m].prev = IF m = n THEN h.tail ELSE h.node[m].prev
         /\ m # n => /\ g.node[m].nextfree = h.node[m].nextfree
                     /\ g.node[m].prevfree = h.node[m].prevfree

WithEnd(h, hd, t, b, N) == [h EXCEPT !.head = hd, !.tail = t, !.brk = b, !.node = N]

\* That the new break is a number, out of the provers' sight where only the fields matter.
Address(b) == b \in Nat

LEMMA SetEnd ==
    ASSUME NEW D, NEW h \in HeapOn(D), NEW hd \in Links, NEW t \in Links, NEW b, Address(b),
           NEW E, NEW N \in [E -> Header]
    PROVE  LET g == WithEnd(h, hd, t, b, N)
           IN /\ g \in HeapOn(E) /\ g.node = N /\ g.emhead = h.emhead
              /\ g.head = hd /\ g.tail = t /\ g.brk = b
<1> DEFINE f1 == [h EXCEPT !.head = hd]
<1>1. /\ f1 \in HeapOn(D) /\ f1.emhead = h.emhead /\ f1.head = hd
  BY DEF HeapOn
<1> HIDE DEF f1
<1> DEFINE f2 == [f1 EXCEPT !.tail = t]
<1>2. /\ f2 \in HeapOn(D) /\ f2.emhead = h.emhead /\ f2.head = hd /\ f2.tail = t
  BY <1>1 DEF HeapOn
<1> HIDE DEF f2
<1> DEFINE f3 == [f2 EXCEPT !.brk = b]
<1>3. f3 \in HeapOn(D) /\ f3.emhead = h.emhead /\ f3.head = hd /\ f3.tail = t /\ f3.brk = b
  BY <1>2 DEF HeapOn, Address
<1> HIDE DEF f3
<1> DEFINE g == [f3 EXCEPT !.node = N]
<1>4. /\ g \in HeapOn(E) /\ g.node = N /\ g.emhead = h.emhead
      /\ g.head = hd /\ g.tail = t /\ g.brk = b
  BY <1>3 DEF HeapOn
<1>5. g = WithEnd(h, hd, t, b, N)
  BY DEF f1, f2, f3, WithEnd
<1> HIDE DEF g
<1> QED
  BY <1>4, <1>5

LEMMA AppendedFields ==
    ASSUME NEW D, NEW h \in HeapOn(D), NEW n \in Links, n = h.brk, n \notin D, NEW s \in Nat,
           Payload(n) \in Nat, Behind(n, s) \in Nat
    PROVE  Appended(D, h, s, n, add_node_to_tail(h, s))
<1>1. PICK hd \in Links : hd = IF h.tail = NULL /\ h.head = NULL THEN n ELSE h.head
  BY HeapFields
<1>2. PICK b, p : b = Behind(n, s) /\ b \in Nat /\ p = Payload(n) /\ p \in Nat
  OBVIOUS
<1>3. PICK last \in Links : last = h.tail
  BY HeapFields
<1>4. PICK r : r = [ptr |-> p, size |-> s, free |-> FALSE, next |-> NULL, prev |-> last,
                    nextfree |-> NULL, prevfree |-> NULL]
  OBVIOUS
<1>5. /\ r \in Header /\ r.ptr = p /\ r.size = s /\ r.free = FALSE
      /\ r.next = NULL /\ r.prev = last
  <2>1. NULL \in Links
    BY DEF Links
  <2> QED
    BY <1>2, <1>4, <2>1 DEF Header
<1> DEFINE e(m) == [h.node[m] EXCEPT !.next = IF m = last THEN n ELSE @]
<1>6. DOMAIN h.node = D /\ \A m \in D : h.node[m] \in Header
  BY HeapFields
<1>7. ASSUME NEW m \in D
      PROVE  /\ e(m) \in Header
             /\ e(m).ptr = h.node[m].ptr /\ e(m).size = h.node[m].size
             /\ e(m).free = h.node[m].free
             /\ e(m).next = IF m = last THEN n ELSE h.node[m].next
             /\ e(m).prev = h.node[m].prev
             /\ e(m).nextfree = h.node[m].nextfree /\ e(m).prevfree = h.node[m].prevfree
  BY <1>6 DEF Header
<1>8. PICK N : N = [m \in D \cup {n} |-> IF m = n THEN r ELSE e(m)]
  OBVIOUS
<1>9. PICK g : g = WithEnd(h, hd, n, b, N)
  OBVIOUS
<1>10. add_node_to_tail(h, s) = g
  <2>1. N = [m \in DOMAIN h.node \cup {h.brk} |->
              IF m = h.brk
              THEN [ptr |-> h.brk + HeaderSize, size |-> s, free |-> FALSE,
                    next |-> NULL, prev |-> h.tail, nextfree |-> NULL, prevfree |-> NULL]
              ELSE [h.node[m] EXCEPT !.next = IF m = h.tail THEN h.brk ELSE @]]
    BY <1>2, <1>3, <1>4, <1>6, <1>8 DEF Payload
  <2>2. b = h.brk + HeaderSize + s
    BY <1>2 DEF Behind
  <2> QED
    BY <1>1, <1>9, <2>1, <2>2 DEF add_node_to_tail, WithEnd
<1> HIDE DEF e
<1>11. N \in [D \cup {n} -> Header]
  BY <1>5, <1>7, <1>8
<1>12. /\ g \in HeapOn(D \cup {n}) /\ g.node = N /\ g.emhead = h.emhead
       /\ g.head = hd /\ g.tail = n /\ g.brk = b
  <2>1. /\ WithEnd(h, hd, n, b, N) \in HeapOn(D \cup {n})
        /\ WithEnd(h, hd, n, b, N).node = N
        /\ WithEnd(h, hd, n, b, N).emhead = h.emhead
        /\ WithEnd(h, hd, n, b, N).head = hd
        /\ WithEnd(h, hd, n, b, N).tail = n
        /\ WithEnd(h, hd, n, b, N).brk = b
    <3>1. Address(b)
      BY <1>2 DEF Address
    <3> QED
      BY <1>11, <3>1, SetEnd
  <2> QED
    BY <1>9, <2>1
<1>13. ASSUME NEW m \in D \cup {n}
       PROVE  /\ g.node[m].ptr = IF m = n THEN Payload(n) ELSE h.node[m].ptr
              /\ g.node[m].size = IF m = n THEN s ELSE h.node[m].size
              /\ g.node[m].free = IF m = n THEN FALSE ELSE h.node[m].free
              /\ g.node[m].next = IF m = n THEN NULL
                                  ELSE IF m = h.tail THEN n ELSE h.node[m].next
              /\ g.node[m].prev = IF m = n THEN h.tail ELSE h.node[m].prev
              /\ m # n => /\ g.node[m].nextfree = h.node[m].nextfree
                          /\ g.node[m].prevfree = h.node[m].prevfree
  <2>1. CASE m = n
    <3>1. g.node[m] = r
      BY <1>8, <1>12, <2>1
    <3> QED
      BY <1>2, <1>3, <1>5, <2>1, <3>1
  <2>2. CASE m # n
    <3>1. m \in D /\ g.node[m] = e(m)
      BY <1>8, <1>12, <2>2
    <3> QED
      BY <1>3, <1>7, <2>2, <3>1
  <2> QED
    BY <2>1, <2>2
<1> QED
  BY <1>1, <1>2, <1>10, <1>12, <1>13 DEF Appended

LEMMA AppendKeeps ==
    ASSUME NULL \notin Int, NEW h, GoodHeap(h), NEW s, s \in Nat
    PROVE  /\ Appended(DOMAIN h.node, h, s, h.brk, add_node_to_tail(h, s))
           /\ h.brk \notin DOMAIN h.node
           /\ GoodHeap(add_node_to_tail(h, s))
<1>0. PICK D, n, E : D = DOMAIN h.node /\ n = h.brk /\ E = D \cup {n}
  OBVIOUS
<1>1. PICK g : g = add_node_to_tail(h, s)
  OBVIOUS
<1>2. h \in HeapOn(D)
  BY <1>0 DEF GoodHeap, Typed
<1>3. /\ n \in Nat /\ n \in Links /\ n # NULL
      /\ Payload(n) = n + 7 /\ Payload(n) \in Nat
      /\ Behind(n, s) = n + 7 + s /\ Behind(n, s) \in Nat
  <2>1. n \in Nat
    BY <1>0, <1>2, HeapFields
  <2> QED
    BY <2>1 DEF Links, Payload, Behind, HeaderSize
<1>4. PICK sz, nx, pv :
        /\ sz = [m \in D |-> h.node[m].size]
        /\ nx = [m \in D |-> h.node[m].next]
        /\ pv = [m \in D |-> h.node[m].prev]
  OBVIOUS
<1>5. Tiles(D, h.head, h.tail, n, sz, nx, pv)
  BY <1>0, <1>4 DEF GoodHeap, Tiled
<1>6. n \notin D
  <2>1. \A m \in D : m \in Nat /\ sz[m] \in Nat /\ m + 7 + sz[m] <= n
    BY <1>5 DEF Tiles
  <2> QED
    BY <1>3, <2>1
<1>7. Appended(D, h, s, n, g)
  <2>1. n \in Links /\ n = h.brk /\ n \notin D /\ Payload(n) \in Nat /\ Behind(n, s) \in Nat
    BY <1>0, <1>3, <1>6
  <2> QED
    BY <1>1, <1>2, <2>1, AppendedFields
<1>8. g \in HeapOn(E) /\ DOMAIN g.node = E
  <2>1. g \in HeapOn(E)
    BY <1>0, <1>7 DEF Appended
  <2> QED
    BY <2>1, HeapFields
<1>9. Tiled(g)
  <2>0. PICK sz2, nx2, pv2, hd :
          /\ sz2 = [m \in E |-> g.node[m].size]
          /\ nx2 = [m \in E |-> g.node[m].next]
          /\ pv2 = [m \in E |-> g.node[m].prev]
          /\ hd = FirstOf(h.head, h.tail, n)
    OBVIOUS
  <2>1. /\ sz2[n] = s /\ nx2[n] = NULL /\ pv2[n] = h.tail
        /\ \A m \in D : /\ sz2[m] = sz[m] /\ pv2[m] = pv[m]
                        /\ nx2[m] = IF m = h.tail THEN n ELSE nx[m]
    <3>1. g.node[n].size = s /\ g.node[n].next = NULL /\ g.node[n].prev = h.tail
      BY <1>7 DEF Appended
    <3>2. ASSUME NEW m \in D
          PROVE  /\ g.node[m].size = h.node[m].size /\ g.node[m].prev = h.node[m].prev
                 /\ g.node[m].next = IF m = h.tail THEN n ELSE h.node[m].next
      <4>1. m # n
        BY <1>6
      <4> QED
        BY <1>7, <4>1 DEF Appended
    <3> QED
      BY <1>0, <1>4, <2>0, <3>1, <3>2
  <2>2. AddedAt(D, n, s, h.tail, sz, nx, pv, sz2, nx2, pv2)
    BY <1>3, <2>1 DEF AddedAt
  <2>3. Tiles(E, hd, n, Behind(n, s), sz2, nx2, pv2)
    BY <1>0, <1>5, <2>0, <2>2, TilesAdd
  <2>4. g.head = hd /\ g.tail = n /\ g.brk = Behind(n, s)
    BY <1>7, <2>0 DEF Appended, FirstOf
  <2> QED
    BY <1>8, <2>0, <2>3, <2>4 DEF Tiled
<1>10. FreeListed(g)
  <2>0. PICK F, fx, fv, fx2, fv2 :
          /\ F = Freed(h)
          /\ fx = [m \in D |-> h.node[m].nextfree] /\ fx2 = [m \in E |-> g.node[m].nextfree]
          /\ fv = [m \in D |-> h.node[m].prevfree] /\ fv2 = [m \in E |-> g.node[m].prevfree]
    OBVIOUS
  <2>1. LinkedList(F, h.emhead, fx, fv)
    BY <1>0, <2>0 DEF GoodHeap, FreeListed
  <2>2. Freed(g) = F /\ F \subseteq D
    <3>1. \A m \in E : g.node[m].free <=> m \in D /\ h.node[m].free
      BY <1>0, <1>6, <1>7 DEF Appended
    <3> QED
      BY <1>0, <1>8, <2>0, <3>1 DEF Freed
  <2>3. \A m \in F : fx2[m] = fx[m] /\ fv2[m] = fv[m]
    <3>1. \A m \in D : m # n
      BY <1>6
    <3>2. \A m \in D : /\ g.node[m].nextfree = h.node[m].nextfree
                       /\ g.node[m].prevfree = h.node[m].prevfree
      BY <1>7, <3>1, Zenon DEF Appended
    <3>3. \A m \in D : /\ fx[m] = h.node[m].nextfree /\ fv[m] = h.node[m].prevfree
                       /\ fx2[m] = g.node[m].nextfree /\ fv2[m] = g.node[m].prevfree
      BY <1>0, <2>0
    <3> QED
      BY <2>2, <3>2, <3>3
  <2>4. LinkedList(F, h.emhead, fx2, fv2)
    BY <2>1, <2>3 DEF LinkedList
  <2>5. g.emhead = h.emhead
    BY <1>7 DEF Appended
  <2> QED
    BY <1>8, <2>0, <2>2, <2>4, <2>5 DEF FreeListed
<1>11. Pointers(g)
  <2>1. \A m \in D : h.node[m].ptr = m + 7
    BY <1>0 DEF GoodHeap, Pointers
  <2>2. \A m \in E : g.node[m].ptr = IF m = n THEN Payload(n) ELSE h.node[m].ptr
    BY <1>0, <1>7 DEF Appended
  <2>3. ASSUME NEW m \in E PROVE g.node[m].ptr = m + 7
    BY <1>0, <1>3, <2>1, <2>2
  <2> QED
    BY <1>8, <2>3 DEF Pointers
<1> QED
  BY <1>0, <1>1, <1>6, <1>7, <1>8, <1>9, <1>10, <1>11 DEF GoodHeap, Typed
-----------------------------------------------------------------------------
(* The last block grows to s words.                                        *)
GrowLast(h, n, s) == [h EXCEPT !.brk = @ + (s - h.node[n].size), !.node[n].size = s]

Grown(D, h, n, s, g) ==
    /\ g \in HeapOn(D)
    /\ g.head = h.head /\ g.tail = h.tail /\ g.emhead = h.emhead
    /\ g.brk = h.brk + (s - h.node[n].size)
    /\ \A m \in D :
         /\ g.node[m].ptr = h.node[m].ptr
         /\ g.node[m].size = IF m = n THEN s ELSE h.node[m].size
         /\ g.node[m].free = h.node[m].free
         /\ g.node[m].next = h.node[m].next /\ g.node[m].prev = h.node[m].prev
         /\ g.node[m].nextfree = h.node[m].nextfree
         /\ g.node[m].prevfree = h.node[m].prevfree

LEMMA GrownFields ==
    ASSUME NEW D, NEW h \in HeapOn(D), NEW n \in D, NEW s, s \in Nat,
           h.brk + (s - h.node[n].size) \in Nat
    PROVE  Grown(D, h, n, s, GrowLast(h, n, s))
<1>1. h.node \in [D -> Header] /\ h.node[n] \in Header
  BY HeapFields
<1>2. PICK r : r = [h.node[n] EXCEPT !.size = s]
  OBVIOUS
<1>3. /\ r \in Header /\ r.ptr = h.node[n].ptr /\ r.size = s /\ r.free = h.node[n].free
      /\ r.next = h.node[n].next /\ r.prev = h.node[n].prev
      /\ r.nextfree = h.node[n].nextfree /\ r.prevfree = h.node[n].prevfree
  BY <1>1, <1>2 DEF Header
<1>4. PICK N : N = [h.node EXCEPT ![n] = r]
  OBVIOUS
<1>5. N \in [D -> Header] /\ \A m \in D : N[m] = IF m = n THEN r ELSE h.node[m]
  BY <1>1, <1>3, <1>4
<1>6. PICK b : b = h.brk + (s - h.node[n].size)
  OBVIOUS
<1> DEFINE f == [h EXCEPT !.brk = b]
<1>7. /\ f \in HeapOn(D) /\ f.brk = b /\ f.node = h.node
      /\ f.head = h.head /\ f.tail = h.tail /\ f.emhead = h.emhead
  BY <1>6 DEF HeapOn
<1>8. PICK g : g = WithNode(f, N)
  OBVIOUS
<1>9. GrowLast(h, n, s) = g
  BY <1>2, <1>4, <1>6, <1>7, <1>8 DEF GrowLast, WithNode
<1> HIDE DEF f
<1>10. /\ g \in HeapOn(D) /\ g.node = N
       /\ g.head = f.head /\ g.tail = f.tail /\ g.emhead = f.emhead /\ g.brk = f.brk
  BY <1>5, <1>7, <1>8, SetNode
<1>11. ASSUME NEW m \in D
       PROVE  /\ g.node[m].ptr = h.node[m].ptr
              /\ g.node[m].size = IF m = n THEN s ELSE h.node[m].size
              /\ g.node[m].free = h.node[m].free
              /\ g.node[m].next = h.node[m].next /\ g.node[m].prev = h.node[m].prev
              /\ g.node[m].nextfree = h.node[m].nextfree
              /\ g.node[m].prevfree = h.node[m].prevfree
  <2>1. CASE m = n
    <3>1. g.node[m] = r
      BY <1>5, <1>10, <2>1
    <3> QED
      BY <1>3, <2>1, <3>1
  <2>2. CASE m # n
    <3>1. g.node[m] = h.node[m]
      BY <1>5, <1>10, <2>2
    <3> QED
      BY <2>2, <3>1
  <2> QED
    BY <2>1, <2>2
<1>12. /\ g \in HeapOn(D)
       /\ g.head = h.head /\ g.tail = h.tail /\ g.emhead = h.emhead
       /\ g.brk = h.brk + (s - h.node[n].size)
  BY <1>6, <1>7, <1>10
<1> QED
  BY <1>9, <1>11, <1>12 DEF Grown

LEMMA GrowKeeps ==
    ASSUME NULL \notin Int, NEW h, GoodHeap(h), NEW n, n \in DOMAIN h.node, n = h.tail,
           NEW s, s \in Nat, s > h.node[n].size
    PROVE  /\ Grown(DOMAIN h.node, h, n, s, GrowLast(h, n, s))
           /\ GoodHeap(GrowLast(h, n, s))
<1>0. PICK D : D = DOMAIN h.node
  OBVIOUS
<1>1. PICK g : g = GrowLast(h, n, s)
  OBVIOUS
<1>2. h \in HeapOn(D) /\ n \in D
  BY <1>0 DEF GoodHeap, Typed
<1>3. h.brk + (s - h.node[n].size) \in Nat
  <2>1. h.brk \in Nat /\ h.node[n].size \in Nat
    BY <1>2, HeapFields
  <2> QED
    BY <2>1
<1>4. Grown(D, h, n, s, g)
  BY <1>1, <1>2, <1>3, GrownFields
<1>5. g \in HeapOn(D) /\ DOMAIN g.node = D
  <2>1. g \in HeapOn(D)
    BY <1>4 DEF Grown
  <2> QED
    BY <2>1, HeapFields
<1>6. Tiled(g)
  <2>0. PICK sz, nx, pv, sz2 :
          /\ sz = [m \in D |-> h.node[m].size] /\ sz2 = [m \in D |-> g.node[m].size]
          /\ nx = [m \in D |-> h.node[m].next] /\ pv = [m \in D |-> h.node[m].prev]
    OBVIOUS
  <2>1. Tiles(D, h.head, h.tail, h.brk, sz, nx, pv)
    BY <1>0, <2>0 DEF GoodHeap, Tiled
  <2>2. \A m \in D : sz2[m] = IF m = n THEN s ELSE sz[m]
    BY <1>4, <2>0 DEF Grown
  <2>3. sz[n] = h.node[n].size /\ h.brk \in Nat
    BY <1>2, <2>0, HeapFields
  <2>4. GrownAt(D, n, s, sz, sz2)
    BY <1>2, <2>2, <2>3 DEF GrownAt
  <2>5. PICK top2 : top2 = h.brk + (s - sz[n])
    OBVIOUS
  <2>6. Tiles(D, h.head, n, top2, sz2, nx, pv)
    BY <2>1, <2>3, <2>4, <2>5, TilesGrow
  <2>7. /\ g.head = h.head /\ g.tail = n /\ g.brk = top2
        /\ nx = [m \in D |-> g.node[m].next] /\ pv = [m \in D |-> g.node[m].prev]
    BY <1>4, <2>0, <2>3, <2>5 DEF Grown
  <2> QED
    BY <1>5, <2>0, <2>6, <2>7 DEF Tiled
<1>7. FreeListed(g)
  <2>1. /\ Freed(g) = Freed(h) /\ g.emhead = h.emhead
        /\ [m \in D |-> g.node[m].nextfree] = [m \in D |-> h.node[m].nextfree]
        /\ [m \in D |-> g.node[m].prevfree] = [m \in D |-> h.node[m].prevfree]
    BY <1>0, <1>4, <1>5 DEF Grown, Freed
  <2> QED
    BY <1>0, <1>5, <2>1 DEF GoodHeap, FreeListed
<1>8. Pointers(g)
  BY <1>0, <1>4, <1>5 DEF Grown, GoodHeap, Pointers
<1> QED
  BY <1>0, <1>1, <1>4, <1>5, <1>6, <1>7, <1>8 DEF GoodHeap, Typed
-----------------------------------------------------------------------------
(* What a good heap says.                                                  *)
LEMMA Neighbours ==
    ASSUME NULL \notin Int, NEW h, GoodHeap(h), NEW n \in DOMAIN h.node
    PROVE  /\ h.node[n].next \in DOMAIN h.node \cup {NULL} /\ h.node[n].next # n
           /\ h.node[n].prev \in DOMAIN h.node \cup {NULL}
           /\ \A m \in DOMAIN h.node : h.node[m].next = n <=> h.node[n].prev = m
<1>1. PICK D, sz, nx, pv :
        /\ D = DOMAIN h.node
        /\ sz = [m \in D |-> h.node[m].size]
        /\ nx = [m \in D |-> h.node[m].next]
        /\ pv = [m \in D |-> h.node[m].prev]
  OBVIOUS
<1>2. Tiles(D, h.head, h.tail, h.brk, sz, nx, pv)
  BY <1>1 DEF GoodHeap, Tiled
<1>3. n \in D /\ nx[n] \in D \cup {NULL} /\ pv[n] \in D \cup {NULL}
  BY <1>1, <1>2 DEF Tiles
<1>4. \A m \in D : nx[m] = n <=> pv[n] = m
  BY <1>2, <1>3 DEF Tiles
<1>5. nx[n] # n
  BY <1>2, <1>3 DEF Tiles
<1> QED
  BY <1>1, <1>3, <1>4, <1>5

LEMMA FreeLinks ==
    ASSUME NULL \notin Int, NEW h, GoodHeap(h), NEW F, F = Freed(h)
    PROVE  /\ F \subseteq DOMAIN h.node /\ NULL \notin F
           /\ h.emhead \in F \cup {NULL}
           /\ \A m \in F : h.node[m].nextfree \in F \cup {NULL}
           /\ h.emhead # NULL => h.node[h.emhead].prevfree = NULL
           /\ \A m \in F : h.node[m].nextfree # NULL =>
                             h.node[h.node[m].nextfree].prevfree = m
           /\ \A S \in SUBSET F :
                (/\ h.emhead \in S \cup {NULL}
                 /\ \A m \in S : h.node[m].nextfree \in S \cup {NULL}) => S = F
<1>1. PICK D, fx, fv : /\ D = DOMAIN h.node
                       /\ fx = [m \in D |-> h.node[m].nextfree]
                       /\ fv = [m \in D |-> h.node[m].prevfree]
  OBVIOUS
<1>2. LinkedList(F, h.emhead, fx, fv)
  BY <1>1 DEF GoodHeap, FreeListed
<1>3. F \subseteq D /\ NULL \notin F
  <2>1. \A m \in D : m # NULL
    BY <1>1, InTiles
  <2> QED
    BY <1>1, <2>1 DEF Freed
<1>4. \A m \in F : h.node[m].nextfree = fx[m] /\ h.node[m].prevfree = fv[m]
  BY <1>1, <1>3
<1>5. /\ h.emhead \in F \cup {NULL}
      /\ \A m \in F : fx[m] \in F \cup {NULL} /\ (fv[m] = NULL <=> m = h.emhead)
      /\ \A m, k \in F : fx[m] = k <=> fv[k] = m
  BY <1>2 DEF LinkedList
<1>6. ASSUME NEW S \in SUBSET F, h.emhead \in S \cup {NULL},
             \A m \in S : h.node[m].nextfree \in S \cup {NULL}
      PROVE  S = F
  <2>1. \A m \in S : fx[m] \in S \cup {NULL}
    BY <1>4, <1>6
  <2> QED
    BY <1>2, <1>6, <2>1 DEF LinkedList
<1>7. \A m \in F : h.node[m].nextfree # NULL => h.node[h.node[m].nextfree].prevfree = m
  BY <1>4, <1>5
<1> QED
  BY <1>1, <1>3, <1>4, <1>5, <1>6, <1>7

\* A walk comes to free blocks only, and a whole one to each of them.
LEMMA WalkIsFree ==
    ASSUME NULL \notin Int, NEW h, GoodHeap(h), NEW On
    PROVE  Walk(h, On) \subseteq Freed(h)
<1>1. PICK F : F = Freed(h)
  OBVIOUS
<1>2. /\ F \in SUBSET DOMAIN h.node /\ h.emhead \in F \cup {NULL}
      /\ \A m \in F : h.node[m].nextfree \in F \cup {NULL}
  BY <1>1, FreeLinks
<1> QED
  BY <1>1, <1>2 DEF Walk

LEMMA WalkIsWhole ==
    ASSUME NULL \notin Int, NEW h, GoodHeap(h)
    PROVE  Walk(h, DOMAIN h.node) = Freed(h)
<1>1. PICK F : F = Freed(h)
  OBVIOUS
<1>2. /\ F \subseteq DOMAIN h.node /\ h.emhead \in F \cup {NULL}
      /\ \A m \in F : h.node[m].nextfree \in F \cup {NULL}
      /\ \A S \in SUBSET F :
           (/\ h.emhead \in S \cup {NULL}
            /\ \A m \in S : h.node[m].nextfree \in S \cup {NULL}) => S = F
  BY <1>1, FreeLinks
<1>3. ASSUME NEW n \in F, NEW S \in SUBSET DOMAIN h.node, h.emhead \in S \cup {NULL},
             \A m \in S \cap DOMAIN h.node : h.node[m].nextfree \in S \cup {NULL}
      PROVE  n \in S
  <2>1. PICK T : T = S \cap F
    OBVIOUS
  <2>2. T \in SUBSET F /\ h.emhead \in T \cup {NULL}
    BY <1>2, <1>3, <2>1
  <2>3. \A m \in T : h.node[m].nextfree \in T \cup {NULL}
    BY <1>2, <1>3, <2>1
  <2>4. T = F
    BY <1>2, <2>2, <2>3
  <2> QED
    BY <1>3, <2>1, <2>4
<1>4. F \subseteq Walk(h, DOMAIN h.node)
  BY <1>2, <1>3 DEF Walk
<1> QED
  BY <1>1, <1>4, WalkIsFree

LEMMA FirstFitFits ==
    ASSUME NULL \notin Int, NEW h, GoodHeap(h), NEW size \in Nat, FirstFit(h, size) # NULL
    PROVE  /\ FirstFit(h, size) \in DOMAIN h.node
           /\ h.node[FirstFit(h, size)].free
           /\ h.node[FirstFit(h, size)].size >= size
<1>1. PICK small, fits : /\ small = {n \in DOMAIN h.node : h.node[n].size < size}
                         /\ fits = Walk(h, small) \ small
  OBVIOUS
<1>2. FirstFit(h, size) \in fits
  BY <1>1 DEF FirstFit
<1>3. PICK n : n = FirstFit(h, size)
  OBVIOUS
<1>4. n \in Freed(h) /\ n \notin small
  BY <1>1, <1>2, <1>3, WalkIsFree
<1>5. n \in DOMAIN h.node /\ h.node[n].free
  BY <1>4 DEF Freed
<1>6. h.node[n].size \in Nat
  BY <1>5, InTiles
<1> QED
  BY <1>1, <1>3, <1>4, <1>5, <1>6
-----------------------------------------------------------------------------
(* No two free blocks are neighbours, and used blocks stay as they are.    *)
Separate(h) == \A n \in DOMAIN h.node : h.node[n].free => ~IsFree(h, h.node[n].next)

\* The used blocks of h, except those in Lost, are used in g with their sizes.
Kept(h, g, Lost) ==
    \A m \in DOMAIN h.node \ Lost :
      ~h.node[m].free => /\ m \in DOMAIN g.node /\ ~g.node[m].free
                         /\ g.node[m].size = h.node[m].size

\* The free block behind the rest that malloc looks for is never there.
LEMMA SplitOffIsSplit ==
    ASSUME NULL \notin Int, NEW h, GoodHeap(h), Separate(h), NEW n, h.node[n].free, NEW s,
           NEW rest, CanSplit(h, n, s, rest)
    PROVE  SplitOff(h, n, s) = block_split(h, n, s)
<1>1. PICK D, g, new, k : /\ D = DOMAIN h.node /\ g = block_split(h, n, s)
                          /\ new = Behind(n, s) /\ k = h.node[n].next
  OBVIOUS
<1>2. SplitInto(D, h, n, s, rest, new, g) /\ new \notin D
  BY <1>1, SplitKeeps
<1>3. n \in D
  BY <1>1 DEF CanSplit
<1>4. g.node[n].next = new /\ g.node[new].next = k
  <2>1. \A m \in D \cup {new} :
          g.node[m].next = IF m = new THEN h.node[n].next
                           ELSE IF m = n THEN new ELSE h.node[m].next
    BY <1>2 DEF SplitInto
  <2> QED
    BY <1>1, <1>2, <1>3, <2>1
<1>5. k \in D \cup {NULL}
  BY <1>1, <1>3, Neighbours
<1>6. k # NULL => ~h.node[k].free
  BY <1>1, <1>3 DEF Separate, IsFree
<1>7. ~IsFree(g, k)
  <2>1. CASE k = NULL
    BY <2>1 DEF IsFree
  <2>2. CASE k # NULL
    <3>1. k \in D /\ k # new
      BY <1>2, <1>5, <2>2
    <3>2. g.node[k].free = h.node[k].free
      BY <1>2, <3>1 DEF SplitInto
    <3> QED
      BY <1>6, <2>2, <3>2 DEF IsFree
  <2> QED
    BY <2>1, <2>2
<1> QED
  BY <1>1, <1>4, <1>7 DEF SplitOff

LEMMA SplitSeparates ==
    ASSUME NULL \notin Int, NEW h, GoodHeap(h), Separate(h), NEW n, h.node[n].free, NEW s,
           NEW rest, CanSplit(h, n, s, rest), NEW g, g = block_split(h, n, s)
    PROVE  /\ GoodHeap(g) /\ n \in DOMAIN g.node /\ g.node[n].free /\ g.node[n].size = s
           /\ g.brk = h.brk
           /\ \A m \in DOMAIN g.node : g.node[m].free /\ IsFree(g, g.node[m].next) => m = n
           /\ Kept(h, g, {})
<1>1. PICK D, new, k : D = DOMAIN h.node /\ new = Behind(n, s) /\ k = h.node[n].next
  OBVIOUS
<1>2. /\ SplitInto(D, h, n, s, rest, new, g) /\ new \notin D /\ GoodHeap(g)
  BY <1>1, SplitKeeps
<1>3. DOMAIN g.node = D \cup {new}
  <2>1. g \in HeapOn(D \cup {new})
    BY <1>2 DEF SplitInto
  <2> QED
    BY <2>1, HeapFields
<1>4. n \in D
  BY <1>1 DEF CanSplit
<1>5. g.node[n].free /\ g.node[n].size = s /\ g.brk = h.brk
  <2>1. /\ g.node[n].free = h.node[n].free /\ g.node[n].size = s /\ g.brk = h.brk
    BY <1>2, <1>4 DEF SplitInto
  <2> QED
    BY <2>1
<1>6. \A m \in D : /\ g.node[m].free = h.node[m].free
                   /\ m # n => /\ g.node[m].next = h.node[m].next
                               /\ g.node[m].size = h.node[m].size
  <2>1. \A m \in D \cup {new} :
          /\ g.node[m].free = IF m = new THEN TRUE ELSE h.node[m].free
          /\ g.node[m].next = IF m = new THEN h.node[n].next
                              ELSE IF m = n THEN new ELSE h.node[m].next
          /\ g.node[m].size = IF m = new THEN rest ELSE IF m = n THEN s ELSE h.node[m].size
    BY <1>2, Zenon DEF SplitInto
  <2> SUFFICES ASSUME NEW m \in D
               PROVE  /\ g.node[m].free = h.node[m].free
                      /\ m # n => /\ g.node[m].next = h.node[m].next
                                  /\ g.node[m].size = h.node[m].size
    OBVIOUS
  <2>2. m # new /\ m \in D \cup {new}
    BY <1>2
  <2>3. /\ g.node[m].free = h.node[m].free
        /\ g.node[m].next = IF m = n THEN new ELSE h.node[m].next
        /\ g.node[m].size = IF m = n THEN s ELSE h.node[m].size
    BY <2>1, <2>2, Zenon
  <2> QED
    BY <2>3
<1>7. ASSUME NEW m \in D \cup {new}, g.node[m].free, IsFree(g, g.node[m].next), m # n
      PROVE  FALSE
  <2>1. PICK x \in D : h.node[x].free /\ g.node[m].next = h.node[x].next
    <3>1. CASE m = new
      <4>1. g.node[new].next = k
        <5>1. \A j \in D \cup {new} :
                g.node[j].next = IF j = new THEN h.node[n].next
                                 ELSE IF j = n THEN new ELSE h.node[j].next
          BY <1>2 DEF SplitInto
        <5> QED
          BY <1>1, <5>1
      <4> QED
        BY <1>1, <1>4, <3>1, <4>1
    <3>2. CASE m # new
      BY <1>6, <1>7, <3>2
    <3> QED
      BY <3>1, <3>2
  <2>2. PICK y : y = h.node[x].next
    OBVIOUS
  <2>3. ~IsFree(h, y) /\ y \in D \cup {NULL}
    BY <1>1, <2>1, <2>2, Neighbours DEF Separate
  <2>4. ~IsFree(g, y)
    BY <1>6, <2>3 DEF IsFree
  <2> QED
    BY <1>7, <2>1, <2>2, <2>4
<1>8. Kept(h, g, {})
  <2>1. ASSUME NEW m \in D, ~h.node[m].free
        PROVE  m \in DOMAIN g.node /\ ~g.node[m].free /\ g.node[m].size = h.node[m].size
    <3>1. m # n
      BY <2>1
    <3> QED
      BY <1>3, <1>6, <2>1, <3>1
  <2> QED
    BY <1>1, <2>1 DEF Kept
<1> QED
  BY <1>2, <1>3, <1>4, <1>5, <1>7, <1>8

LEMMA GiveOutSeparates ==
    ASSUME NULL \notin Int, NEW h, GoodHeap(h), NEW n, n \in DOMAIN h.node, h.node[n].free,
           \A m \in DOMAIN h.node : h.node[m].free /\ IsFree(h, h.node[m].next) => m = n,
           NEW g, g = GiveOut(h, n)
    PROVE  /\ GoodHeap(g) /\ Separate(g) /\ g.brk = h.brk
           /\ n \in DOMAIN g.node /\ ~g.node[n].free /\ g.node[n].size = h.node[n].size
           /\ Kept(h, g, {})
<1>1. PICK D : D = DOMAIN h.node
  OBVIOUS
<1>2. GivenOut(D, h, n, g) /\ GoodHeap(g)
  BY <1>1, GiveOutKeeps
<1>3. DOMAIN g.node = D /\ g.brk = h.brk
  <2>1. g \in HeapOn(D) /\ g.brk = h.brk
    BY <1>2 DEF GivenOut
  <2> QED
    BY <2>1, HeapFields
<1>4. \A m \in D : /\ g.node[m].free = IF m = n THEN FALSE ELSE h.node[m].free
                   /\ g.node[m].next = h.node[m].next /\ g.node[m].size = h.node[m].size
  BY <1>2 DEF GivenOut
<1>5. ~g.node[n].free /\ g.node[n].size = h.node[n].size
  BY <1>1, <1>4
<1>6. ASSUME NEW m \in D, g.node[m].free, IsFree(g, g.node[m].next)
      PROVE  FALSE
  <2>1. m # n /\ h.node[m].free /\ g.node[m].next = h.node[m].next
    BY <1>4, <1>6
  <2>2. PICK y : y = h.node[m].next
    OBVIOUS
  <2>3. y \in D \cup {NULL}
    BY <1>1, <2>2, Neighbours
  <2>4. y # NULL /\ g.node[y].free
    BY <1>6, <2>1, <2>2 DEF IsFree
  <2>5. h.node[y].free
    BY <1>4, <2>3, <2>4
  <2>6. IsFree(h, y)
    BY <2>4, <2>5 DEF IsFree
  <2> QED
    BY <1>1, <2>1, <2>2, <2>6
<1>7. Separate(g)
  BY <1>3, <1>6 DEF Separate
<1>8. Kept(h, g, {})
  <2>1. ASSUME NEW m \in D, ~h.node[m].free
        PROVE  m \in DOMAIN g.node /\ ~g.node[m].free /\ g.node[m].size = h.node[m].size
    BY <1>3, <1>4, <2>1
  <2> QED
    BY <1>1, <2>1 DEF Kept
<1> QED
  BY <1>1, <1>2, <1>3, <1>5, <1>7, <1>8

LEMMA TakeKeeps ==
    ASSUME NULL \notin Int, NEW h, GoodHeap(h), Separate(h), NEW n, n \in DOMAIN h.node,
           h.node[n].free, NEW size, size \in Nat, h.node[n].size >= size,
           NEW g, g = Take(h, n, size)
    PROVE  /\ GoodHeap(g) /\ Separate(g) /\ g.brk = h.brk
           /\ n \in DOMAIN g.node /\ ~g.node[n].free /\ g.node[n].size >= size
           /\ Kept(h, g, {})
<1>1. CASE h.node[n].size - size > Slack + HeaderSize
  <2>1. PICK rest : rest = h.node[n].size - size - 7
    OBVIOUS
  <2>2. CanSplit(h, n, size, rest)
    <3>1. h.node[n].size \in Nat
      BY InTiles
    <3> QED
      BY <1>1, <2>1, <3>1 DEF CanSplit, Slack, HeaderSize
  <2>3. PICK f : f = block_split(h, n, size)
    OBVIOUS
  <2>4. g = GiveOut(f, n)
    <3>1. SplitOff(h, n, size) = f
      BY <2>2, <2>3, SplitOffIsSplit
    <3> QED
      BY <1>1, <3>1 DEF Take, GiveOut
  <2>5. /\ GoodHeap(f) /\ n \in DOMAIN f.node /\ f.node[n].free /\ f.node[n].size = size
        /\ f.brk = h.brk
        /\ \A m \in DOMAIN f.node : f.node[m].free /\ IsFree(f, f.node[m].next) => m = n
        /\ Kept(h, f, {})
    BY <2>2, <2>3, SplitSeparates
  <2>6. /\ GoodHeap(g) /\ Separate(g) /\ g.brk = f.brk
        /\ n \in DOMAIN g.node /\ ~g.node[n].free /\ g.node[n].size = f.node[n].size
        /\ Kept(f, g, {})
    BY <2>4, <2>5, GiveOutSeparates
  <2>7. Kept(h, g, {})
    BY <2>5, <2>6 DEF Kept
  <2>8. g.node[n].size >= size
    BY <2>5, <2>6
  <2> QED
    BY <2>5, <2>6, <2>7, <2>8
<1>2. CASE ~(h.node[n].size - size > Slack + HeaderSize)
  <2>1. g = GiveOut(h, n)
    BY <1>2 DEF Take, GiveOut
  <2>2. \A m \in DOMAIN h.node : h.node[m].free /\ IsFree(h, h.node[m].next) => m = n
    BY DEF Separate
  <2>3. /\ GoodHeap(g) /\ Separate(g) /\ g.brk = h.brk
        /\ n \in DOMAIN g.node /\ ~g.node[n].free /\ g.node[n].size = h.node[n].size
        /\ Kept(h, g, {})
    BY <2>1, <2>2, GiveOutSeparates
  <2> QED
    BY <2>3
<1> QED
  BY <1>1, <1>2
LEMMA AppendSeparates ==
    ASSUME NULL \notin Int, NEW h, GoodHeap(h), Separate(h), NEW s, s \in Nat,
           NEW g, g = add_node_to_tail(h, s)
    PROVE  /\ GoodHeap(g) /\ Separate(g) /\ g.brk = Behind(h.brk, s)
           /\ h.brk \in DOMAIN g.node /\ h.brk \notin DOMAIN h.node
           /\ ~g.node[h.brk].free /\ g.node[h.brk].size = s
           /\ Kept(h, g, {})
<1>1. PICK D, n : D = DOMAIN h.node /\ n = h.brk
  OBVIOUS
<1>2. Appended(D, h, s, n, g) /\ n \notin D /\ GoodHeap(g)
  BY <1>1, AppendKeeps
<1>3. DOMAIN g.node = D \cup {n} /\ g.brk = Behind(n, s)
  <2>1. g \in HeapOn(D \cup {n}) /\ g.brk = Behind(n, s)
    BY <1>2 DEF Appended
  <2> QED
    BY <2>1, HeapFields
<1>4. ~g.node[n].free /\ g.node[n].size = s
  BY <1>2 DEF Appended
<1>5. \A m \in D : /\ g.node[m].free = h.node[m].free /\ g.node[m].size = h.node[m].size
                   /\ g.node[m].next = IF m = h.tail THEN n ELSE h.node[m].next
  BY <1>2, Zenon DEF Appended
<1>6. ASSUME NEW m \in D \cup {n}, g.node[m].free, IsFree(g, g.node[m].next)
      PROVE  FALSE
  <2>1. m \in D /\ h.node[m].free
    BY <1>4, <1>5, <1>6
  <2>2. PICK y : y = g.node[m].next
    OBVIOUS
  <2>3. y # NULL /\ g.node[y].free
    BY <1>6, <2>2 DEF IsFree
  <2>4. y # n
    BY <1>4, <2>3
  <2>5. y = h.node[m].next
    BY <1>5, <2>1, <2>2, <2>4
  <2>6. y \in D
    BY <1>1, <2>1, <2>3, <2>5, Neighbours
  <2>7. IsFree(h, y)
    BY <1>5, <2>3, <2>6 DEF IsFree
  <2> QED
    BY <1>1, <2>1, <2>5, <2>7 DEF Separate
<1>7. Separate(g)
  BY <1>3, <1>6 DEF Separate
<1>8. Kept(h, g, {})
  <2>1. ASSUME NEW m \in D, ~h.node[m].free
        PROVE  m \in DOMAIN g.node /\ ~g.node[m].free /\ g.node[m].size = h.node[m].size
    BY <1>3, <1>5, <2>1
  <2> QED
    BY <1>1, <2>1 DEF Kept
<1> QED
  BY <1>1, <1>2, <1>3, <1>4, <1>7, <1>8

\* n is the last block and has less than s words; where the heap ends then.
Lengthens(h, n, s) ==
    n \in DOMAIN h.node /\ n = h.tail /\ s \in Nat /\ s > h.node[n].size

GrownEnd(h, n, s) == h.brk + (s - h.node[n].size)

LEMMA GrowSeparates ==
    ASSUME NULL \notin Int, NEW h, GoodHeap(h), Separate(h), NEW n, NEW s, Lengthens(h, n, s),
           NEW g, g = GrowLast(h, n, s)
    PROVE  /\ GoodHeap(g) /\ Separate(g) /\ g.brk = GrownEnd(h, n, s)
           /\ n \in DOMAIN g.node /\ g.node[n].free = h.node[n].free /\ g.node[n].size = s
           /\ Kept(h, g, {n})
<1>1. PICK D : D = DOMAIN h.node
  OBVIOUS
<1>2. Grown(D, h, n, s, g) /\ GoodHeap(g)
  BY <1>1, GrowKeeps DEF Lengthens
<1>3. DOMAIN g.node = D /\ g.brk = GrownEnd(h, n, s)
  <2>1. g \in HeapOn(D) /\ g.brk = GrownEnd(h, n, s)
    BY <1>2 DEF Grown, GrownEnd
  <2> QED
    BY <2>1, HeapFields
<1>4. \A m \in D : /\ g.node[m].free = h.node[m].free /\ g.node[m].next = h.node[m].next
                   /\ g.node[m].size = IF m = n THEN s ELSE h.node[m].size
  BY <1>2 DEF Grown
<1>5. Separate(g)
  <2>1. ASSUME NEW m \in D, g.node[m].free, IsFree(g, g.node[m].next) PROVE FALSE
    <3>1. PICK y : y = h.node[m].next
      OBVIOUS
    <3>2. h.node[m].free /\ y # NULL /\ g.node[y].free
      BY <1>4, <2>1, <3>1 DEF IsFree
    <3>3. y \in D
      BY <1>1, <3>1, <3>2, Neighbours
    <3>4. IsFree(h, y)
      BY <1>4, <3>2, <3>3 DEF IsFree
    <3> QED
      BY <1>1, <3>1, <3>2, <3>4 DEF Separate
  <2> QED
    BY <1>3, <2>1 DEF Separate
<1>6. Kept(h, g, {n})
  <2>1. ASSUME NEW m \in D \ {n}, ~h.node[m].free
        PROVE  m \in DOMAIN g.node /\ ~g.node[m].free /\ g.node[m].size = h.node[m].size
    BY <1>3, <1>4, <2>1
  <2> QED
    BY <1>1, <2>1 DEF Kept
<1>7. n \in D
  BY <1>1 DEF Lengthens
<1> QED
  BY <1>1, <1>2, <1>3, <1>4, <1>5, <1>6, <1>7

\* A merge of x with the free block behind it, when no other two free blocks
\* are neighbours.
LEMMA MergeSeparates ==
    ASSUME NULL \notin Int, NEW h, GoodHeap(h), NEW x, x \in DOMAIN h.node, h.node[x].free,
           \A m \in DOMAIN h.node : h.node[m].free /\ IsFree(h, h.node[m].next) => m = x,
           NEW k, k = h.node[x].next, k # NULL, h.node[k].free,
           NEW g, g = block_merge(h, x)
    PROVE  GoodHeap(g) /\ Separate(g) /\ g.brk = h.brk /\ Kept(h, g, {})
<1>1. PICK D, j : D = DOMAIN h.node /\ j = h.node[k].next
  OBVIOUS
<1>2. MergedWith(D, h, x, k, g) /\ k \in D /\ k # x /\ GoodHeap(g)
  BY <1>1, MergeKeeps
<1>3. DOMAIN g.node = D \ {k} /\ g.brk = h.brk
  <2>1. g \in HeapOn(D \ {k}) /\ g.brk = h.brk
    BY <1>2 DEF MergedWith
  <2> QED
    BY <2>1, HeapFields
<1>4. \A m \in D \ {k} : /\ g.node[m].free = h.node[m].free
                         /\ m # x => g.node[m].size = h.node[m].size
                         /\ g.node[m].next = IF m = x THEN j ELSE h.node[m].next
  BY <1>1, <1>2 DEF MergedWith
<1>5. ASSUME NEW m \in D \ {k}, g.node[m].free, IsFree(g, g.node[m].next) PROVE FALSE
  <2>1. PICK z \in D : z # x /\ h.node[z].free /\ g.node[m].next = h.node[z].next
    <3>1. CASE m = x
      BY <1>1, <1>2, <1>4, <3>1
    <3>2. CASE m # x
      BY <1>4, <1>5, <3>2
    <3> QED
      BY <3>1, <3>2
  <2>2. PICK y : y = h.node[z].next
    OBVIOUS
  <2>3. y # NULL /\ g.node[y].free
    BY <1>5, <2>1, <2>2 DEF IsFree
  <2>4. y \in D
    BY <1>1, <2>2, <2>3, Neighbours
  <2>5. y # k
    <3>1. \A a \in D : h.node[a].next = k <=> h.node[k].prev = a
      BY <1>1, <1>2, Neighbours
    <3> QED
      BY <1>1, <2>1, <2>2, <3>1
  <2>6. IsFree(h, y)
    BY <1>4, <2>3, <2>4, <2>5 DEF IsFree
  <2> QED
    BY <1>1, <2>1, <2>2, <2>6
<1>6. Separate(g)
  BY <1>3, <1>5 DEF Separate
<1>7. Kept(h, g, {})
  <2>1. ASSUME NEW m \in D, ~h.node[m].free
        PROVE  m \in DOMAIN g.node /\ ~g.node[m].free /\ g.node[m].size = h.node[m].size
    <3>1. m # k /\ m # x
      BY <2>1
    <3> QED
      BY <1>3, <1>4, <2>1, <3>1
  <2> QED
    BY <1>1, <2>1 DEF Kept
<1> QED
  BY <1>2, <1>3, <1>6, <1>7

\* The first merge of free, with the block in front, and what the second is of.
FrontMerged(g, prevnode) == IF IsFree(g, prevnode) THEN block_merge(g, prevnode) ELSE g

FrontBlock(g, prevnode, n) == IF IsFree(g, prevnode) THEN prevnode ELSE n

\* What the first merge leaves: only the freed block, x, can lie in front of a free one.
FrontIsMerged(h, n, g, f, x) ==
    /\ GoodHeap(f) /\ f.brk = h.brk /\ Kept(h, f, {n})
    /\ x \in DOMAIN f.node /\ f.node[x].free /\ f.node[x].next = h.node[n].next
    /\ \A m \in DOMAIN f.node : f.node[m].free /\ IsFree(f, f.node[m].next) => m = x
    /\ \A m \in DOMAIN h.node \ {n} : /\ m \in DOMAIN f.node
                                      /\ f.node[m].free = h.node[m].free
    /\ \A m \in DOMAIN h.node : g.node[m].free <=> m = n \/ h.node[m].free
    /\ DOMAIN f.node \subseteq DOMAIN h.node

LEMMA FreeFirstMerge ==
    ASSUME NULL \notin Int, NEW h, GoodHeap(h), Separate(h), NEW n, n \in DOMAIN h.node,
           ~h.node[n].free, NEW g, g = PutOnList(h, n),
           NEW prevnode, prevnode = h.node[n].prev,
           NEW f, f = FrontMerged(g, prevnode), NEW x, x = FrontBlock(g, prevnode, n)
    PROVE  FrontIsMerged(h, n, g, f, x)
<1> USE DEF FrontIsMerged
<1>1. PICK D, nextnode : D = DOMAIN h.node /\ nextnode = h.node[n].next
  OBVIOUS
<1>2. FreedFirst(D, h, n, g) /\ GoodHeap(g)
  BY <1>1, FreeFirstKeeps
<1>3. DOMAIN g.node = D /\ g.brk = h.brk
  <2>1. g \in HeapOn(D) /\ g.brk = h.brk
    BY <1>2 DEF FreedFirst
  <2> QED
    BY <2>1, HeapFields
<1>4. /\ \A m \in D : /\ g.node[m].free = IF m = n THEN TRUE ELSE h.node[m].free
                      /\ g.node[m].next = h.node[m].next /\ g.node[m].size = h.node[m].size
      /\ g.node[n].free
  BY <1>1, <1>2 DEF FreedFirst
<1>5. /\ prevnode \in D \cup {NULL} /\ nextnode \in D \cup {NULL} /\ nextnode # n
      /\ \A m \in D : h.node[m].next = n <=> m = prevnode
  <2>1. /\ h.node[n].next \in D \cup {NULL} /\ h.node[n].next # n
        /\ h.node[n].prev \in D \cup {NULL}
        /\ \A m \in D : h.node[m].next = n <=> h.node[n].prev = m
    BY <1>1, Neighbours
  <2> QED
    BY <1>1, <2>1
<1>6. \A m \in D : g.node[m].free <=> m = n \/ h.node[m].free
  BY <1>4
<1>7. CASE IsFree(g, prevnode)
  <2>1. prevnode \in D /\ g.node[prevnode].next = n /\ n # NULL /\ g.node[prevnode].free
    <3>1. prevnode # NULL /\ g.node[prevnode].free
      BY <1>7 DEF IsFree
    <3>2. prevnode \in D
      BY <1>5, <3>1
    <3>3. n # NULL
      BY InTiles
    <3> QED
      <4>1. h.node[prevnode].next = n
        BY <1>5, <3>2
      <4>2. g.node[prevnode].next = h.node[prevnode].next
        BY <1>4, <3>2
      <4> QED
        BY <3>1, <3>2, <3>3, <4>1, <4>2
  <2>2. f = block_merge(g, prevnode) /\ x = prevnode
    BY <1>7 DEF FrontMerged, FrontBlock
  <2>3. MergedWith(D, g, prevnode, n, f) /\ GoodHeap(f) /\ prevnode # n
    BY <1>2, <1>3, <1>4, <2>1, <2>2, MergeKeeps
  <2>4. DOMAIN f.node = D \ {n} /\ f.brk = h.brk
    <3>1. f \in HeapOn(D \ {n}) /\ f.brk = g.brk
      BY <2>3 DEF MergedWith
    <3> QED
      BY <1>3, <3>1, HeapFields
  <2>5. \A m \in D \ {n} :
          /\ f.node[m].free = g.node[m].free
          /\ m # prevnode => f.node[m].size = g.node[m].size
          /\ f.node[m].next = IF m = prevnode THEN g.node[n].next ELSE g.node[m].next
    <3>1. \A m \in D \ {n} : f.node[m].free = g.node[m].free
      BY <2>3, Zenon DEF MergedWith
    <3>2. \A m \in D \ {n} : m # prevnode => f.node[m].size = g.node[m].size
      BY <2>3, Zenon DEF MergedWith
    <3>3. \A m \in D \ {n} :
             f.node[m].next = IF m = prevnode THEN g.node[n].next ELSE g.node[m].next
      BY <2>3, Zenon DEF MergedWith
    <3> QED
      BY <3>1, <3>2, <3>3, Zenon
  <2>6. \A m \in D \ {n} :
          /\ f.node[m].free = h.node[m].free
          /\ m # prevnode => /\ f.node[m].size = h.node[m].size
                             /\ f.node[m].next = h.node[m].next
    <3>1. ASSUME NEW m \in D \ {n}
          PROVE  /\ f.node[m].free = h.node[m].free
                 /\ m # prevnode => /\ f.node[m].size = h.node[m].size
                                    /\ f.node[m].next = h.node[m].next
      <4>1. /\ g.node[m].free = h.node[m].free
            /\ g.node[m].next = h.node[m].next /\ g.node[m].size = h.node[m].size
        BY <1>4
      <4> QED
        BY <2>5, <4>1
    <3> QED
      BY <3>1
  <2>7. f.node[prevnode].next = nextnode /\ f.node[prevnode].free
    <3>1. n \in D /\ prevnode \in D \ {n}
      BY <1>1, <2>1, <2>3
    <3>2. g.node[n].next = nextnode
      BY <1>1, <1>4, <3>1
    <3> QED
      BY <2>1, <2>5, <3>1, <3>2
  <2>8. ASSUME NEW m \in D \ {n}, f.node[m].free, IsFree(f, f.node[m].next), m # prevnode
        PROVE  FALSE
    <3>1. PICK y : y = h.node[m].next
      OBVIOUS
    <3>2. h.node[m].free /\ y # NULL /\ f.node[y].free
      BY <2>6, <2>8, <3>1 DEF IsFree
    <3>3. y \in D
      BY <1>1, <3>1, <3>2, Neighbours
    <3>4. y # n
      BY <1>5, <2>8, <3>1
    <3>5. IsFree(h, y)
      BY <2>6, <3>2, <3>3, <3>4 DEF IsFree
    <3> QED
      BY <1>1, <3>1, <3>2, <3>5 DEF Separate
  <2>9. Kept(h, f, {n})
    <3>1. ASSUME NEW m \in D \ {n}, ~h.node[m].free
          PROVE  m \in DOMAIN f.node /\ ~f.node[m].free /\ f.node[m].size = h.node[m].size
      <4>1. m # prevnode
        BY <1>6, <2>1, <3>1
      <4> QED
        BY <2>4, <2>6, <3>1, <4>1
    <3> QED
      BY <1>1, <3>1 DEF Kept
  <2> QED
    BY <1>1, <1>6, <2>1, <2>2, <2>3, <2>4, <2>6, <2>7, <2>8, <2>9
<1>8. CASE ~IsFree(g, prevnode)
  <2>1. f = g /\ x = n
    BY <1>8 DEF FrontMerged, FrontBlock
  <2>2. ASSUME NEW m \in D, f.node[m].free, IsFree(f, f.node[m].next), m # n
        PROVE  FALSE
    <3>1. PICK y : y = h.node[m].next
      OBVIOUS
    <3>2. h.node[m].free /\ y # NULL /\ g.node[y].free
      <4>1. g.node[m].free /\ IsFree(g, g.node[m].next)
        BY <2>1, <2>2
      <4>2. g.node[m].next = y /\ (g.node[m].free <=> h.node[m].free)
        BY <1>4, <2>2, <3>1
      <4> QED
        BY <4>1, <4>2 DEF IsFree
    <3>3. y \in D
      BY <1>1, <3>1, <3>2, Neighbours
    <3>4. y # n
      <4>1. SUFFICES ASSUME y = n PROVE FALSE
        OBVIOUS
      <4>2. m = prevnode
        BY <1>5, <3>1, <4>1
      <4>3. m # NULL /\ g.node[m].free
        BY <1>1, <2>1, <2>2, InTiles
      <4> QED
        BY <1>8, <4>2, <4>3 DEF IsFree
    <3>5. IsFree(h, y)
      BY <1>4, <3>2, <3>3, <3>4 DEF IsFree
    <3> QED
      BY <1>1, <3>1, <3>2, <3>5 DEF Separate
  <2>3. Kept(h, f, {n})
    <3>1. ASSUME NEW m \in D \ {n}, ~h.node[m].free
          PROVE  m \in DOMAIN f.node /\ ~f.node[m].free /\ f.node[m].size = h.node[m].size
      <4>1. m \in D /\ m # n /\ m \in DOMAIN g.node
        BY <1>3, <3>1
      <4>2. g.node[m].free = h.node[m].free /\ g.node[m].size = h.node[m].size
        BY <1>4, <4>1
      <4> QED
        BY <2>1, <3>1, <4>1, <4>2
    <3> QED
      BY <1>1, <3>1 DEF Kept
  <2>4. f.node[n].next = nextnode /\ f.node[n].free
    BY <1>1, <1>4, <2>1
  <2>5. \A m \in D \ {n} : m \in DOMAIN f.node /\ f.node[m].free = h.node[m].free
    BY <1>3, <1>4, <2>1
  <2> QED
    BY <1>1, <1>2, <1>3, <1>6, <2>1, <2>2, <2>3, <2>4, <2>5
<1> QED
  BY <1>7, <1>8

LEMMA FreeKeeps ==
    ASSUME NULL \notin Int, NEW h, GoodHeap(h), Separate(h), NEW n, n \in DOMAIN h.node,
           ~h.node[n].free, NEW r, r = Free(h, n)
    PROVE  GoodHeap(r) /\ Separate(r) /\ r.brk = h.brk /\ Kept(h, r, {n})
<1>1. PICK g, prevnode, nextnode :
        g = PutOnList(h, n) /\ prevnode = h.node[n].prev /\ nextnode = h.node[n].next
  OBVIOUS
<1>2. PICK f, x : f = FrontMerged(g, prevnode) /\ x = FrontBlock(g, prevnode, n)
  OBVIOUS
<1>3. /\ GoodHeap(f) /\ f.brk = h.brk /\ Kept(h, f, {n})
      /\ x \in DOMAIN f.node /\ f.node[x].free /\ f.node[x].next = nextnode
      /\ \A m \in DOMAIN f.node : f.node[m].free /\ IsFree(f, f.node[m].next) => m = x
      /\ \A m \in DOMAIN h.node \ {n} : m \in DOMAIN f.node /\ f.node[m].free = h.node[m].free
      /\ \A m \in DOMAIN h.node : g.node[m].free <=> m = n \/ h.node[m].free
  <2>1. FrontIsMerged(h, n, g, f, x)
    BY <1>1, <1>2, FreeFirstMerge, Zenon
  <2> QED
    BY <1>1, <2>1 DEF FrontIsMerged
<1>4. r = IF IsFree(g, nextnode) THEN block_merge(f, x) ELSE f
  BY <1>1, <1>2 DEF Free, PutOnList, FrontMerged, FrontBlock
<1>5. nextnode \in DOMAIN h.node \cup {NULL} /\ nextnode # n
  BY <1>1, Neighbours
<1>6. IsFree(g, nextnode) <=> IsFree(f, nextnode)
  BY <1>3, <1>5 DEF IsFree
<1>7. CASE IsFree(g, nextnode)
  <2>1. nextnode # NULL /\ f.node[nextnode].free /\ r = block_merge(f, x)
    BY <1>4, <1>6, <1>7 DEF IsFree
  <2>2. GoodHeap(r) /\ Separate(r) /\ r.brk = f.brk /\ Kept(f, r, {})
    BY <1>3, <2>1, MergeSeparates
  <2>3. Kept(h, r, {n})
    BY <1>3, <2>2 DEF Kept
  <2> QED
    BY <1>3, <2>2, <2>3
<1>8. CASE ~IsFree(g, nextnode)
  <2>1. r = f /\ ~IsFree(f, nextnode)
    BY <1>4, <1>6, <1>8
  <2>2. Separate(f)
    BY <1>3, <2>1 DEF Separate
  <2> QED
    BY <1>3, <2>1, <2>2
<1> QED
  BY <1>7, <1>8
-----------------------------------------------------------------------------
(* The blocks of the program.                                              *)
Owned(h, lv) ==
    \A p \in DOMAIN lv : /\ p \in Int /\ node(p) \in DOMAIN h.node /\ ~h.node[node(p)].free
                         /\ lv[p] \in Nat /\ lv[p] <= h.node[node(p)].size

\* They lie in the heap and do not overlap.
LEMMA OwnedApart ==
    ASSUME NULL \notin Int, NEW h, GoodHeap(h), NEW lv, Owned(h, lv),
           NEW p \in DOMAIN lv, NEW q \in DOMAIN lv, p # q
    PROVE  p + lv[p] <= q \/ q + lv[q] <= p
<1>1. PICK D, sz, nx, pv :
        /\ D = DOMAIN h.node
        /\ sz = [m \in D |-> h.node[m].size]
        /\ nx = [m \in D |-> h.node[m].next]
        /\ pv = [m \in D |-> h.node[m].prev]
  OBVIOUS
<1>2. Tiles(D, h.head, h.tail, h.brk, sz, nx, pv)
  BY <1>1 DEF GoodHeap, Tiled
<1>3. PICK m, n : m = p - 7 /\ n = q - 7
  OBVIOUS
<1>4. /\ p \in Int /\ q \in Int /\ lv[p] \in Nat /\ lv[q] \in Nat
      /\ m \in D /\ n \in D /\ lv[p] <= sz[m] /\ lv[q] <= sz[n]
  <2>1. /\ p \in Int /\ node(p) \in D /\ lv[p] \in Nat /\ lv[p] <= h.node[node(p)].size
        /\ q \in Int /\ node(q) \in D /\ lv[q] \in Nat /\ lv[q] <= h.node[node(q)].size
    BY <1>1 DEF Owned
  <2>2. node(p) = m /\ node(q) = n
    BY <1>3 DEF node, HeaderSize
  <2> QED
    BY <1>1, <2>1, <2>2
<1>5. /\ m \in Nat /\ n \in Nat /\ sz[m] \in Nat /\ sz[n] \in Nat
      /\ m < n => m + 7 + sz[m] <= n
      /\ n < m => n + 7 + sz[n] <= m
  BY <1>2, <1>4 DEF Tiles
<1>6. m # n /\ p = m + 7 /\ q = n + 7
  BY <1>3, <1>4, <1>5
<1> QED
  BY <1>4, <1>5, <1>6

LEMMA OwnedInside ==
    ASSUME NULL \notin Int, NEW h, GoodHeap(h), NEW lv, Owned(h, lv), NEW p \in DOMAIN lv
    PROVE  p \in Nat /\ p <= h.brk
<1>1. PICK n : n = node(p)
  OBVIOUS
<1>2. p \in Int /\ n \in DOMAIN h.node
  BY <1>1 DEF Owned
<1>3. n \in Nat /\ h.node[n].size \in Nat /\ n + 7 + h.node[n].size <= h.brk
  BY <1>2, InTiles
<1>4. h.brk \in Nat
  <2>1. h \in HeapOn(DOMAIN h.node)
    BY DEF GoodHeap, Typed
  <2> QED
    BY <2>1, HeapFields
<1>5. p = n + 7
  BY <1>1, <1>2 DEF node, HeaderSize
<1> QED
  BY <1>3, <1>4, <1>5

\* others is a part of lv.
Part(others, lv) ==
    /\ DOMAIN others \subseteq DOMAIN lv
    /\ \A q \in DOMAIN others : others[q] = lv[q]

LEMMA KeptOwned ==
    ASSUME NEW h, NEW g, NEW lv, Owned(h, lv), NEW Lost, Kept(h, g, Lost), NEW others,
           Part(others, lv), \A q \in DOMAIN others : node(q) \notin Lost
    PROVE  Owned(g, others)
<1>1. ASSUME NEW q \in DOMAIN others
      PROVE  /\ q \in Int /\ node(q) \in DOMAIN g.node /\ ~g.node[node(q)].free
             /\ others[q] \in Nat /\ others[q] <= g.node[node(q)].size
  <2>1. PICK n : n = node(q)
    OBVIOUS
  <2>2. q \in DOMAIN lv /\ others[q] = lv[q] /\ n \notin Lost
    BY <1>1, <2>1 DEF Part
  <2>3. /\ q \in Int /\ n \in DOMAIN h.node /\ ~h.node[n].free
        /\ lv[q] \in Nat /\ lv[q] <= h.node[n].size
    BY <2>1, <2>2 DEF Owned
  <2>4. n \in DOMAIN g.node /\ ~g.node[n].free /\ g.node[n].size = h.node[n].size
    BY <2>2, <2>3 DEF Kept
  <2> QED
    BY <2>1, <2>2, <2>3, <2>4
<1> QED
  BY <1>1 DEF Owned

\* h has a used block of at least size words at p.
Holds(h, p, size) ==
    /\ p \in Int /\ node(p) \in DOMAIN h.node /\ ~h.node[node(p)].free
    /\ size \in Nat /\ size <= h.node[node(p)].size

LEMMA GrantOwned ==
    ASSUME NEW h, NEW others, Owned(h, others), NEW p, NEW size, Holds(h, p, size)
    PROVE  Owned(h, Granted(others, p, size))
BY DEF Owned, Holds, Granted

LEMMA MallocKeeps ==
    ASSUME NULL \notin Int, HeapLimit \in Nat, NEW h, GoodHeap(h), Separate(h), h.brk <= HeapLimit,
           NEW size, size \in Nat,
           NEW g, g = Malloc(h, size).heap, NEW p, p = Malloc(h, size).ptr, p # NULL
    PROVE  /\ GoodHeap(g) /\ Separate(g) /\ g.brk <= HeapLimit
           /\ Kept(h, g, {}) /\ Holds(g, p, size)
           /\ node(p) \in DOMAIN h.node => h.node[node(p)].free
<1>1. PICK fit : fit = FirstFit(h, size)
  OBVIOUS
<1>2. CASE fit # NULL
  <2>1. g = Take(h, fit, size) /\ p = h.node[fit].ptr
    BY <1>1, <1>2 DEF Malloc
  <2>2. fit \in DOMAIN h.node /\ h.node[fit].free /\ h.node[fit].size >= size
    BY <1>1, <1>2, FirstFitFits
  <2>3. /\ GoodHeap(g) /\ Separate(g) /\ g.brk = h.brk
        /\ fit \in DOMAIN g.node /\ ~g.node[fit].free /\ g.node[fit].size >= size
        /\ Kept(h, g, {})
    BY <2>1, <2>2, TakeKeeps
  <2>4. fit \in Nat /\ p = fit + 7
    BY <2>1, <2>2, InTiles
  <2>5. node(p) = fit /\ p \in Int
    BY <2>4 DEF node, HeaderSize
  <2>6. g.node[fit].size \in Nat
    BY <2>3, InTiles
  <2>7. Holds(g, p, size)
    BY <2>3, <2>5, <2>6 DEF Holds
  <2> QED
    BY <2>2, <2>3, <2>5, <2>7
<1>3. CASE fit = NULL
  <2>1. /\ CanGrow(h, HeaderSize + size) /\ g = add_node_to_tail(h, size)
        /\ p = h.brk + HeaderSize
    BY <1>1, <1>3 DEF Malloc
  <2>2. PICK n : n = h.brk
    OBVIOUS
  <2>3. /\ GoodHeap(g) /\ Separate(g) /\ g.brk = Behind(n, size)
        /\ n \in DOMAIN g.node /\ n \notin DOMAIN h.node
        /\ ~g.node[n].free /\ g.node[n].size = size
        /\ Kept(h, g, {})
    BY <2>1, <2>2, AppendSeparates
  <2>4. n \in Nat
    BY <2>3, InTiles
  <2>5. node(p) = n /\ p \in Int
    BY <2>1, <2>2, <2>4 DEF node, HeaderSize
  <2>6. g.brk <= HeapLimit
    BY <2>1, <2>2, <2>3, <2>4 DEF Behind, CanGrow, HeaderSize
  <2>7. Holds(g, p, size)
    BY <2>3, <2>5 DEF Holds
  <2> QED
    BY <2>3, <2>5, <2>6, <2>7
<1> QED
  BY <1>2, <1>3

-----------------------------------------------------------------------------
AllocInv == /\ GoodHeap(heap) /\ Separate(heap) /\ heap.brk <= HeapLimit
            /\ Owned(heap, live)

Asked == Sizes \cup {num * size : num \in Nums, size \in Sizes}

LEMMA AskedAreNumbers == Asked \subseteq Nat
<1>1. \A num \in Nums, size \in Sizes : num \in Nat /\ size \in Nat
  BY AllocAssumption
<1>2. \A num, size \in Nat : num * size \in Nat
  OBVIOUS
<1>3. ASSUME NEW a \in Asked PROVE a \in Nat
  <2>1. CASE a \in Sizes
    BY <2>1, AllocAssumption
  <2>2. CASE \E num \in Nums, size \in Sizes : a = num * size
    BY <1>1, <1>2, <2>2
  <2> QED
    BY <1>3, <2>1, <2>2 DEF Asked
<1> QED
  BY <1>3

LEMMA InvInit == Init => AllocInv
<1> SUFFICES ASSUME Init PROVE AllocInv
  OBVIOUS
<1>1. /\ heap = [node |-> [n \in {} |-> NULL],
                 head |-> NULL, tail |-> NULL, emhead |-> NULL, brk |-> 0]
      /\ live = [p \in {} |-> 0]
  BY DEF Init
<1>2. /\ heap.head = NULL /\ heap.tail = NULL /\ heap.emhead = NULL /\ heap.brk = 0
      /\ heap.node = [n \in {} |-> NULL] /\ DOMAIN heap.node = {} /\ DOMAIN live = {}
  BY <1>1
<1>3. Typed(heap)
  <2>1. heap.node \in [{} -> Header]
    BY <1>2
  <2> QED
    BY <1>1, <1>2, <2>1 DEF Typed, HeapOn, Links
<1>4. Tiled(heap)
  BY <1>2 DEF Tiled, Tiles
<1>5. Freed(heap) = {}
  BY <1>2 DEF Freed
<1>6. FreeListed(heap)
  BY <1>2, <1>5 DEF FreeListed, LinkedList
<1>7. heap.brk <= HeapLimit
  BY <1>2, AllocAssumption
<1> QED
  BY <1>2, <1>3, <1>4, <1>6, <1>7 DEF AllocInv, GoodHeap, Pointers, Separate, Owned
\* The step of the contract in which p is given.
Gives(p, size, others) ==
    /\ p \in 0..HeapLimit /\ size \in Asked
    /\ \A q \in DOMAIN others :
         /\ q \in DOMAIN live /\ others[q] = live[q] /\ p # q
         /\ p + size <= q \/ q + live[q] <= p
    /\ live' = Granted(others, p, size)

LEMMA GivesIsGranted ==
    ASSUME NEW p, NEW size, NEW others, Gives(p, size, others)
    PROVE  p \in DOMAIN live' /\ Contract!Granted(p, DOMAIN others)
<1>1. /\ live' = [q \in DOMAIN others \cup {p} |-> IF q = p THEN size ELSE others[q]]
      /\ p \in 0..HeapLimit /\ size \in Asked
      /\ \A q \in DOMAIN others : /\ others[q] = live[q] /\ p # q
                                  /\ p + size <= q \/ q + live[q] <= p
  BY DEF Gives, Granted
<1>2. DOMAIN live' = DOMAIN others \cup {p} /\ live'[p] = size
  BY <1>1
<1>3. live' = [q \in DOMAIN others \cup {p} |-> IF q = p THEN live'[p] ELSE live[q]]
  BY <1>1, <1>2
<1>4. Contract!Fits(p, live'[p], DOMAIN others)
  BY <1>1, <1>2 DEF Contract!Fits, Contract!Apart
<1> QED
  BY <1>1, <1>2, <1>3, <1>4 DEF Contract!Granted, Asked

LEMMA GivenInside ==
    ASSUME NULL \notin Int, HeapLimit \in Nat, NEW g, GoodHeap(g), g.brk <= HeapLimit,
           NEW others, Part(others, live), NEW p, NEW size, size \in Asked, p \notin DOMAIN others,
           Owned(g, Granted(others, p, size)), live' = Granted(others, p, size)
    PROVE  Gives(p, size, others)
<1>1. PICK lv : lv = Granted(others, p, size)
  OBVIOUS
<1>2. DOMAIN lv = DOMAIN others \cup {p} /\ lv[p] = size
  BY <1>1 DEF Granted
<1>3. \A q \in DOMAIN others : lv[q] = live[q] /\ others[q] = live[q] /\ q \in DOMAIN live
  BY <1>1 DEF Granted, Part
<1>4. p \in Nat /\ p <= g.brk
  BY <1>1, <1>2, OwnedInside
<1>5. g.brk \in Nat
  <2>1. g \in HeapOn(DOMAIN g.node)
    BY DEF GoodHeap, Typed
  <2> QED
    BY <2>1, HeapFields
<1>6. p \in 0..HeapLimit
  BY <1>4, <1>5
<1>7. ASSUME NEW q \in DOMAIN others
      PROVE  p # q /\ (p + size <= q \/ q + live[q] <= p)
  <2>1. p # q
    BY <1>7
  <2>2. p + lv[p] <= q \/ q + lv[q] <= p
    BY <1>1, <1>2, <2>1, OwnedApart
  <2> QED
    BY <1>2, <1>3, <2>1, <2>2
<1> QED
  BY <1>3, <1>6, <1>7 DEF Gives

\* The end of malloc, calloc and realloc: the program has a block more, or
\* nothing changes but outcome.
LEMMA GiveStep ==
    ASSUME AllocInv, NEW size, size \in Asked, NEW others, Part(others, live),
           Give(Malloc(heap, size), size, others)
    PROVE  /\ AllocInv'
           /\ (\E p : Gives(p, size, others)) \/ UNCHANGED live
<1>0. NULL \notin Int /\ HeapLimit \in Nat /\ size \in Nat
  BY AllocAssumption, AskedAreNumbers
<1>1. CASE Malloc(heap, size).ptr = NULL
  <2>1. UNCHANGED <<heap, live>>
    BY <1>1 DEF Give
  <2> QED
    BY <2>1 DEF AllocInv
<1>2. CASE Malloc(heap, size).ptr # NULL
  <2>1. PICK g, p : g = Malloc(heap, size).heap /\ p = Malloc(heap, size).ptr
    OBVIOUS
  <2>2. heap' = g /\ live' = Granted(others, p, size)
    BY <1>2, <2>1 DEF Give
  <2>3. /\ GoodHeap(g) /\ Separate(g) /\ g.brk <= HeapLimit
        /\ Kept(heap, g, {}) /\ Holds(g, p, size)
        /\ node(p) \in DOMAIN heap.node => heap.node[node(p)].free
    BY <1>0, <1>2, <2>1, MallocKeeps DEF AllocInv
  <2>4. Owned(g, others)
    BY <2>3, KeptOwned DEF AllocInv
  <2>5. Owned(g, Granted(others, p, size))
    BY <2>3, <2>4, GrantOwned
  <2>6. p \notin DOMAIN others
    BY <2>3 DEF AllocInv, Owned, Part
  <2>7. Gives(p, size, others)
    BY <1>0, <2>2, <2>3, <2>5, <2>6, GivenInside
  <2>8. AllocInv'
    BY <2>2, <2>3, <2>5 DEF AllocInv
  <2> QED
    BY <2>7, <2>8
<1> QED
  BY <1>1, <1>2
ContractStep == Contract!Allocate \/ Contract!Deallocate \/ Contract!Resize

\* malloc, calloc and realloc(NULL, size).
LEMMA MallocStep ==
    ASSUME AllocInv, NEW size, size \in Asked, malloc(size)
    PROVE  AllocInv' /\ [ContractStep]_live
<1>1. PICK lv : lv = live
  OBVIOUS
<1>2. Part(live, live)
  BY DEF Part
<1>3. Give(Malloc(heap, size), size, live)
  BY DEF malloc
<1>4. AllocInv' /\ ((\E p : Gives(p, size, live)) \/ UNCHANGED live)
  BY <1>2, <1>3, GiveStep
<1>5. ASSUME NEW p, Gives(p, size, live) PROVE Contract!Allocate
  BY <1>5, GivesIsGranted DEF Contract!Allocate
<1> QED
  BY <1>4, <1>5 DEF ContractStep

\* The other blocks when the one at p is given up.
Others(p) == Restrict(live, DOMAIN live \ {p})

LEMMA OthersArePart ==
    ASSUME NEW p
    PROVE  Part(Others(p), live) /\ DOMAIN Others(p) = DOMAIN live \ {p}
BY DEF Others, Part, Restrict

LEMMA FreeStep ==
    ASSUME AllocInv, NEW p, p \in DOMAIN live, free(p)
    PROVE  AllocInv' /\ [ContractStep]_live
<1>0. NULL \notin Int
  BY AllocAssumption
<1>1. PICK n, g : n = node(p) /\ g = Free(heap, n)
  OBVIOUS
<1>2. heap' = g /\ live' = Others(p)
  BY <1>1 DEF free, node, Others
<1>3. n \in DOMAIN heap.node /\ ~heap.node[n].free
  BY <1>1 DEF AllocInv, Owned
<1>4. GoodHeap(g) /\ Separate(g) /\ g.brk = heap.brk /\ Kept(heap, g, {n})
  BY <1>0, <1>1, <1>3, FreeKeeps DEF AllocInv
<1>5. ASSUME NEW q \in DOMAIN Others(p) PROVE node(q) \notin {n}
  <2>1. q \in Int /\ p \in Int /\ q # p
    BY <1>5, OthersArePart DEF AllocInv, Owned
  <2> QED
    BY <1>1, <2>1 DEF node, HeaderSize
<1>6. Owned(g, Others(p))
  BY <1>4, <1>5, KeptOwned, OthersArePart DEF AllocInv
<1>7. AllocInv'
  BY <1>2, <1>4, <1>6 DEF AllocInv
<1>8. Contract!Deallocate
  BY <1>2 DEF Contract!Deallocate, Others, Restrict, Contract!Restrict
<1> QED
  BY <1>7, <1>8 DEF ContractStep

\* realloc gives p back as q.
LEMMA GivesIsResize ==
    ASSUME NEW p, p \in DOMAIN live, NEW q, NEW size, Gives(q, size, Others(p))
    PROVE  Contract!Resize
<1>1. q \in DOMAIN live' /\ Contract!Granted(q, DOMAIN Others(p))
  BY GivesIsGranted
<1>2. DOMAIN Others(p) = DOMAIN live \ {p}
  BY OthersArePart
<1> QED
  BY <1>1, <1>2 DEF Contract!Resize

\* The block at p has size words now, in the same place.
LEMMA ResizeInPlace ==
    ASSUME AllocInv, NEW p, p \in DOMAIN live, NEW size, size \in Asked,
           GoodHeap(heap'), Separate(heap'), heap'.brk <= HeapLimit,
           Kept(heap, heap', {node(p)}), Holds(heap', p, size),
           live' = Granted(live, p, size)
    PROVE  AllocInv' /\ Contract!Resize
<1>0. NULL \notin Int /\ HeapLimit \in Nat
  BY AllocAssumption
<1>1. PICK g, others : g = heap' /\ others = Others(p)
  OBVIOUS
<1>2. Part(others, live) /\ DOMAIN others = DOMAIN live \ {p}
  BY <1>1, OthersArePart
<1>3. live' = Granted(others, p, size)
  <2>1. DOMAIN others \cup {p} = DOMAIN live \cup {p}
    BY <1>2
  <2>2. \A q \in DOMAIN live \cup {p} : q # p => others[q] = live[q]
    BY <1>2 DEF Part
  <2> QED
    BY <2>1, <2>2 DEF Granted
<1>4. ASSUME NEW q \in DOMAIN others PROVE node(q) \notin {node(p)}
  <2>1. q \in Int /\ p \in Int /\ q # p
    BY <1>2, <1>4 DEF AllocInv, Owned
  <2> QED
    BY <2>1 DEF node, HeaderSize
<1>5. Owned(g, others)
  BY <1>1, <1>2, <1>4, KeptOwned DEF AllocInv
<1>6. Owned(g, Granted(others, p, size))
  BY <1>1, <1>5, GrantOwned
<1>7. Gives(p, size, others)
  <2>1. p \notin DOMAIN others
    BY <1>2
  <2> QED
    BY <1>0, <1>1, <1>2, <1>3, <1>6, <2>1, GivenInside
<1>8. Contract!Resize
  BY <1>1, <1>7, GivesIsResize
<1> QED
  BY <1>1, <1>3, <1>6, <1>8 DEF AllocInv

LEMMA StayStep ==
    ASSUME AllocInv, NEW p, p \in DOMAIN live, NEW size, size \in Asked, reallocStay(p, size)
    PROVE  AllocInv' /\ [ContractStep]_live
<1>1. /\ heap.node[node(p)].size >= size /\ heap' = heap /\ live' = Granted(live, p, size)
  BY DEF reallocStay, Enough
<1>2. size \in Nat
  BY AskedAreNumbers
<1>3. Holds(heap, p, size)
  <2>1. /\ p \in Int /\ node(p) \in DOMAIN heap.node /\ ~heap.node[node(p)].free
    BY DEF AllocInv, Owned
  <2>2. heap.node[node(p)].size \in Nat
    BY <2>1, AllocAssumption, InTiles DEF AllocInv
  <2> QED
    BY <1>1, <1>2, <2>1, <2>2 DEF Holds
<1>4. Kept(heap, heap, {node(p)})
  BY DEF Kept
<1>5. /\ GoodHeap(heap') /\ Separate(heap') /\ heap'.brk <= HeapLimit
      /\ Kept(heap, heap', {node(p)}) /\ Holds(heap', p, size)
  BY <1>1, <1>3, <1>4 DEF AllocInv
<1>6. AllocInv' /\ Contract!Resize
  BY <1>1, <1>5, ResizeInPlace
<1> QED
  BY <1>6 DEF ContractStep

LEMMA TailStep ==
    ASSUME AllocInv, NEW p, p \in DOMAIN live, NEW size, size \in Asked, reallocTail(p, size)
    PROVE  AllocInv' /\ [ContractStep]_live
<1>1. PICK n, more : n = node(p) /\ more = size - heap.node[n].size
  OBVIOUS
<1>2. ~(heap.node[n].size >= size) /\ n = heap.tail
  BY <1>1 DEF reallocTail, Enough
<1>3. CASE CanGrow(heap, more)
  <2>1. /\ heap' = GrowLast(heap, n, size) /\ live' = Granted(live, p, size)
    BY <1>1, <1>3 DEF reallocTail, GrowLast
  <2>2. p \in Int /\ n \in DOMAIN heap.node /\ ~heap.node[n].free
    BY <1>1 DEF AllocInv, Owned
  <2>3. heap.node[n].size \in Nat /\ size \in Nat
    BY <2>2, AllocAssumption, AskedAreNumbers, InTiles DEF AllocInv
  <2>4. size > heap.node[n].size
    BY <1>2, <2>3
  <2>5. PICK g : g = GrowLast(heap, n, size)
    OBVIOUS
  <2>6. /\ GoodHeap(g) /\ Separate(g) /\ g.brk = GrownEnd(heap, n, size)
        /\ n \in DOMAIN g.node /\ g.node[n].free = heap.node[n].free /\ g.node[n].size = size
        /\ Kept(heap, g, {n})
    <3>1. NULL \notin Int /\ GoodHeap(heap) /\ Separate(heap)
      BY AllocAssumption DEF AllocInv
    <3>2. Lengthens(heap, n, size)
      BY <1>2, <2>2, <2>3, <2>4 DEF Lengthens
    <3> QED
      BY <2>5, <3>1, <3>2, GrowSeparates
  <2>7. g.brk <= HeapLimit
    BY <1>1, <1>3, <2>6 DEF CanGrow, GrownEnd
  <2>8. Holds(g, p, size)
    BY <1>1, <2>2, <2>3, <2>6 DEF Holds
  <2>9. /\ GoodHeap(heap') /\ Separate(heap') /\ heap'.brk <= HeapLimit
        /\ Kept(heap, heap', {node(p)}) /\ Holds(heap', p, size)
    BY <1>1, <2>1, <2>5, <2>6, <2>7, <2>8
  <2>10. AllocInv' /\ Contract!Resize
    BY <2>1, <2>9, ResizeInPlace
  <2> QED
    BY <2>10 DEF ContractStep
<1>4. CASE ~CanGrow(heap, more)
  <2>1. UNCHANGED <<heap, live>>
    BY <1>1, <1>4 DEF reallocTail
  <2> QED
    BY <2>1 DEF AllocInv
<1> QED
  BY <1>3, <1>4

LEMMA MoveStep ==
    ASSUME AllocInv, NEW p, p \in DOMAIN live, NEW size, size \in Asked, reallocMove(p, size)
    PROVE  AllocInv' /\ [ContractStep]_live
<1>1. Part(Others(p), live)
  BY OthersArePart
<1>2. Give(Malloc(heap, size), size, Others(p)) \/ UNCHANGED <<heap, live>>
  BY DEF reallocMove, Others
<1>3. CASE Give(Malloc(heap, size), size, Others(p))
  <2>1. AllocInv' /\ ((\E q : Gives(q, size, Others(p))) \/ UNCHANGED live)
    BY <1>1, <1>3, GiveStep
  <2> QED
    BY <2>1, GivesIsResize DEF ContractStep
<1>4. CASE UNCHANGED <<heap, live>>
  BY <1>4 DEF AllocInv
<1> QED
  BY <1>2, <1>3, <1>4

LEMMA NextStep ==
    ASSUME AllocInv, [Next]_vars
    PROVE  AllocInv' /\ [ContractStep]_live
<1>1. \A size \in Sizes : size \in Asked
  BY DEF Asked
<1>2. \A num \in Nums, size \in Sizes : num * size \in Asked
  BY DEF Asked
<1>3. ASSUME NEW size \in Sizes, malloc(size) \/ reallocNew(size)
      PROVE  AllocInv' /\ [ContractStep]_live
  BY <1>1, <1>3, MallocStep DEF reallocNew
<1>4. ASSUME NEW num \in Nums, NEW size \in Sizes, calloc(num, size)
      PROVE  AllocInv' /\ [ContractStep]_live
  BY <1>2, <1>4, MallocStep DEF calloc
<1>5. ASSUME NEW p \in DOMAIN live, free(p) \/ reallocZero(p)
      PROVE  AllocInv' /\ [ContractStep]_live
  BY <1>5, FreeStep DEF reallocZero
<1>6. ASSUME NEW p \in DOMAIN live, NEW size \in Sizes,
             reallocStay(p, size) \/ reallocTail(p, size) \/ reallocMove(p, size)
      PROVE  AllocInv' /\ [ContractStep]_live
  BY <1>1, <1>6, StayStep, TailStep, MoveStep
<1>7. CASE UNCHANGED vars
  BY <1>7 DEF vars, AllocInv
<1> QED
  BY <1>3, <1>4, <1>5, <1>6, <1>7 DEF Next, Call, Stopped

THEOREM Invariance == Spec => []AllocInv
<1>1. AllocInv /\ [Next]_vars => AllocInv'
  BY NextStep
<1> QED
  BY InvInit, <1>1, PTL DEF Spec

-----------------------------------------------------------------------------
(* The blocks cover the heap without a gap or an overlap, whatever was     *)
(* split (57-89), merged (91-115) and extended (342-345).                  *)
THEOREM BlocksTileTheHeap == Spec => []HeapTiled
<1>1. AllocInv => HeapTiled
  <2> SUFFICES ASSUME AllocInv PROVE HeapTiled
    OBVIOUS
  <2>1. PICK D, sz, nx, pv :
          /\ D = Headers
          /\ sz = [m \in D |-> heap.node[m].size]
          /\ nx = [m \in D |-> heap.node[m].next]
          /\ pv = [m \in D |-> heap.node[m].prev]
    OBVIOUS
  <2>2. Tiles(D, heap.head, heap.tail, heap.brk, sz, nx, pv)
    BY <2>1 DEF AllocInv, GoodHeap, Tiled, Headers
  <2>3. \A n \in D : End(n) = n + 7 + sz[n]
    BY <2>1 DEF End, HeaderSize
  <2>4. NULL # 0 /\ NULL \notin D
    BY <2>2, AllocAssumption DEF Tiles
  <2>5. /\ heap.head = NULL <=> D = {}
        /\ heap.tail = NULL <=> D = {}
        /\ heap.head # NULL => heap.head = 0 /\ 0 \in D /\ pv[0] = NULL
    BY <2>2, <2>4 DEF Tiles
  <2>6. ASSUME NEW n \in D
        PROVE  IF n = heap.tail
               THEN heap.node[n].next = NULL /\ End(n) = heap.brk
               ELSE heap.node[n].next = End(n) /\ heap.node[End(n)].prev = n
    <3>1. heap.node[n].next = nx[n] /\ End(n) = n + 7 + sz[n]
      BY <2>1, <2>3
    <3>2. CASE n = heap.tail
      <4>1. nx[n] = NULL /\ n + 7 + sz[n] = heap.brk
        BY <2>2, <3>2 DEF Tiles
      <4> QED
        BY <3>1, <3>2, <4>1
    <3>3. CASE n # heap.tail
      <4>1. nx[n] \in D
        BY <2>2, <3>3 DEF Tiles
      <4>2. nx[n] = End(n) /\ pv[nx[n]] = n
        BY <2>2, <3>1, <4>1 DEF Tiles
      <4> QED
        BY <2>1, <3>1, <3>3, <4>1, <4>2
    <3> QED
      BY <3>2, <3>3
  <2> QED
    BY <2>1, <2>5, <2>6 DEF HeapTiled
<1> QED
  BY Invariance, <1>1, PTL

(* The walk of malloc along the free list (206-223) comes to each free     *)
(* block and to no other, and the links back are right.                    *)
THEOREM FreeListIsExact == Spec => []FreeListExact
<1>1. AllocInv => FreeListExact
  <2> SUFFICES ASSUME AllocInv PROVE FreeListExact
    OBVIOUS
  <2>1. PICK freed : freed = Freed(heap)
    OBVIOUS
  <2>2. Walk(heap, Headers) = freed
    BY <2>1, AllocAssumption, WalkIsWhole DEF AllocInv, Headers
  <2>3. /\ \A m \in freed : heap.node[m].nextfree \in freed \cup {NULL}
        /\ heap.emhead # NULL => heap.node[heap.emhead].prevfree = NULL
        /\ \A m \in freed : heap.node[m].nextfree # NULL =>
                              heap.node[heap.node[m].nextfree].prevfree = m
    BY <2>1, AllocAssumption, FreeLinks DEF AllocInv
  <2>4. freed = {n \in Headers : heap.node[n].free}
    BY <2>1 DEF Freed, Headers
  <2> QED
    BY <2>2, <2>3, <2>4 DEF FreeListExact
<1> QED
  BY Invariance, <1>1, PTL

(* free merges as soon as it can (260-275), so that free memory does not   *)
(* stay in pieces.                                                         *)
THEOREM FreeBlocksAreApart == Spec => []NoFreeNeighbours
<1>1. AllocInv => NoFreeNeighbours
  BY DEF AllocInv, Separate, NoFreeNeighbours, Headers
<1> QED
  BY Invariance, <1>1, PTL

(* The allocator does for its program what the contract promises: blocks   *)
(* of the size asked for that do not overlap, until they are given back.   *)
THEOREM Refinement == Spec => ImplementsContract
<1>1. Init => live = [p \in {} |-> 0]
  BY DEF Init
<1>2. AllocInv /\ [Next]_vars => [Contract!Allocate \/ Contract!Deallocate \/ Contract!Resize]_live
  BY NextStep DEF ContractStep
<1> QED
  BY Invariance, <1>1, <1>2, PTL DEF Spec, ImplementsContract, Contract!HeapSpec
=============================================================================
