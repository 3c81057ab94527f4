-------------------------- MODULE RadixRouterProofs --------------------------
(***************************************************************************)
(* What add_route makes, for any patterns in any order: radix trees, whose *)
(* special nodes stand where segments start.                               *)
(***************************************************************************)
EXTENDS RadixRouter, Induction, SequenceTheorems

-----------------------------------------------------------------------------
(* Trees of texts.  W[n] is the method of node n and the text that leads   *)
(* to it, K[n] its children.                                               *)

\* s is a proper prefix of t.
Begins(s, t) == Len(s) < Len(t) /\ \A i \in 1..Len(s) : s[i] = t[i]

\* Node d lies below node n.
Below(W, n, d) ==
  W[d].method = W[n].method /\ Begins(W[n].shape, W[d].shape)

\* The symbol that leads from n on to d.
Towards(W, n, d) == W[d].shape[Len(W[n].shape) + 1]

\* Children lie below their node and each begins with another symbol, from a
\* node a child leads on to all that lies below, and no two nodes stand at
\* one place.
Tree(W, K) ==
  /\ \A n \in DOMAIN W : \A c \in K[n] : c \in DOMAIN W /\ Below(W, n, c)
  /\ \A n \in DOMAIN W : \A c, d \in K[n] :
       Towards(W, n, c) = Towards(W, n, d) => c = d
  /\ \A n, d \in DOMAIN W :
       Below(W, n, d) => \E c \in K[n] : c = d \/ Below(W, c, d)
  /\ \A n, d \in DOMAIN W : W[n] = W[d] => n = d

Places == [method : Methods, shape : Texts]

\* Every node has a place.
LEMMA PlaceTypes ==
  ASSUME NEW W \in Seq(Places), NEW n \in DOMAIN W
  PROVE  /\ W[n] \in Places /\ W[n].method \in Methods
         /\ W[n].shape \in Seq(STRING) /\ Len(W[n].shape) \in Nat
  <1>1. W[n] \in Places OBVIOUS
  <1> QED BY <1>1 DEF Places, Texts

\* Two nodes of a method at the same text are at one place.
LEMMA SamePlace ==
  ASSUME NEW a \in Places, NEW b \in Places, a.method = b.method,
         Len(a.shape) = Len(b.shape),
         \A i \in 1..Len(a.shape) : a.shape[i] = b.shape[i]
  PROVE  a = b
  <1>1. a.shape \in Seq(STRING) /\ b.shape \in Seq(STRING) BY DEF Places, Texts
  <1>2. a.shape = b.shape BY <1>1, SeqEqual
  <1> QED BY <1>2 DEF Places

\* Of two prefixes of a text one is a prefix of the other.
LEMMA Comparable ==
  ASSUME NEW W \in Seq(Places), NEW n \in DOMAIN W, NEW d \in DOMAIN W,
         NEW x \in DOMAIN W, Below(W, n, x), Below(W, d, x)
  PROVE  W[n] = W[d] \/ Below(W, n, d) \/ Below(W, d, n)
  <1>1. W[n] \in Places /\ W[d] \in Places /\ W[x] \in Places OBVIOUS
  <1>2. Len(W[n].shape) \in Nat /\ Len(W[d].shape) \in Nat BY <1>1 DEF Places, Texts
  <1>3. CASE Len(W[n].shape) = Len(W[d].shape)
    <2>1. \A i \in 1..Len(W[n].shape) : W[n].shape[i] = W[d].shape[i]
      BY <1>3 DEF Below, Begins
    <2> QED BY <1>1, <1>3, <2>1, SamePlace DEF Below
  <1>4. CASE Len(W[n].shape) < Len(W[d].shape)
    BY <1>2, <1>4 DEF Below, Begins
  <1>5. CASE Len(W[d].shape) < Len(W[n].shape)
    BY <1>2, <1>5 DEF Below, Begins
  <1> QED BY <1>2, <1>3, <1>4, <1>5

\* Below is transitive and a way to a node is the way to all below it.
LEMMA BelowBelow ==
  ASSUME NEW W \in Seq(Places), NEW n \in DOMAIN W, NEW d \in DOMAIN W,
         NEW x \in DOMAIN W, Below(W, n, d), Below(W, d, x)
  PROVE  Below(W, n, x) /\ Towards(W, n, d) = Towards(W, n, x)
  <1>1. W[n] \in Places /\ W[d] \in Places /\ W[x] \in Places OBVIOUS
  <1>2. /\ Len(W[n].shape) \in Nat /\ Len(W[d].shape) \in Nat
        /\ Len(W[x].shape) \in Nat
    BY <1>1 DEF Places, Texts
  <1>3. Len(W[n].shape) < Len(W[d].shape) /\ Len(W[d].shape) < Len(W[x].shape)
    BY DEF Below, Begins
  <1>4. Len(W[n].shape) + 1 \in 1..Len(W[d].shape) BY <1>2, <1>3
  <1>5. Towards(W, n, d) = Towards(W, n, x)
    BY <1>4 DEF Below, Begins, Towards
  <1> QED BY <1>2, <1>3, <1>5 DEF Below, Begins

\* No node lies below itself, or below one that lies below it.
LEMMA NotBelow ==
  ASSUME NEW W \in Seq(Places), NEW n \in DOMAIN W, NEW d \in DOMAIN W,
         Below(W, n, d)
  PROVE  W[n] # W[d] /\ ~Below(W, d, n)
  <1>1. W[n] \in Places /\ W[d] \in Places OBVIOUS
  <1>2. Len(W[n].shape) \in Nat /\ Len(W[d].shape) \in Nat
    BY <1>1 DEF Places, Texts
  <1> QED BY <1>2 DEF Below, Begins

\* A node is a child of one node only.
LEMMA OneParent ==
  ASSUME NEW W \in Seq(Places), NEW K, Tree(W, K),
         NEW n \in DOMAIN W, NEW d \in DOMAIN W, NEW x \in K[n], x \in K[d]
  PROVE  n = d
  <1>1. x \in DOMAIN W /\ Below(W, n, x) /\ Below(W, d, x) BY DEF Tree
  <1>2. ASSUME NEW a \in DOMAIN W, NEW b \in DOMAIN W, x \in K[a], x \in K[b],
               Below(W, a, b)
        PROVE  FALSE
    <2>1. PICK c \in K[a] : c = b \/ Below(W, c, b) BY <1>2 DEF Tree
    <2>2. /\ c \in DOMAIN W /\ Below(W, a, c) /\ Below(W, b, x)
          /\ Below(W, a, x)
      BY <1>2, <2>1 DEF Tree
    <2>3. /\ W[a] \in Places /\ W[b] \in Places /\ W[c] \in Places
          /\ W[x] \in Places
      BY <1>1, <2>2
    <2>4. /\ Len(W[a].shape) \in Nat /\ Len(W[b].shape) \in Nat
          /\ Len(W[c].shape) \in Nat /\ Len(W[x].shape) \in Nat
      BY SMTT(30), <2>3 DEF Places, Texts
    <2>5. Len(W[c].shape) < Len(W[x].shape)
      BY SMTT(30), <2>1, <2>2, <2>4 DEF Below, Begins
    <2>6. Towards(W, a, c) = Towards(W, a, x)
      <3>1. Len(W[a].shape) + 1 \in 1..Len(W[c].shape)
        BY <2>2, <2>4 DEF Below, Begins
      <3> DEFINE k == Len(W[a].shape) + 1
      <3>2. W[c].shape[k] = W[b].shape[k]
        BY <2>1, <3>1 DEF Below, Begins
      <3>3. k \in 1..Len(W[b].shape)
        BY SMTT(30), <2>1, <2>4, <3>1 DEF Below, Begins
      <3>4. W[b].shape[k] = W[x].shape[k] BY <2>2, <3>3 DEF Below, Begins
      <3> QED BY <3>2, <3>4 DEF Towards
    <2>7. c = x BY <1>2, <2>6 DEF Tree
    <2> QED BY <2>4, <2>5, <2>7
  <1>3. W[n] = W[d] \/ Below(W, n, d) \/ Below(W, d, n) BY <1>1, Comparable
  <1> QED BY <1>2, <1>3 DEF Tree

\* Node n gets a child x at text w, with whose first symbol no child begins.
Grown(W, K, n, w, V, L, x) ==
  /\ W \in Seq(Places) /\ V \in Seq(Places)
  /\ n \in DOMAIN W /\ w \in Texts /\ w # <<>>
  /\ DOMAIN V = DOMAIN W \cup {x} /\ x \notin DOMAIN W
  /\ \A a \in DOMAIN W : V[a] = W[a]
  /\ V[x] = [method |-> W[n].method, shape |-> W[n].shape \o w]
  /\ \A a \in DOMAIN W : L[a] = IF a = n THEN K[a] \cup {x} ELSE K[a]
  /\ L[x] = {}
  /\ \A c \in K[n] : Towards(W, n, c) # Head(w)

\* That makes a tree of a tree.
LEMMA NewLeaf ==
  ASSUME NEW W, NEW K, Tree(W, K), NEW n, NEW w, NEW V, NEW L, NEW x,
         Grown(W, K, n, w, V, L, x)
  PROVE  Tree(V, L)
  <1>0. /\ W \in Seq(Places) /\ V \in Seq(Places)
        /\ n \in DOMAIN W /\ w \in Texts /\ w # <<>>
        /\ DOMAIN V = DOMAIN W \cup {x} /\ x \notin DOMAIN W
        /\ \A a \in DOMAIN W : V[a] = W[a]
        /\ V[x] = [method |-> W[n].method, shape |-> W[n].shape \o w]
        /\ \A a \in DOMAIN W : L[a] = IF a = n THEN K[a] \cup {x} ELSE K[a]
        /\ L[x] = {}
        /\ \A c \in K[n] : Towards(W, n, c) # Head(w)
    BY DEF Grown
  <1> USE <1>0
  <1> DEFINE Size(a) == Len(V[a].shape)
  <1>1. /\ DOMAIN V = DOMAIN W \cup {x} /\ x \notin DOMAIN W
        /\ \A a \in DOMAIN W : V[a] = W[a]
        /\ V[x] = [method |-> W[n].method, shape |-> W[n].shape \o w]
    OBVIOUS
  <1>2. \A a \in DOMAIN V : V[a] \in Places /\ Size(a) \in Nat
    BY PlaceTypes
  <1>3. /\ V[x].method = W[n].method
        /\ w \in Seq(STRING) /\ Len(w) \in Nat \ {0} /\ Head(w) = w[1]
        /\ Size(x) = Size(n) + Len(w)
        /\ \A i \in 1..Size(n) : V[x].shape[i] = V[n].shape[i]
        /\ V[x].shape[Size(n) + 1] = Head(w)
    <2>1. W[n].shape \in Seq(STRING) /\ w \in Seq(STRING)
      BY PlaceTypes DEF Texts
    <2>2. V[x].shape = W[n].shape \o w /\ V[n] = W[n] BY <1>1
    <2>3. /\ Len(w) \in Nat \ {0} /\ Head(w) = w[1]
          /\ Len(W[n].shape \o w) = Len(W[n].shape) + Len(w)
          /\ \A i \in 1..Len(W[n].shape) : (W[n].shape \o w)[i] = W[n].shape[i]
          /\ (W[n].shape \o w)[Len(W[n].shape) + 1] = w[1]
      BY <2>1
    <2>4. V[x].method = W[n].method BY <1>1
    <2> QED BY <2>1, <2>2, <2>3, <2>4
  <1>4. /\ \A a, b \in DOMAIN W : Below(V, a, b) <=> Below(W, a, b)
        /\ \A a, b \in DOMAIN W : Towards(V, a, b) = Towards(W, a, b)
    BY <1>1 DEF Below, Towards
  <1>5. Below(V, n, x) /\ Towards(V, n, x) = Head(w)
    <2>1. V[x].method = V[n].method BY <1>1, <1>3
    <2>2. Size(n) < Size(x) BY <1>1, <1>2, <1>3
    <2> QED BY <1>3, <2>1, <2>2 DEF Below, Begins, Towards
  <1>6. ASSUME NEW a \in DOMAIN W, Below(V, n, a), Towards(V, n, a) = Head(w)
        PROVE  FALSE
    <2>1. PICK c \in K[n] : c = a \/ Below(W, c, a) BY <1>4, <1>6 DEF Tree
    <2>2. c \in DOMAIN W /\ Below(V, n, c) BY <1>4, <2>1 DEF Tree
    <2>3. c = a \/ Below(V, c, a) BY <1>4, <2>1, <2>2
    <2>4. Towards(V, n, c) = Towards(V, n, a)
      <3>1. Size(n) + 1 \in 1..Size(c) BY <1>1, <1>2, <2>2 DEF Below, Begins
      <3> QED BY <1>1, <1>2, <2>3, <3>1 DEF Below, Begins, Towards
    <2> QED BY <1>4, <1>6, <2>2, <2>4
  <1> HIDE DEF Size
  <1>7. \A a \in DOMAIN V : \A c \in L[a] : c \in DOMAIN V /\ Below(V, a, c)
    <2> TAKE a \in DOMAIN V
    <2> TAKE c \in L[a]
    <2>1. CASE a = x BY <2>1
    <2>2. CASE c = x
      <3>1. a \in DOMAIN W BY <1>1, <2>2
      <3>2. a = n
        <4>1. x \in K[a] => x \in DOMAIN W BY <3>1 DEF Tree
        <4> QED BY <1>1, <2>2, <3>1, <4>1
      <3> QED BY <1>1, <1>5, <2>2, <3>2
    <2>3. CASE a # x /\ c # x
      <3>1. a \in DOMAIN W /\ c \in K[a] BY <1>1, <2>3
      <3> QED BY <1>1, <1>4, <3>1 DEF Tree
    <2> QED BY <2>1, <2>2, <2>3
  <1>8. \A a \in DOMAIN V : \A c, d \in L[a] :
          Towards(V, a, c) = Towards(V, a, d) => c = d
    <2> SUFFICES ASSUME NEW a \in DOMAIN V, NEW c \in L[a], NEW d \in L[a],
                        Towards(V, a, c) = Towards(V, a, d), c # d
                 PROVE  FALSE
      OBVIOUS
    <2>1. a \in DOMAIN W BY <1>1
    <2>2. K[a] \subseteq DOMAIN W BY <2>1 DEF Tree
    <2>3. ASSUME NEW e \in L[a], NEW f \in L[a], f = x, e # x,
                 Towards(V, a, e) = Towards(V, a, f)
          PROVE  FALSE
      <3>1. a = n /\ e \in K[n] BY <1>1, <2>1, <2>2, <2>3
      <3>2. Towards(V, n, e) # Head(w) BY <1>4, <2>2, <3>1
      <3> QED BY <1>5, <2>3, <3>1, <3>2
    <2>4. c \in K[a] /\ d \in K[a] BY <2>1, <2>3
    <2>5. Towards(W, a, c) = Towards(W, a, d) BY <1>4, <2>1, <2>2, <2>4
    <2> QED BY <2>1, <2>4, <2>5 DEF Tree
  <1>9. \A a, b \in DOMAIN V :
          Below(V, a, b) => \E c \in L[a] : c = b \/ Below(V, c, b)
    <2> SUFFICES ASSUME NEW a \in DOMAIN V, NEW b \in DOMAIN V, Below(V, a, b)
                 PROVE  \E c \in L[a] : c = b \/ Below(V, c, b)
      OBVIOUS
    <2>1. CASE a # x /\ b # x
      <3>1. a \in DOMAIN W /\ b \in DOMAIN W BY <1>1, <2>1
      <3>2. PICK c \in K[a] : c = b \/ Below(W, c, b) BY <1>4, <3>1 DEF Tree
      <3>3. c \in DOMAIN W /\ c \in L[a] BY <3>1, <3>2 DEF Tree
      <3> QED BY <1>4, <3>1, <3>2, <3>3
    <2>2. CASE a = x
      <3>1. b \in DOMAIN W BY <1>1, <1>2, <2>2 DEF Below, Begins, Size
      <3>2. Below(V, n, b) /\ Towards(V, n, b) = Head(w)
        <4>1. Begins(V[x].shape, V[b].shape) /\ V[b].method = V[n].method
          BY <1>1, <1>3, <2>2 DEF Below
        <4>2. Size(n) + 1 \in 1..Size(x) /\ Size(x) < Size(b)
          BY <1>1, <1>2, <1>3, <4>1 DEF Begins, Size
        <4>3. \A i \in 1..Size(n) : i \in 1..Size(x) BY <1>1, <1>2, <4>2
        <4>4. \A i \in 1..Size(n) : V[b].shape[i] = V[n].shape[i]
          BY <1>3, <4>1, <4>3 DEF Begins, Size
        <4>5. V[b].shape[Size(n) + 1] = Head(w)
          BY <1>3, <4>1, <4>2 DEF Begins, Size
        <4>6. Size(n) < Size(b) BY <1>1, <1>2, <4>2
        <4> QED BY <4>1, <4>4, <4>5, <4>6 DEF Below, Begins, Towards, Size
      <3> QED BY <1>6, <3>1, <3>2
    <2>3. CASE a # x /\ b = x
      <3>1. a \in DOMAIN W BY <1>1, <2>3
      <3>2. CASE a = n
        <4>1. x \in L[a] BY <3>1, <3>2
        <4> QED BY <2>3, <4>1
      <3>3. CASE a # n
        <4>1. W[a] # W[n] BY <3>1, <3>3 DEF Tree
        <4>2. Below(V, n, a) \/ Below(V, a, n)
          BY <1>1, <1>5, <2>3, <3>1, <4>1, Comparable
        <4>3. ~Below(V, n, a)
          <5> SUFFICES ASSUME Below(V, n, a) PROVE FALSE OBVIOUS
          <5>1. Towards(V, n, a) = Head(w)
            <6>1. Begins(V[a].shape, V[x].shape) BY <2>3 DEF Below
            <6>2. Size(n) + 1 \in 1..Size(a)
              BY <1>1, <1>2 DEF Below, Begins, Size
            <6> QED BY <1>3, <6>1, <6>2 DEF Begins, Towards, Size
          <5> QED BY <1>6, <3>1, <5>1
        <4>4. PICK c \in K[a] : c = n \/ Below(W, c, n)
          BY <1>4, <3>1, <4>2, <4>3 DEF Tree
        <4>5. c \in DOMAIN W /\ c \in L[a] BY <3>1, <3>3, <4>4 DEF Tree
        <4>6. c = n \/ Below(V, c, n) BY <1>4, <4>4, <4>5
        <4>7. Below(V, c, x)
          BY SMTT(30), <1>1, <1>2, <1>3, <4>5, <4>6 DEF Below, Begins, Size
        <4> QED BY <2>3, <4>5, <4>7
      <3> QED BY <3>2, <3>3
    <2> QED BY <2>1, <2>2, <2>3
  <1>10. \A a, b \in DOMAIN V : V[a] = V[b] => a = b
    <2>1. ASSUME NEW a \in DOMAIN W, V[a] = V[x] PROVE FALSE
      <3>1. Below(V, n, a) /\ Towards(V, n, a) = Head(w)
        BY <1>5, <2>1 DEF Below, Towards
      <3> QED BY <1>6, <2>1, <3>1
    <2>2. \A a, b \in DOMAIN W : V[a] = V[b] => a = b BY <1>1 DEF Tree
    <2> QED BY <1>1, <2>1, <2>2
  <1> QED BY <1>7, <1>8, <1>9, <1>10 DEF Tree

\* The edge from n to its child t is split: t moves to a place q on the way,
\* and a new node x takes its old place and its children.
Cut(W, K, n, t, q, V, L, x) ==
  /\ W \in Seq(Places) /\ V \in Seq(Places)
  /\ n \in DOMAIN W /\ t \in K[n] /\ q \in Places /\ q.method = W[n].method
  /\ Begins(W[n].shape, q.shape) /\ Begins(q.shape, W[t].shape)
  /\ DOMAIN V = DOMAIN W \cup {x} /\ x \notin DOMAIN W
  /\ V[x] = W[t] /\ \A a \in DOMAIN W : V[a] = IF a = t THEN q ELSE W[a]
  /\ \A a \in DOMAIN W : L[a] = IF a = t THEN {x} ELSE K[a]
  /\ L[x] = K[t]

\* That makes a tree of a tree.
LEMMA SplitEdge ==
  ASSUME NEW W, NEW K, Tree(W, K), NEW n, NEW t, NEW q, NEW V, NEW L, NEW x,
         Cut(W, K, n, t, q, V, L, x)
  PROVE  Tree(V, L)
  <1>0. /\ W \in Seq(Places) /\ V \in Seq(Places)
        /\ n \in DOMAIN W /\ t \in K[n] /\ q \in Places
        /\ q.method = W[n].method
        /\ Begins(W[n].shape, q.shape) /\ Begins(q.shape, W[t].shape)
        /\ DOMAIN V = DOMAIN W \cup {x} /\ x \notin DOMAIN W
        /\ V[x] = W[t] /\ \A a \in DOMAIN W : V[a] = IF a = t THEN q ELSE W[a]
        /\ \A a \in DOMAIN W : L[a] = IF a = t THEN {x} ELSE K[a]
        /\ L[x] = K[t]
    BY DEF Cut
  <1> USE <1>0
  <1>1. t \in DOMAIN W /\ Below(W, n, t) BY DEF Tree
  <1>2. /\ DOMAIN V = DOMAIN W \cup {x} /\ x \notin DOMAIN W
        /\ \A a \in DOMAIN W : a # t => V[a] = W[a]
        /\ V[t] = q /\ V[x] = W[t]
    BY <1>1
  <1>3. n # t BY <1>1, NotBelow
  <1> DEFINE Old(a) == IF a = t THEN x ELSE a
  <1>4. \A a \in DOMAIN W : Old(a) \in DOMAIN V /\ W[a] = V[Old(a)]
    BY <1>2
  <1>5. /\ \A a, b \in DOMAIN W : Below(W, a, b) <=> Below(V, Old(a), Old(b))
        /\ \A a, b \in DOMAIN W : Towards(W, a, b) = Towards(V, Old(a), Old(b))
    BY <1>4 DEF Below, Towards
  <1>6. \A a, b \in DOMAIN W : a # t /\ b # t =>
          /\ Below(W, a, b) <=> Below(V, a, b)
          /\ Towards(W, a, b) = Towards(V, a, b)
    BY <1>5
  <1>7. \A a \in DOMAIN W : a # t =>
          /\ Below(W, a, t) <=> Below(V, a, x)
          /\ Below(W, t, a) <=> Below(V, x, a)
          /\ Towards(W, a, t) = Towards(V, a, x)
          /\ Towards(W, t, a) = Towards(V, x, a)
    BY <1>1, <1>5
  <1> HIDE DEF Old
  <1>8. /\ Below(V, n, t) /\ Below(V, t, x) /\ Below(V, n, x)
        /\ Towards(V, n, t) = Towards(V, n, x)
    <2>1. q.method = W[t].method BY <1>1 DEF Below
    <2>2. Below(V, n, t) /\ Below(V, t, x) BY <1>2, <1>3, <2>1 DEF Below
    <2>3. n \in DOMAIN V /\ t \in DOMAIN V /\ x \in DOMAIN V BY <1>1, <1>2
    <2>4. Below(V, n, x) /\ Towards(V, n, t) = Towards(V, n, x)
      BY <2>2, <2>3, BelowBelow
    <2> QED BY <2>2, <2>4
  <1>9. ASSUME NEW b \in DOMAIN V, Below(V, n, b), b # t, b # x,
               Towards(V, n, b) = Towards(V, n, t)
        PROVE  Below(V, x, b)
    <2>1. b \in DOMAIN W /\ Below(W, n, b) /\ Towards(W, n, b) = Towards(W, n, t)
      BY <1>2, <1>3, <1>6, <1>7, <1>8, <1>9
    <2>2. PICK c \in K[n] : c = b \/ Below(W, c, b) BY <2>1 DEF Tree
    <2>3. c \in DOMAIN W /\ Below(W, n, c) BY <2>2 DEF Tree
    <2>4. Towards(W, n, c) = Towards(W, n, t) BY <2>1, <2>2, <2>3, BelowBelow
    <2>5. c = t BY <2>4 DEF Tree
    <2> QED BY <1>7, <1>9, <2>1, <2>2, <2>5
  <1>10. \A a \in DOMAIN W : \A c \in K[a] :
           c \in DOMAIN W /\ Below(W, a, c) /\ (c = t => a = n)
    <2> TAKE a \in DOMAIN W
    <2> TAKE c \in K[a]
    <2>1. c \in DOMAIN W /\ Below(W, a, c) BY DEF Tree
    <2>2. c = t => a = n BY OneParent
    <2> QED BY <2>1, <2>2
  <1>11. \A a \in DOMAIN V : \A c \in L[a] : c \in DOMAIN V /\ Below(V, a, c)
    <2> TAKE a \in DOMAIN V
    <2> TAKE c \in L[a]
    <2>1. CASE a = x
      <3>1. c \in DOMAIN W /\ Below(W, t, c) BY <1>1, <1>10, <2>1
      <3>2. c # t BY <1>1, <3>1, NotBelow
      <3> QED BY <1>2, <1>7, <2>1, <3>1, <3>2
    <2>2. CASE a = t BY <1>1, <1>2, <1>8, <2>2
    <2>3. CASE a # x /\ a # t
      <3>1. a \in DOMAIN W /\ c \in K[a] BY <1>2, <2>3
      <3>2. c \in DOMAIN W /\ Below(W, a, c) /\ (c = t => a = n) BY <1>10, <3>1
      <3> QED BY <1>2, <1>6, <1>8, <2>3, <3>1, <3>2
    <2> QED BY <2>1, <2>2, <2>3
  <1>12. \A a \in DOMAIN V : \A c, d \in L[a] :
           Towards(V, a, c) = Towards(V, a, d) => c = d
    <2> SUFFICES ASSUME NEW a \in DOMAIN V, NEW c \in L[a], NEW d \in L[a],
                        Towards(V, a, c) = Towards(V, a, d)
                 PROVE  c = d
      OBVIOUS
    <2>1. CASE a = x
      <3>1. \A e \in K[t] : e \in DOMAIN W /\ e # t
        BY <1>1, <1>10, NotBelow
      <3>2. c \in K[t] /\ d \in K[t] BY <2>1
      <3>3. Towards(W, t, c) = Towards(W, t, d) BY <1>7, <2>1, <3>1, <3>2
      <3> QED BY <1>1, <3>2, <3>3 DEF Tree
    <2>2. CASE a = t BY <1>1, <2>2
    <2>3. CASE a # x /\ a # t
      <3>1. a \in DOMAIN W /\ c \in K[a] /\ d \in K[a] BY <1>2, <2>3
      <3>2. \A e \in K[a] : Towards(W, a, e) = Towards(V, a, e)
        BY <1>6, <1>7, <1>8, <1>10, <2>3, <3>1
      <3>3. Towards(W, a, c) = Towards(W, a, d) BY <3>1, <3>2
      <3> QED BY <3>1, <3>3 DEF Tree
    <2> QED BY <2>1, <2>2, <2>3
  <1>13. \A a, b \in DOMAIN V : V[a] = V[b] => a = b
    <2>1. ASSUME NEW b \in DOMAIN V, b # t, V[b] = V[t] PROVE FALSE
      <3>1. Below(V, n, b) /\ Towards(V, n, b) = Towards(V, n, t)
        BY <1>8, <2>1 DEF Below, Towards
      <3>2. b # x BY <1>1, <1>2, <1>8, <2>1, NotBelow
      <3>3. Below(V, x, b) BY <1>9, <2>1, <3>1, <3>2
      <3>4. Below(V, x, t) BY <2>1, <3>3 DEF Below
      <3> QED BY <1>1, <1>2, <1>8, <3>4, NotBelow
    <2>2. ASSUME NEW b \in DOMAIN W, b # t, V[b] = V[x] PROVE FALSE
      <3>1. W[b] = W[t] BY <1>2, <2>2
      <3> QED BY <1>1, <2>2, <3>1 DEF Tree
    <2>3. \A a, b \in DOMAIN W : a # t /\ b # t /\ V[a] = V[b] => a = b
      BY <1>2 DEF Tree
    <2> QED BY <1>2, <2>1, <2>2, <2>3
  <1>14. ASSUME NEW b \in DOMAIN V, b # t, Below(V, t, b)
         PROVE  b = x \/ Below(V, x, b)
    <2>1. Below(V, n, b) /\ Towards(V, n, b) = Towards(V, n, t)
      <3>1. n \in DOMAIN V /\ t \in DOMAIN V BY <1>1, <1>2
      <3>2. Below(V, n, b) /\ Towards(V, n, t) = Towards(V, n, b)
        BY <1>8, <1>14, <3>1, BelowBelow
      <3> QED BY <3>2
    <2> QED BY <1>9, <1>14, <2>1
  <1>15. ASSUME NEW a \in DOMAIN V, NEW b \in DOMAIN V, Below(V, a, b)
         PROVE  \E c \in L[a] : c = b \/ Below(V, c, b)
    <2>1. CASE a = t
      <3>1. b # t BY <1>15, <2>1, NotBelow
      <3>2. x \in L[t] BY <1>1
      <3> QED BY <1>14, <1>15, <2>1, <3>1, <3>2
    <2>2. CASE a # t /\ b = t
      <3>1. a # x BY <1>8, <1>15, <2>2, NotBelow
      <3>2. a \in DOMAIN W /\ L[a] = K[a] BY <1>2, <2>2, <3>1
      <3>3. Below(V, a, x) BY <1>2, <1>8, <1>15, <2>2, BelowBelow
      <3>4. Below(W, a, t) BY <1>7, <2>2, <3>2, <3>3
      <3>5. PICK c \in K[a] : c = t \/ Below(W, c, t) BY <1>1, <3>2, <3>4 DEF Tree
      <3>6. CASE c = t BY <2>2, <3>2, <3>6
      <3>7. CASE c # t
        <4>1. c \in DOMAIN W /\ Below(V, c, x)
          BY <1>7, <1>10, <3>2, <3>5, <3>7
        <4>2. c \in DOMAIN V /\ c # x BY <1>2, <4>1
        <4>3. V[c] # V[t] BY <1>1, <1>2, <1>13, <3>7, <4>2
        <4>4. ~Below(V, t, c)
          <5>1. Below(V, t, c) => Below(V, x, c) BY <1>14, <3>7, <4>2
          <5> QED BY <1>2, <4>1, <4>2, <5>1, NotBelow
        <4>5. Below(V, c, t)
          BY <1>1, <1>2, <1>8, <4>1, <4>2, <4>3, <4>4, Comparable
        <4> QED BY <2>2, <3>2, <3>5, <4>5
      <3> QED BY <3>6, <3>7
    <2>3. CASE a = x /\ b # t
      <3>1. b # x BY <1>15, <2>3, NotBelow
      <3>2. b \in DOMAIN W /\ Below(W, t, b) BY <1>2, <1>7, <1>15, <2>3, <3>1
      <3>3. PICK c \in K[t] : c = b \/ Below(W, c, b) BY <1>1, <3>2 DEF Tree
      <3>4. c \in DOMAIN W /\ c # t BY <1>1, <1>10, <3>3, NotBelow
      <3>5. c = b \/ Below(V, c, b) BY <1>6, <2>3, <3>2, <3>3, <3>4
      <3> QED BY <2>3, <3>3, <3>5
    <2>4. CASE a # t /\ a # x /\ b # t
      <3>1. a \in DOMAIN W /\ L[a] = K[a] BY <1>2, <2>4
      <3>2. CASE b = x
        <4>1. Below(W, a, t) BY <1>7, <1>15, <2>4, <3>1, <3>2
        <4>2. PICK c \in K[a] : c = t \/ Below(W, c, t)
          BY <1>1, <3>1, <4>1 DEF Tree
        <4>3. Below(V, c, x) BY <1>7, <1>8, <1>10, <3>1, <4>2
        <4> QED BY <3>1, <3>2, <4>2, <4>3
      <3>3. CASE b # x
        <4>1. b \in DOMAIN W /\ Below(W, a, b) BY <1>2, <1>6, <1>15, <2>4, <3>1, <3>3
        <4>2. PICK c \in K[a] : c = b \/ Below(W, c, b) BY <3>1, <4>1 DEF Tree
        <4>3. c = b \/ Below(V, c, b)
          <5>1. CASE c = t
            <6>1. Below(V, x, b) BY <1>7, <2>4, <4>1, <4>2, <5>1
            <6> QED BY <1>1, <1>2, <1>8, <5>1, <6>1, BelowBelow
          <5>2. CASE c # t BY <1>6, <1>10, <2>4, <3>1, <4>1, <4>2, <5>2
          <5> QED BY <5>1, <5>2
        <4> QED BY <3>1, <4>2, <4>3
      <3> QED BY <3>2, <3>3
    <2> QED BY <2>1, <2>2, <2>3, <2>4
  <1> QED BY <1>11, <1>12, <1>13, <1>15 DEF Tree

\* A method m that has no nodes gets a root x.
Rooted(W, K, m, V, L, x) ==
  /\ W \in Seq(Places) /\ V \in Seq(Places) /\ m \in Methods
  /\ \A a \in DOMAIN W : W[a].method # m
  /\ DOMAIN V = DOMAIN W \cup {x} /\ x \notin DOMAIN W
  /\ \A a \in DOMAIN W : V[a] = W[a] /\ L[a] = K[a]
  /\ V[x] = [method |-> m, shape |-> <<>>]
  /\ L[x] = {}

\* That makes a forest of a forest.
LEMMA NewRoot ==
  ASSUME NEW W, NEW K, Tree(W, K), NEW m, NEW V, NEW L, NEW x,
         Rooted(W, K, m, V, L, x)
  PROVE  Tree(V, L)
  <1>0. /\ W \in Seq(Places) /\ V \in Seq(Places) /\ m \in Methods
        /\ \A a \in DOMAIN W : W[a].method # m
        /\ DOMAIN V = DOMAIN W \cup {x} /\ x \notin DOMAIN W
        /\ \A a \in DOMAIN W : V[a] = W[a] /\ L[a] = K[a]
        /\ V[x] = [method |-> m, shape |-> <<>>]
        /\ L[x] = {}
    BY DEF Rooted
  <1> USE <1>0
  <1>1. /\ \A a, b \in DOMAIN W : Below(V, a, b) <=> Below(W, a, b)
        /\ \A a, b \in DOMAIN W : Towards(V, a, b) = Towards(W, a, b)
    BY DEF Below, Towards
  <1>2. V[x].method = m OBVIOUS
  <1>3. \A a \in DOMAIN W : ~Below(V, a, x) /\ ~Below(V, x, a) /\ V[a] # V[x]
    BY <1>2 DEF Below
  <1>4. ~Below(V, x, x) BY NotBelow
  <1>5. \A a \in DOMAIN W : K[a] \subseteq DOMAIN W BY DEF Tree
  <1>6. \A a \in DOMAIN V : \A c \in L[a] : c \in DOMAIN V /\ Below(V, a, c)
    BY <1>1, <1>5 DEF Tree
  <1>7. \A a \in DOMAIN V : \A c, d \in L[a] :
          Towards(V, a, c) = Towards(V, a, d) => c = d
    <2> TAKE a \in DOMAIN V
    <2> TAKE c, d \in L[a]
    <2>1. a \in DOMAIN W /\ c \in K[a] /\ d \in K[a] OBVIOUS
    <2> QED BY <1>1, <1>5, <2>1 DEF Tree
  <1>8. \A a, b \in DOMAIN V :
          Below(V, a, b) => \E c \in L[a] : c = b \/ Below(V, c, b)
    <2> SUFFICES ASSUME NEW a \in DOMAIN V, NEW b \in DOMAIN V, Below(V, a, b)
                 PROVE  \E c \in L[a] : c = b \/ Below(V, c, b)
      OBVIOUS
    <2>1. a \in DOMAIN W /\ b \in DOMAIN W BY <1>3, <1>4
    <2>2. PICK c \in K[a] : c = b \/ Below(W, c, b) BY <1>1, <2>1 DEF Tree
    <2> QED BY <1>1, <1>5, <2>1, <2>2
  <1>9. \A a, b \in DOMAIN V : V[a] = V[b] => a = b
    BY <1>3 DEF Tree
  <1> QED BY <1>6, <1>7, <1>8, <1>9 DEF Tree

-----------------------------------------------------------------------------
(* The helpers on text.                                                    *)

\* Span is where the first stop is, or the end.
LEMMA SpanEnds ==
  ASSUME NEW s \in Seq(STRING), NEW stops
  PROVE  /\ Span(s, stops) \in 0..Len(s)
         /\ \A i \in 1..Span(s, stops) : s[i] \notin stops
         /\ Span(s, stops) < Len(s) => s[Span(s, stops) + 1] \in stops
  <1> DEFINE I == {i \in 1..Len(s) : s[i] \in stops}
             k == IF I # {} THEN Min(I) ELSE 0
  <1>1. Span(s, stops) = IF k = 0 THEN Len(s) ELSE k - 1
    BY DEF Span, SelectInSeq
  <1>2. CASE I = {} BY <1>1, <1>2
  <1>3. CASE I # {}
    <2>1. PICK m \in I : \A i \in I : m <= i
      <3>1. I \subseteq Nat OBVIOUS
      <3> HIDE DEF I
      <3> QED BY <1>3, <3>1, LeastNumber
    <2>2. k \in I /\ \A i \in I : k <= i BY <1>3, <2>1 DEF Min
    <2>3. k \in 1..Len(s) /\ s[k] \in stops BY <2>2
    <2>4. \A i \in 1..(k - 1) : s[i] \notin stops BY <2>2
    <2> HIDE DEF k
    <2> QED BY <1>1, <2>3, <2>4
  <1> QED BY <1>2, <1>3

\* A text that two texts begin with is one of their common prefixes.
LEMMA Shares ==
  ASSUME NEW s \in Seq(STRING), NEW t \in Seq(STRING), NEW j \in 1..Len(s),
         j <= Len(t), \A i \in 1..j : s[i] = t[i]
  PROVE  SubSeq(s, 1, j) \in CommonPrefixes({s, t}) /\ Len(SubSeq(s, 1, j)) = j
  <1> DEFINE c == SubSeq(s, 1, j)
  <1>1. Len(s) \in Nat /\ Len(t) \in Nat /\ j \in Nat \ {0} OBVIOUS
  <1>2. c \in Seq(STRING) /\ Len(c) = j /\ \A i \in 1..j : c[i] = s[i]
    BY <1>1
  <1>3. SubSeq(c, 1, j) = SubSeq(s, 1, j) /\ SubSeq(c, 1, j) = SubSeq(t, 1, j)
    <2> HIDE DEF c
    <2>1. /\ SubSeq(c, 1, j) \in Seq(STRING) /\ Len(SubSeq(c, 1, j)) = j
          /\ \A i \in 1..j : SubSeq(c, 1, j)[i] = c[i]
      BY <1>1, <1>2
    <2>2. /\ SubSeq(t, 1, j) \in Seq(STRING) /\ Len(SubSeq(t, 1, j)) = j
          /\ \A i \in 1..j : SubSeq(t, 1, j)[i] = t[i]
      BY <1>1
    <2>3. SubSeq(c, 1, j) = SubSeq(t, 1, j) BY <1>2, <2>1, <2>2, SeqEqual
    <2>4. SubSeq(c, 1, j) = c BY <1>2, <2>1, SeqEqual
    <2> QED BY <2>3, <2>4 DEF c
  <1>4. IsPrefix(c, s) /\ IsPrefix(c, t) BY <1>1, <1>2, <1>3 DEF IsPrefix
  <1>5. c \in Prefixes(s) BY <1>1 DEF Prefixes
  <1> QED BY <1>2, <1>4, <1>5 DEF CommonPrefixes

\* A common prefix is as long as it says.
LEMMA SharedPrefix ==
  ASSUME NEW s \in Seq(STRING), NEW t \in Seq(STRING),
         NEW c \in CommonPrefixes({s, t})
  PROVE  /\ c \in Seq(STRING) /\ Len(c) <= Len(s) /\ Len(c) <= Len(t)
         /\ \A i \in 1..Len(c) : s[i] = t[i]
  <1>1. PICK q \in {s, t} : c \in {SubSeq(q, 1, l) : l \in 0..Len(q)}
    BY DEF CommonPrefixes, Prefixes
  <1>2. c \in Seq(STRING) BY <1>1
  <1>3. IsPrefix(c, s) /\ IsPrefix(c, t) BY DEF CommonPrefixes
  <1>4. /\ Len(c) <= Len(s) /\ SubSeq(c, 1, Len(c)) = SubSeq(s, 1, Len(c))
        /\ Len(c) <= Len(t) /\ SubSeq(c, 1, Len(c)) = SubSeq(t, 1, Len(c))
    BY <1>3 DEF IsPrefix
  <1>5. \A i \in 1..Len(c) : /\ SubSeq(s, 1, Len(c))[i] = s[i]
                             /\ SubSeq(t, 1, Len(c))[i] = t[i]
    BY <1>2, <1>4
  <1>6. \A i \in 1..Len(c) : s[i] = t[i] BY <1>4, <1>5
  <1> QED BY <1>2, <1>4, <1>6

\* What two texts that begin alike share: at least the first symbol, and all
\* up to one they differ in.
LEMMA CommonPrefixIs ==
  ASSUME NEW s \in Seq(STRING), NEW t \in Seq(STRING), s # <<>>, t # <<>>,
         Head(s) = Head(t)
  PROVE  /\ CommonPrefix(s, t) \in 1..Len(s)
         /\ CommonPrefix(s, t) <= Len(t)
         /\ \A i \in 1..CommonPrefix(s, t) : s[i] = t[i]
         /\ CommonPrefix(s, t) < Len(s) /\ CommonPrefix(s, t) < Len(t) =>
              s[CommonPrefix(s, t) + 1] # t[CommonPrefix(s, t) + 1]
  <1> DEFINE C == CommonPrefixes({s, t})
             T == {Len(c) : c \in C}
             longest == LongestCommonPrefix({s, t})
  <1>1. Len(s) \in Nat \ {0} /\ Len(t) \in Nat \ {0} /\ s[1] = t[1] OBVIOUS
  <1>2. SubSeq(s, 1, 1) \in C /\ Len(SubSeq(s, 1, 1)) = 1
    <2>1. 1 \in 1..Len(s) /\ 1 <= Len(t) /\ \A i \in 1..1 : s[i] = t[i] BY <1>1
    <2> QED BY <2>1, Shares
  <1>3. T \subseteq 0..Len(s) /\ 1 \in T
    <2>1. \A c \in C : Len(c) \in 0..Len(s) BY <1>1, SharedPrefix
    <2> QED BY <1>2, <2>1
  <1>4. PICK m \in T : \A k \in T : k <= m
    <2> HIDE DEF T
    <2> QED BY <1>1, <1>3, GreatestNumber
  <1>5. PICK l \in C : \A o \in C : Len(o) <= Len(l) BY <1>4
  <1>6. longest = CHOOSE c \in C : \A o \in C : Len(o) <= Len(c)
    BY DEF LongestCommonPrefix
  <1>7. longest \in C /\ \A o \in C : Len(o) <= Len(longest) BY <1>5, <1>6
  <1> HIDE DEF longest
  <1>8. 1 <= Len(longest) BY <1>2, <1>7
  <1>9. CommonPrefix(s, t) = Len(longest) BY DEF CommonPrefix, longest
  <1>10. /\ longest \in Seq(STRING) /\ Len(longest) \in Nat
         /\ Len(longest) <= Len(s) /\ Len(longest) <= Len(t)
         /\ \A i \in 1..Len(longest) : s[i] = t[i]
    BY <1>7, SharedPrefix
  <1>11. ASSUME Len(longest) < Len(s), Len(longest) < Len(t),
                s[Len(longest) + 1] = t[Len(longest) + 1]
         PROVE  FALSE
    <2> DEFINE j == Len(longest) + 1
    <2>1. j \in 1..Len(s) /\ j <= Len(t) /\ \A i \in 1..j : s[i] = t[i]
      BY <1>1, <1>10, <1>11
    <2> HIDE DEF j
    <2>2. SubSeq(s, 1, j) \in C /\ Len(SubSeq(s, 1, j)) = j BY <2>1, Shares
    <2>3. j <= Len(longest) BY <1>7, <2>2
    <2> QED BY <1>10, <2>3 DEF j
  <1> QED BY <1>1, <1>8, <1>9, <1>10, <1>11

-----------------------------------------------------------------------------
(* The invariant.                                                          *)

Nodes == [type : Kinds, prefix : Texts, static : Seq(Nat), parameter : Nat,
          catch_all : Nat, route : SUBSET [handler : Handlers, names : Seq(Texts)]]

Children(node) ==
  ToSet(node.static) \cup ({node.parameter, node.catch_all} \ {0})

Kids == [n \in NodeIds |-> Children(nodes[n])]

Plain(text) == \A i \in 1..Len(text) : text[i] \notin Markers

EndsInSlash(text) == text # <<>> /\ text[Len(text)] = "/"

\* What RadixTree says of a node's edges, and no marker in literal text.
Edges(n) ==
  /\ \A i \in 1..Len(nodes[n].static) :
       LET c == nodes[n].static[i] IN
       /\ nodes[c].type = "static" /\ nodes[c].prefix # <<>>
       /\ Plain(nodes[c].prefix)
       /\ Extends(c, n, nodes[c].prefix)
  /\ \A i, j \in 1..Len(nodes[n].static) :
       nodes[nodes[n].static[i]].prefix[1] = nodes[nodes[n].static[j]].prefix[1]
         => i = j
  /\ nodes[n].parameter # 0 =>
       /\ Extends(nodes[n].parameter, n, <<":">>)
       /\ nodes[nodes[n].parameter].type = "parameter"
  /\ nodes[n].catch_all # 0 =>
       /\ Extends(nodes[n].catch_all, n, <<"*">>)
       /\ nodes[nodes[n].catch_all].type = "catch_all"

\* A method has a root once it has nodes.
RootInv ==
  /\ \A m \in Methods : roots[m] # 0 =>
       /\ where[roots[m]] = [method |-> m, shape |-> <<>>]
       /\ nodes[roots[m]].type = "static"
  /\ \A n \in NodeIds : roots[where[n].method] # 0

\* Special nodes hang where a segment starts, and what follows them starts
\* the next one.
Segmented(n) ==
  /\ nodes[n].parameter # 0 \/ nodes[n].catch_all # 0 =>
       nodes[n].type = "static" /\ EndsInSlash(nodes[n].prefix)
  /\ nodes[n].type = "parameter" =>
       \A i \in 1..Len(nodes[n].static) :
         nodes[nodes[n].static[i]].prefix[1] = "/"
  /\ nodes[n].type = "catch_all" => nodes[n].static = <<>>

\* The text of a running add_route is literal, a marker comes behind a slash,
\* and what comes behind a special node is the next segment or nothing.
CallInv ==
  call # NoCall =>
    /\ Plain(call.text)
    /\ \A i \in 2..Len(call.rest) :
         call.rest[i] \in Markers => call.rest[i - 1] = "/"
    /\ call.rest # <<>> /\ call.rest[1] \in Markers =>
         IF call.text = <<>>
         THEN /\ nodes[call.cur].type = "static"
              /\ EndsInSlash(nodes[call.cur].prefix)
         ELSE EndsInSlash(call.text)
    /\ nodes[call.cur].type = "parameter" =>
         IF call.text = <<>>
         THEN call.rest # <<>> => call.rest[1] = "/"
         ELSE call.text[1] = "/"
    /\ nodes[call.cur].type = "catch_all" => call.text = <<>> /\ call.rest = <<>>

TreeInv == Tree(where, Kids) /\ \A n \in NodeIds : Edges(n)

SegmentInv == CallInv /\ \A n \in NodeIds : Segmented(n)

Inv == TypeOK /\ TreeInv /\ RootInv /\ SegmentInv

Calls == [method : Methods, handler : Handlers, cur : NodeIds, text : Texts,
          rest : Texts, names : Seq(Texts)]

\* What a node is made of.
LEMMA NodeTypes ==
  ASSUME TypeOK, NEW n \in NodeIds
  PROVE  /\ NodeIds = 1..Len(nodes) /\ Len(nodes) \in Nat
         /\ nodes \in Seq(Nodes) /\ where \in Seq(Places)
         /\ DOMAIN where = NodeIds
         /\ nodes[n] \in Nodes /\ where[n] \in Places
         /\ nodes[n].static \in Seq(Nat) /\ nodes[n].prefix \in Seq(STRING)
         /\ \A i \in 1..Len(nodes[n].static) : nodes[n].static[i] \in NodeIds
         /\ nodes[n].parameter # 0 => nodes[n].parameter \in NodeIds
         /\ nodes[n].catch_all # 0 => nodes[n].catch_all \in NodeIds
         /\ 0 \notin NodeIds
         /\ \A c \in Children(nodes[n]) : c \in NodeIds
  <1>1. nodes \in Seq(Nodes) /\ where \in Seq(Places) /\ Len(where) = Len(nodes)
    BY DEF TypeOK, Nodes, Places
  <1>2. NodeIds = 1..Len(nodes) /\ Len(nodes) \in Nat BY <1>1 DEF NodeIds
  <1>3. DOMAIN where = NodeIds BY <1>1, <1>2
  <1>4. nodes[n] \in Nodes /\ where[n] \in Places BY <1>1, <1>2
  <1>5. nodes[n].static \in Seq(Nat) /\ nodes[n].prefix \in Seq(STRING)
    BY <1>4 DEF Nodes, Texts
  <1>6. \A i \in 1..Len(nodes[n].static) : nodes[n].static[i] \in NodeIds
    BY SMTT(30), <1>5 DEF TypeOK, ToSet
  <1>7. /\ nodes[n].parameter # 0 => nodes[n].parameter \in NodeIds
        /\ nodes[n].catch_all # 0 => nodes[n].catch_all \in NodeIds
    BY DEF TypeOK
  <1>8. \A c \in Children(nodes[n]) : c \in NodeIds
    BY <1>5, <1>6, <1>7 DEF Children, ToSet
  <1> QED BY <1>1, <1>2, <1>3, <1>4, <1>5, <1>6, <1>7, <1>8

\* What a running call is made of.
LEMMA CallTypes ==
  ASSUME TypeOK, call # NoCall
  PROVE  /\ call \in Calls /\ call.cur \in NodeIds
         /\ call.text \in Seq(STRING) /\ call.rest \in Seq(STRING)
         /\ call.names \in Seq(Texts)
  BY DEF TypeOK, Calls, Texts

\* A node b has the edges that n had if it gets the children of n, which stay
\* as they are, and its place.
LEMMA EdgesMoved ==
  ASSUME TypeOK, NEW n \in NodeIds, NEW b, Edges(n),
         nodes'[b].static = nodes[n].static,
         nodes'[b].parameter = nodes[n].parameter,
         nodes'[b].catch_all = nodes[n].catch_all, where'[b] = where[n],
         \A c \in Children(nodes[n]) : /\ nodes'[c].type = nodes[c].type
                                      /\ nodes'[c].prefix = nodes[c].prefix
                                      /\ where'[c] = where[c]
  PROVE  Edges(b)'
  <1>1. /\ \A i \in 1..Len(nodes[n].static) :
             nodes[n].static[i] \in Children(nodes[n])
        /\ nodes[n].parameter # 0 => nodes[n].parameter \in Children(nodes[n])
        /\ nodes[n].catch_all # 0 => nodes[n].catch_all \in Children(nodes[n])
    BY NodeTypes DEF Children, ToSet
  <1>2. ASSUME NEW i \in 1..Len(nodes[n].static)
        PROVE  LET c == nodes[n].static[i] IN
               /\ nodes'[c].type = "static" /\ nodes'[c].prefix # <<>>
               /\ Plain(nodes'[c].prefix)
               /\ where'[c] = [where'[b] EXCEPT !.shape = @ \o nodes'[c].prefix]
    <2> DEFINE c == nodes[n].static[i]
    <2>1. /\ nodes[c].type = "static" /\ nodes[c].prefix # <<>>
          /\ Plain(nodes[c].prefix) /\ Extends(c, n, nodes[c].prefix)
      BY DEF Edges
    <2>2. /\ nodes'[c].type = nodes[c].type /\ nodes'[c].prefix = nodes[c].prefix
          /\ where'[c] = where[c]
      BY <1>1
    <2> HIDE DEF c
    <2>3. where'[c] = [where'[b] EXCEPT !.shape = @ \o nodes'[c].prefix]
      BY <2>1, <2>2 DEF Extends
    <2>4. Plain(nodes'[c].prefix) BY <2>1, <2>2
    <2> QED BY <2>1, <2>2, <2>3, <2>4 DEF c
  <1>3. /\ nodes[n].parameter # 0 =>
             /\ where'[nodes[n].parameter] = [where'[b] EXCEPT !.shape = @ \o <<":">>]
             /\ nodes'[nodes[n].parameter].type = "parameter"
        /\ nodes[n].catch_all # 0 =>
             /\ where'[nodes[n].catch_all] = [where'[b] EXCEPT !.shape = @ \o <<"*">>]
             /\ nodes'[nodes[n].catch_all].type = "catch_all"
    BY <1>1 DEF Edges, Extends
  <1>4. \A i, j \in 1..Len(nodes[n].static) :
          nodes'[nodes[n].static[i]].prefix[1] = nodes'[nodes[n].static[j]].prefix[1]
            => i = j
    BY ZenonT(60), <1>1 DEF Edges
  <1>5. \A i \in 1..Len(nodes'[b].static) :
          LET c == nodes'[b].static[i] IN
          /\ nodes'[c].type = "static" /\ nodes'[c].prefix # <<>>
          /\ Plain(nodes'[c].prefix)
          /\ where'[c] = [where'[b] EXCEPT !.shape = @ \o nodes'[c].prefix]
    BY <1>2
  <1>6. \A i, j \in 1..Len(nodes'[b].static) :
          nodes'[nodes'[b].static[i]].prefix[1] = nodes'[nodes'[b].static[j]].prefix[1]
            => i = j
    BY <1>4
  <1> QED BY <1>3, <1>5, <1>6 DEF Edges, Extends

\* So a node keeps its edges if it and its children stay as they are.
LEMMA EdgesKept ==
  ASSUME TypeOK, NEW n \in NodeIds, Edges(n), nodes'[n].static = nodes[n].static,
         nodes'[n].parameter = nodes[n].parameter,
         nodes'[n].catch_all = nodes[n].catch_all, where'[n] = where[n],
         \A c \in Children(nodes[n]) : /\ nodes'[c].type = nodes[c].type
                                      /\ nodes'[c].prefix = nodes[c].prefix
                                      /\ where'[c] = where[c]
  PROVE  Edges(n)'
  BY EdgesMoved

\* ... and its place in its segment.
LEMMA SegmentKept ==
  ASSUME TypeOK, NEW n \in NodeIds, Segmented(n),
         nodes'[n].static = nodes[n].static,
         nodes'[n].parameter = nodes[n].parameter,
         nodes'[n].catch_all = nodes[n].catch_all,
         nodes'[n].type = nodes[n].type, nodes'[n].prefix = nodes[n].prefix,
         \A i \in 1..Len(nodes[n].static) :
           nodes'[nodes[n].static[i]].prefix[1] = nodes[nodes[n].static[i]].prefix[1]
  PROVE  Segmented(n)'
  BY DEF Segmented

\* RadixTree and SpecialsTakeSegments are parts of the invariant.
LEMMA InvImplies == Inv => RadixTree /\ SpecialsTakeSegments
  <1> SUFFICES ASSUME Inv PROVE RadixTree /\ SpecialsTakeSegments OBVIOUS
  <1>1. TypeOK /\ TreeInv /\ RootInv /\ SegmentInv BY DEF Inv
  <1>2. RadixTree
    <2>1. \A n, d \in NodeIds : where[n] = where[d] => n = d
      <3>1. \A n \in NodeIds : NodeIds = DOMAIN where BY <1>1, NodeTypes
      <3> QED BY <1>1, <3>1 DEF TreeInv, Tree
    <2>2. ASSUME NEW n \in NodeIds
          PROVE  LET node == nodes[n] IN
                 /\ \A i \in DOMAIN node.static :
                      LET c == node.static[i] IN
                      /\ nodes[c].type = "static" /\ nodes[c].prefix # <<>>
                      /\ Extends(c, n, nodes[c].prefix)
                      /\ \A j \in DOMAIN node.static :
                           Head(nodes[node.static[j]].prefix) =
                             Head(nodes[c].prefix) => j = i
                 /\ node.parameter # 0 =>
                      /\ Extends(node.parameter, n, <<":">>)
                      /\ nodes[node.parameter].type = "parameter"
                 /\ node.catch_all # 0 =>
                      /\ Extends(node.catch_all, n, <<"*">>)
                      /\ nodes[node.catch_all].type = "catch_all"
      <3>1. Edges(n) BY <1>1 DEF TreeInv
      <3>2. /\ DOMAIN nodes[n].static = 1..Len(nodes[n].static)
            /\ \A i \in 1..Len(nodes[n].static) : nodes[n].static[i] \in NodeIds
        BY <1>1, NodeTypes
      <3>3. \A c \in NodeIds : nodes[c].prefix # <<>> =>
              Head(nodes[c].prefix) = nodes[c].prefix[1]
        BY <1>1, NodeTypes
      <3> QED BY <3>1, <3>2, <3>3 DEF Edges
    <2>3. \A m \in Methods : roots[m] # 0 =>
            where[roots[m]] = [method |-> m, shape |-> <<>>]
      BY <1>1 DEF RootInv
    <2> QED BY <2>1, <2>2, <2>3 DEF RadixTree
  <1>3. SpecialsTakeSegments
    <2>1. AtSpecial => nodes[call.cur].type = "static"
      <3> SUFFICES ASSUME AtSpecial PROVE nodes[call.cur].type = "static" OBVIOUS
      <3>1. call # NoCall /\ call.text = <<>> /\ call.rest # <<>>
        BY DEF AtSpecial
      <3>2. call.rest[1] \in Markers BY <1>1, <3>1, CallTypes DEF AtSpecial
      <3> QED BY <1>1, <3>1, <3>2 DEF SegmentInv, CallInv
    <2>2. ASSUME NEW n \in NodeIds
          PROVE  LET node == nodes[n] IN
                 /\ node.parameter # 0 \/ node.catch_all # 0 =>
                      /\ node.type = "static" /\ node.prefix # <<>>
                      /\ Last(node.prefix) = "/"
                 /\ node.type = "parameter" =>
                      \A i \in DOMAIN node.static :
                        Head(nodes[node.static[i]].prefix) = "/"
                 /\ node.type = "catch_all" => node.static = <<>>
      <3>1. Segmented(n) /\ Edges(n) BY <1>1 DEF SegmentInv, TreeInv
      <3>2. /\ DOMAIN nodes[n].static = 1..Len(nodes[n].static)
            /\ \A i \in 1..Len(nodes[n].static) : nodes[n].static[i] \in NodeIds
        BY <1>1, NodeTypes
      <3>3. \A c \in NodeIds : nodes[c].prefix # <<>> =>
              /\ Head(nodes[c].prefix) = nodes[c].prefix[1]
              /\ Last(nodes[c].prefix) = nodes[c].prefix[Len(nodes[c].prefix)]
        BY <1>1, NodeTypes DEF Last
      <3> QED BY <3>1, <3>2, <3>3 DEF Edges, Segmented, EndsInSlash
    <2> QED BY <2>1, <2>2 DEF SpecialsTakeSegments
  <1> QED BY <1>2, <1>3

-----------------------------------------------------------------------------
(* Steps that leave the tree alone.                                        *)

\* What stays where no node changes.
LEMMA SameTree ==
  ASSUME TypeOK, TreeInv, RootInv, \A n \in NodeIds : Segmented(n), UNCHANGED tree,
         call' = NoCall \/ call' \in Calls,
         outcome' \in {"none", "invalid", "duplicate", "added"},
         dead' \subseteq Temporaries
  PROVE  /\ TypeOK' /\ TreeInv' /\ RootInv'
         /\ \A n \in NodeIds' : Segmented(n)'
  <1>1. nodes' = nodes /\ roots' = roots /\ where' = where BY DEF tree
  <1>2. NodeIds' = NodeIds BY <1>1 DEF NodeIds
  <1>3. TypeOK' BY <1>1, <1>2 DEF TypeOK, Calls
  <1>4. Kids' = Kids BY <1>1, <1>2 DEF Kids, Children
  <1>5. \A n \in NodeIds' : Edges(n)'
    BY <1>1, <1>2, EdgesKept DEF TreeInv
  <1>6. TreeInv' BY <1>1, <1>4, <1>5 DEF TreeInv
  <1>7. RootInv' BY <1>1, <1>2 DEF RootInv
  <1>8. \A n \in NodeIds' : Segmented(n)' BY <1>1, <1>2 DEF Segmented
  <1> QED BY <1>3, <1>6, <1>7, <1>8

\* An invalid pattern changes nothing.
LEMMA RejectInv ==
  ASSUME Inv, NEW m \in Methods, NEW p \in Patterns, NEW h \in Handlers,
         Reject(m, p, h)
  PROVE  Inv'
  <1>1. TypeOK /\ TreeInv /\ RootInv /\ SegmentInv BY DEF Inv
  <1>2. /\ UNCHANGED tree /\ call' = call /\ call = NoCall
        /\ outcome' = "invalid" /\ dead' = dead \cup ({h} \cap Temporaries)
    BY DEF Reject, CallEnds
  <1>3. dead' \subseteq Temporaries BY <1>1, <1>2 DEF TypeOK
  <1>4. /\ TypeOK' /\ TreeInv' /\ RootInv'
        /\ \A n \in NodeIds' : Segmented(n)'
    BY <1>1, <1>2, <1>3, SameTree DEF SegmentInv
  <1>5. CallInv' BY <1>2 DEF CallInv
  <1> QED BY <1>4, <1>5 DEF Inv, SegmentInv

\* What is left of a text.
LEMMA DropIs ==
  ASSUME NEW s \in Seq(STRING), NEW k \in 0..Len(s)
  PROVE  /\ Drop(s, k) \in Seq(STRING) /\ Len(Drop(s, k)) = Len(s) - k
         /\ \A i \in 1..(Len(s) - k) : Drop(s, k)[i] = s[i + k]
  BY DEF Drop

\* The literal text in front of the next marker goes from the rest to text.
LEMMA LiteralInv == Inv /\ Literal => Inv'
  <1> SUFFICES ASSUME Inv, Literal PROVE Inv' OBVIOUS
  <1> DEFINE r == call.rest
             k == Span(r, Markers)
  <1>1. TypeOK /\ TreeInv /\ RootInv /\ SegmentInv BY DEF Inv
  <1>2. call # NoCall /\ call.text = <<>> /\ r # <<>> /\ Head(r) \notin Markers
    BY DEF Literal
  <1>3. call \in Calls /\ r \in Seq(STRING) BY <1>1, <1>2, CallTypes
  <1>4. /\ k \in 0..Len(r) /\ \A i \in 1..k : r[i] \notin Markers
        /\ k < Len(r) => r[k + 1] \in Markers
    BY <1>3, SpanEnds
  <1>5. Len(r) \in Nat \ {0} /\ r[1] \notin Markers BY <1>2, <1>3
  <1>6. k \in 1..Len(r) BY <1>4, <1>5
  <1>7. /\ call' = [call EXCEPT !.text = SubSeq(r, 1, k), !.rest = Drop(r, k)]
        /\ UNCHANGED <<tree, outcome, dead>>
    BY DEF Literal
  <1> HIDE DEF k
  <1>8. /\ SubSeq(r, 1, k) \in Seq(STRING) /\ Len(SubSeq(r, 1, k)) = k
        /\ \A i \in 1..k : SubSeq(r, 1, k)[i] = r[i]
    BY <1>3, <1>6
  <1>9. /\ Drop(r, k) \in Seq(STRING) /\ Len(Drop(r, k)) = Len(r) - k
        /\ \A i \in 1..(Len(r) - k) : Drop(r, k)[i] = r[i + k]
    BY <1>3, <1>4, DropIs
  <1>10. call' \in Calls BY <1>3, <1>7, <1>8, <1>9 DEF Calls, Texts
  <1>11. /\ TypeOK' /\ TreeInv' /\ RootInv'
         /\ \A n \in NodeIds' : Segmented(n)'
    BY <1>1, <1>7, <1>10, SameTree DEF SegmentInv, TypeOK
  <1>12. /\ call'.text = SubSeq(r, 1, k) /\ call'.rest = Drop(r, k)
         /\ call'.cur = call.cur /\ nodes' = nodes
    BY <1>3, <1>7 DEF Calls, tree
  <1> HIDE DEF r
  <1>13. CallInv'
    <2>1. Plain(call'.text) BY <1>4, <1>8, <1>12 DEF Plain
    <2>2. ASSUME NEW i \in 2..Len(call'.rest), call'.rest[i] \in Markers
          PROVE  call'.rest[i - 1] = "/"
      <3>1. Len(r) \in Nat /\ Len(call'.rest) = Len(r) - k BY <1>3, <1>9, <1>12
      <3>2. /\ i \in 1..(Len(r) - k) /\ i - 1 \in 1..(Len(r) - k)
            /\ i + k \in 2..Len(r) /\ (i - 1) + k = (i + k) - 1
        BY <1>6, <3>1
      <3>3. call'.rest[i] = r[i + k] /\ call'.rest[i - 1] = r[(i + k) - 1]
        BY <1>9, <1>12, <3>2
      <3> DEFINE j == i + k
      <3>4. j \in 2..Len(r) /\ r[j] \in Markers BY <2>2, <3>2, <3>3
      <3> HIDE DEF j
      <3>5. r[j - 1] = "/" BY <1>1, <1>2, <3>4 DEF SegmentInv, CallInv, r
      <3> QED BY <3>3, <3>5 DEF j
    <2>3. call'.text # <<>> /\ call'.text[1] = r[1] BY <1>6, <1>8, <1>12
    <2>4. ASSUME call'.rest # <<>>, call'.rest[1] \in Markers
          PROVE  EndsInSlash(call'.text)
      <3>1. Len(r) > k /\ call'.rest[1] = r[k + 1]
        BY <1>3, <1>6, <1>9, <1>12, <2>4
      <3>2. k + 1 \in 2..Len(r) /\ r[k + 1] \in Markers
        BY <1>3, <1>6, <2>4, <3>1
      <3>3. r[k] = "/"
        BY <1>1, <1>2, <1>6, <3>2 DEF SegmentInv, CallInv, r
      <3>4. call'.text[Len(call'.text)] = r[k] BY <1>6, <1>8, <1>12
      <3> QED BY <2>3, <3>3, <3>4 DEF EndsInSlash
    <2>5. nodes'[call'.cur].type = "parameter" => call'.text[1] = "/"
      BY <1>1, <1>2, <1>12, <2>3 DEF SegmentInv, CallInv, r
    <2>6. nodes'[call'.cur].type # "catch_all"
      BY <1>1, <1>2, <1>12 DEF SegmentInv, CallInv, r
    <2> QED BY <2>1, <2>2, <2>3, <2>4, <2>5, <2>6 DEF CallInv
  <1> QED BY <1>11, <1>13 DEF Inv, SegmentInv

-----------------------------------------------------------------------------
(* insert_static.                                                          *)

\* The child that begins as the text to insert does.
LEMMA TwinIs ==
  ASSUME Inv, call # NoCall, call.text # <<>>, Twins # {}
  PROVE  /\ \E i \in 1..Len(nodes[call.cur].static) :
               Twin = nodes[call.cur].static[i]
         /\ Twin \in NodeIds /\ Twin \in Children(nodes[call.cur])
         /\ nodes[Twin].type = "static"
         /\ nodes[Twin].prefix \in Seq(STRING) /\ nodes[Twin].prefix # <<>>
         /\ nodes[Twin].prefix[1] = call.text[1]
         /\ Plain(nodes[Twin].prefix)
         /\ Extends(Twin, call.cur, nodes[Twin].prefix)
         /\ Shared \in 1..Len(nodes[Twin].prefix) /\ Shared \in 1..Len(call.text)
         /\ \A i \in 1..Shared : nodes[Twin].prefix[i] = call.text[i]
         /\ Shared < Len(nodes[Twin].prefix) /\ Shared < Len(call.text) =>
              nodes[Twin].prefix[Shared + 1] # call.text[Shared + 1]
  <1>1. TypeOK /\ TreeInv BY DEF Inv
  <1>2. call.cur \in NodeIds /\ call.text \in Seq(STRING) BY <1>1, CallTypes
  <1> DEFINE static == nodes[call.cur].static
  <1>3. /\ static \in Seq(Nat)
        /\ \A i \in 1..Len(static) : static[i] \in NodeIds
    BY <1>1, <1>2, NodeTypes
  <1>4. Min(Twins) \in Twins
    <2>1. Twins \subseteq Nat BY <1>3 DEF Twins
    <2>2. PICK m \in Twins : \A i \in Twins : m <= i BY <2>1, LeastNumber
    <2> QED BY <2>2 DEF Min
  <1>5. PICK j \in 1..Len(static) : /\ Twin = static[j]
                                   /\ Head(nodes[static[j]].prefix) = Head(call.text)
    <2> DEFINE j == Min(Twins)
    <2>1. j \in Twins /\ Twin = static[j] BY <1>4 DEF Twin
    <2> HIDE DEF j
    <2>2. j \in 1..Len(static) /\ Head(nodes[static[j]].prefix) = Head(call.text)
      BY <1>3, <2>1 DEF Twins
    <2> QED BY <2>1, <2>2
  <1>6. Twin \in NodeIds /\ Twin \in Children(nodes[call.cur])
    BY <1>3, <1>5 DEF Children, ToSet
  <1>7. /\ nodes[Twin].type = "static" /\ nodes[Twin].prefix # <<>>
        /\ Plain(nodes[Twin].prefix) /\ Extends(Twin, call.cur, nodes[Twin].prefix)
    <2>1. Edges(call.cur) BY <1>1, <1>2 DEF TreeInv
    <2> QED BY <1>5, <2>1 DEF Edges
  <1>8. nodes[Twin].prefix \in Seq(STRING) BY <1>1, <1>6, NodeTypes
  <1>9. Head(nodes[Twin].prefix) = Head(call.text) BY <1>5
  <1>10. nodes[Twin].prefix[1] = call.text[1] BY <1>2, <1>7, <1>8, <1>9
  <1>11. /\ Shared \in 1..Len(nodes[Twin].prefix) /\ Shared <= Len(call.text)
         /\ \A i \in 1..Shared : nodes[Twin].prefix[i] = call.text[i]
         /\ Shared < Len(nodes[Twin].prefix) /\ Shared < Len(call.text) =>
              nodes[Twin].prefix[Shared + 1] # call.text[Shared + 1]
    BY <1>2, <1>7, <1>8, <1>9, CommonPrefixIs DEF Shared
  <1>12. Shared \in 1..Len(call.text)
    <2>1. Len(call.text) \in Nat /\ Len(nodes[Twin].prefix) \in Nat
      BY <1>2, <1>8
    <2> QED BY <1>11, <2>1
  <1> QED BY <1>5, <1>6, <1>7, <1>8, <1>10, <1>11, <1>12

\* No child begins as the text to insert does.
LEMMA NoTwin ==
  ASSUME Inv, call # NoCall, call.text # <<>>, Twins = {}
  PROVE  \A i \in 1..Len(nodes[call.cur].static) :
           nodes[nodes[call.cur].static[i]].prefix[1] # call.text[1]
  <1>1. TypeOK /\ TreeInv BY DEF Inv
  <1>2. call.cur \in NodeIds /\ call.text \in Seq(STRING) BY <1>1, CallTypes
  <1> DEFINE static == nodes[call.cur].static
  <1>3. /\ static \in Seq(Nat) /\ DOMAIN static = 1..Len(static)
        /\ \A i \in 1..Len(static) : static[i] \in NodeIds
    BY <1>1, <1>2, NodeTypes
  <1> TAKE i \in 1..Len(static)
  <1>4. nodes[static[i]].type = "static" /\ nodes[static[i]].prefix # <<>>
    BY <1>1, <1>2 DEF TreeInv, Edges
  <1>5. nodes[static[i]].prefix \in Seq(STRING) BY <1>1, <1>3, NodeTypes
  <1>6. Head(nodes[static[i]].prefix) # Head(call.text)
    BY <1>3, <1>4 DEF Twins
  <1> QED BY <1>2, <1>4, <1>5, <1>6

\* The first k symbols of the text are in the tree: the call goes on below the
\* static node c that has them.
Inserted(k, c) ==
  /\ call # NoCall /\ k \in 1..Len(call.text) /\ c \in NodeIds'
  /\ call' = [call EXCEPT !.cur = c, !.text = Drop(call.text, k)]
  /\ nodes'[c].type = "static" /\ nodes'[c].prefix \in Seq(STRING)
  /\ Len(nodes'[c].prefix) = k
  /\ \A i \in 1..k : nodes'[c].prefix[i] = call.text[i]

\* What that leaves to insert is as it should be.
LEMMA TextShortens ==
  ASSUME Inv, NEW k, NEW c, Inserted(k, c)
  PROVE  CallInv' /\ call' \in Calls'
  <1>0. /\ call # NoCall /\ k \in 1..Len(call.text) /\ c \in NodeIds'
        /\ call' = [call EXCEPT !.cur = c, !.text = Drop(call.text, k)]
        /\ nodes'[c].type = "static" /\ nodes'[c].prefix \in Seq(STRING)
        /\ Len(nodes'[c].prefix) = k
        /\ \A i \in 1..k : nodes'[c].prefix[i] = call.text[i]
    BY DEF Inserted
  <1> USE <1>0
  <1> DEFINE t == call.text
  <1>1. TypeOK /\ SegmentInv BY DEF Inv
  <1>2. call \in Calls /\ t \in Seq(STRING) BY <1>1, CallTypes
  <1>3. Len(t) \in Nat /\ k \in 0..Len(t) /\ t # <<>> BY <1>2
  <1>4. /\ Drop(t, k) \in Seq(STRING) /\ Len(Drop(t, k)) = Len(t) - k
        /\ \A i \in 1..(Len(t) - k) : Drop(t, k)[i] = t[i + k]
    BY <1>2, <1>3, DropIs
  <1>5. call' \in Calls' BY <1>2, <1>4 DEF Calls, Texts
  <1>6. /\ call'.cur = c /\ call'.text = Drop(t, k)
        /\ call'.rest = call.rest
    BY <1>2 DEF Calls
  <1>7. Plain(t)  BY <1>1 DEF SegmentInv, CallInv
  <1>8. Plain(call'.text)
    <2> SUFFICES ASSUME NEW i \in 1..Len(call'.text)
                 PROVE  call'.text[i] \notin Markers
      BY DEF Plain
    <2>1. i \in 1..(Len(t) - k) BY <1>4, <1>6
    <2>2. i + k \in 1..Len(t) BY <1>3, <2>1
    <2>3. call'.text[i] = t[i + k] BY <1>4, <1>6, <2>1
    <2> DEFINE j == i + k
    <2>4. j \in 1..Len(t) /\ call'.text[i] = t[j] BY <2>2, <2>3
    <2> HIDE DEF j
    <2> QED BY <1>7, <2>4 DEF Plain
  <1>9. ASSUME call.rest # <<>>, call.rest[1] \in Markers
        PROVE  IF call'.text = <<>> THEN EndsInSlash(nodes'[c].prefix)
               ELSE EndsInSlash(call'.text)
    <2>1. t[Len(t)] = "/" BY <1>1, <1>3, <1>9 DEF SegmentInv, CallInv, EndsInSlash
    <2>2. CASE k = Len(t)
      <3>1. nodes'[c].prefix[k] = t[k] /\ nodes'[c].prefix # <<>> BY <1>3
      <3>2. EndsInSlash(nodes'[c].prefix) BY <2>1, <2>2, <3>1 DEF EndsInSlash
      <3>3. call'.text = <<>> BY <1>3, <1>4, <1>6, <2>2
      <3> QED BY <3>2, <3>3
    <2>3. CASE k # Len(t)
      <3>1. Len(t) - k \in 1..(Len(t) - k) /\ (Len(t) - k) + k = Len(t)
        <4> DEFINE n == Len(t)
        <4>1. n \in Nat /\ k \in 1..n /\ k # n BY <1>3, <2>3
        <4> HIDE DEF n
        <4>2. n - k \in 1..(n - k) /\ (n - k) + k = n BY <4>1
        <4> QED BY <4>2 DEF n
      <3>2. call'.text # <<>> /\ call'.text[Len(t) - k] = t[Len(t)]
        BY <1>4, <1>6, <3>1
      <3> QED BY <1>4, <1>6, <2>1, <3>2 DEF EndsInSlash
    <2> QED BY <2>2, <2>3
  <1>10. CallInv'
    BY <1>1, <1>6, <1>8, <1>9 DEF CallInv, SegmentInv
  <1> QED BY <1>5, <1>10

\* The text goes on below a child that it starts with.
LEMMA DescendInv == Inv /\ Descend => Inv'
  <1> SUFFICES ASSUME Inv, Descend PROVE Inv' OBVIOUS
  <1>1. TypeOK /\ TreeInv /\ RootInv /\ SegmentInv BY DEF Inv
  <1>2. /\ call # NoCall /\ call.text # <<>> /\ Twins # {}
        /\ Shared = Len(nodes[Twin].prefix)
        /\ call' = [call EXCEPT !.cur = Twin, !.text = Drop(call.text, Shared)]
        /\ UNCHANGED <<tree, outcome, dead>>
    BY DEF Descend
  <1>3. /\ Twin \in NodeIds /\ nodes[Twin].type = "static"
        /\ nodes[Twin].prefix \in Seq(STRING)
        /\ Shared \in 1..Len(call.text)
        /\ \A i \in 1..Shared : nodes[Twin].prefix[i] = call.text[i]
    BY <1>2, TwinIs
  <1>4. nodes' = nodes /\ NodeIds' = NodeIds BY <1>2 DEF tree, NodeIds
  <1> DEFINE k == Shared
             c == Twin
  <1>5. /\ k \in 1..Len(call.text) /\ c \in NodeIds'
        /\ call' = [call EXCEPT !.cur = c, !.text = Drop(call.text, k)]
        /\ nodes'[c].type = "static" /\ nodes'[c].prefix \in Seq(STRING)
        /\ Len(nodes'[c].prefix) = k
        /\ \A i \in 1..k : nodes'[c].prefix[i] = call.text[i]
    BY <1>2, <1>3, <1>4
  <1> HIDE DEF k, c
  <1>5a. Inserted(k, c) BY <1>2, <1>5 DEF Inserted
  <1>6. CallInv' /\ call' \in Calls' BY <1>5a, TextShortens
  <1>7. call' \in Calls BY <1>4, <1>6 DEF Calls
  <1>8. /\ TypeOK' /\ TreeInv' /\ RootInv'
        /\ \A n \in NodeIds' : Segmented(n)'
    BY <1>1, <1>2, <1>7, SameTree DEF SegmentInv, TypeOK
  <1> QED BY <1>6, <1>8 DEF Inv, SegmentInv

\* The symbol that leads to a child is that of its edge.
LEMMA ChildSymbols ==
  ASSUME Inv, NEW n \in NodeIds
  PROVE  /\ \A i \in 1..Len(nodes[n].static) :
              /\ Towards(where, n, nodes[n].static[i]) =
                   nodes[nodes[n].static[i]].prefix[1]
              /\ Towards(where, n, nodes[n].static[i]) \notin Markers
         /\ nodes[n].parameter # 0 => Towards(where, n, nodes[n].parameter) = ":"
         /\ nodes[n].catch_all # 0 => Towards(where, n, nodes[n].catch_all) = "*"
  <1>1. TypeOK /\ Edges(n) BY DEF Inv, TreeInv
  <1>2. where[n] \in Places BY <1>1, NodeTypes
  <1> DEFINE S == STRING \cup Markers
  <1>3. ASSUME NEW c \in NodeIds, NEW w \in Seq(S), w # <<>>, Extends(c, n, w)
        PROVE  Towards(where, n, c) = w[1]
    <2>1. where[n].shape \in Seq(S)
      <3>1. where[n].shape \in Seq(STRING) BY <1>2 DEF Places, Texts
      <3> QED BY <3>1
    <2>2. where[c].shape = where[n].shape \o w BY <1>2, <1>3 DEF Extends, Places
    <2>3. (where[n].shape \o w)[Len(where[n].shape) + 1] = w[1] BY <1>3, <2>1
    <2> QED BY <2>2, <2>3 DEF Towards
  <1>4. ASSUME NEW i \in 1..Len(nodes[n].static)
        PROVE  /\ Towards(where, n, nodes[n].static[i]) =
                    nodes[nodes[n].static[i]].prefix[1]
               /\ Towards(where, n, nodes[n].static[i]) \notin Markers
    <2> DEFINE c == nodes[n].static[i]
    <2>1. c \in NodeIds BY <1>1, NodeTypes
    <2>2. /\ nodes[c].prefix # <<>> /\ Plain(nodes[c].prefix)
          /\ Extends(c, n, nodes[c].prefix)
      BY <1>1 DEF Edges
    <2>3. nodes[c].prefix \in Seq(STRING) BY <1>1, <2>1, NodeTypes
    <2>0. nodes[c].prefix \in Seq(S) BY <2>3
    <2> HIDE DEF c
    <2>4. Towards(where, n, c) = nodes[c].prefix[1] BY <1>3, <2>0, <2>1, <2>2
    <2>5. nodes[c].prefix[1] \notin Markers
      <3>1. 1 \in 1..Len(nodes[c].prefix) BY <2>2, <2>3
      <3> QED BY <2>2, <3>1 DEF Plain
    <2> QED BY <2>4, <2>5 DEF c
  <1>5. /\ <<":">> \in Seq(S) /\ <<":">> # <<>> /\ <<":">>[1] = ":"
        /\ <<"*">> \in Seq(S) /\ <<"*">> # <<>> /\ <<"*">>[1] = "*"
    BY DEF Markers
  <1>6. nodes[n].parameter # 0 => Towards(where, n, nodes[n].parameter) = ":"
    BY <1>1, <1>3, <1>5, NodeTypes DEF Edges
  <1>7. nodes[n].catch_all # 0 => Towards(where, n, nodes[n].catch_all) = "*"
    BY <1>1, <1>3, <1>5, NodeTypes DEF Edges
  <1> QED BY <1>4, <1>6, <1>7

\* A place further on.
LEMMA LongerPlace ==
  ASSUME NEW u \in Places, NEW w
  PROVE  [u EXCEPT !.shape = @ \o w] = [method |-> u.method, shape |-> u.shape \o w]
  <1> DEFINE s == u.shape \o w
  <1>1. [u EXCEPT !.shape = @ \o w] = [u EXCEPT !.shape = s] BY Zenon
  <1> HIDE DEF s
  <1>2. [u EXCEPT !.shape = s] = [method |-> u.method, shape |-> s] BY DEF Places
  <1> QED BY <1>1, <1>2, Zenon DEF s

\* A node n gets a new child x at the text w from it: what add_route's two
\* ways to do that have in common.
Adds(n, w, x) ==
  /\ n \in NodeIds /\ w \in Texts /\ w # <<>>
  /\ x = Len(nodes) + 1 /\ roots' = roots
  /\ nodes' \in Seq(Nodes) /\ NodeIds' = NodeIds \cup {x}
  /\ \A a \in NodeIds : a # n => nodes'[a] = nodes[a]
  /\ nodes'[n].type = nodes[n].type /\ nodes'[n].prefix = nodes[n].prefix
  /\ Children(nodes'[n]) = Children(nodes[n]) \cup {x}
  /\ Children(nodes'[x]) = {}
  /\ where' = Append(where, [where[n] EXCEPT !.shape = @ \o w])
  /\ \A c \in Children(nodes[n]) : Towards(where, n, c) # Head(w)

\* That grows the tree and leaves the other nodes as they are.
LEMMA NewChild ==
  ASSUME Inv, NEW n, NEW w, NEW x, Adds(n, w, x)
  PROVE  /\ where' \in Seq(Places) /\ Len(where') = Len(nodes')
         /\ \A a \in NodeIds : where'[a] = where[a]
         /\ where'[x] = [where[n] EXCEPT !.shape = @ \o w]
         /\ Tree(where', Kids') /\ RootInv'
         /\ \A a \in NodeIds : a # n => Edges(a)'
         /\ \A c \in NodeIds : /\ nodes'[c].type = nodes[c].type
                               /\ nodes'[c].prefix = nodes[c].prefix
  <1>0. /\ n \in NodeIds /\ w \in Texts /\ w # <<>>
        /\ x = Len(nodes) + 1 /\ roots' = roots
        /\ nodes' \in Seq(Nodes) /\ NodeIds' = NodeIds \cup {x}
        /\ \A a \in NodeIds : a # n => nodes'[a] = nodes[a]
        /\ nodes'[n].type = nodes[n].type /\ nodes'[n].prefix = nodes[n].prefix
        /\ Children(nodes'[n]) = Children(nodes[n]) \cup {x}
        /\ Children(nodes'[x]) = {}
        /\ where' = Append(where, [where[n] EXCEPT !.shape = @ \o w])
        /\ \A c \in Children(nodes[n]) : Towards(where, n, c) # Head(w)
    BY DEF Adds
  <1> USE <1>0
  <1>1. TypeOK /\ TreeInv /\ RootInv BY DEF Inv
  <1>2. /\ where \in Seq(Places) /\ DOMAIN where = NodeIds
        /\ NodeIds = 1..Len(nodes) /\ Len(nodes) \in Nat
        /\ where[n] \in Places
    BY <1>1, NodeTypes
  <1>3. x \notin NodeIds /\ x = Len(where) + 1
    <2>1. Len(where) = Len(nodes) BY <1>1 DEF TypeOK
    <2> QED BY <1>2, <2>1
  <1> DEFINE p == [method |-> where[n].method, shape |-> where[n].shape \o w]
  <1>4. [where[n] EXCEPT !.shape = @ \o w] = p /\ p \in Places
    <2>1. where[n].method \in Methods /\ where[n].shape \in Seq(STRING)
      BY <1>2 DEF Places, Texts
    <2>2. where[n].shape \o w \in Seq(STRING) BY <2>1 DEF Texts
    <2>3. p \in Places BY <2>1, <2>2 DEF Places, Texts
    <2>4. [where[n] EXCEPT !.shape = @ \o w] = p
      BY <1>2, LongerPlace, Zenon DEF p
    <2> QED BY <2>3, <2>4
  <1> HIDE DEF p
  <1>5. /\ where' \in Seq(Places) /\ DOMAIN where' = NodeIds \cup {x}
        /\ Len(where') = Len(nodes) + 1
        /\ \A a \in NodeIds : where'[a] = where[a]
        /\ where'[x] = p
    <2>1. where' = Append(where, p) BY <1>4
    <2>2. Len(where) \in Nat /\ NodeIds = 1..Len(where)
      BY <1>2, LenProperties
    <2>3. /\ where' \in Seq(Places) /\ Len(where') = Len(where) + 1
          /\ \A a \in 1..Len(where) : where'[a] = where[a]
          /\ where'[Len(where) + 1] = p
      BY <1>2, <1>4, <2>1, AppendProperties
    <2>4. DOMAIN where' = 1..(Len(where) + 1) BY <2>3, LenProperties
    <2>5. 1..(Len(where) + 1) = 1..Len(where) \cup {Len(where) + 1}
      <3> DEFINE k == Len(where)
      <3>1. k \in Nat BY <2>2
      <3> HIDE DEF k
      <3>2. 1..(k + 1) = 1..k \cup {k + 1} BY <3>1
      <3> QED BY <3>2 DEF k
    <2> QED BY <1>1, <1>3, <2>2, <2>3, <2>4, <2>5 DEF TypeOK
  <1>6. Len(where') = Len(nodes')
    <2>1. NodeIds' = 1..Len(nodes') /\ Len(nodes') \in Nat
      BY LenProperties DEF NodeIds
    <2>2. DOMAIN where' = 1..Len(where') /\ Len(where') \in Nat
      BY <1>5, LenProperties
    <2>3. 1..Len(nodes') = 1..Len(where') BY <1>5, <2>1, <2>2
    <2> QED BY <2>1, <2>2, <2>3
  <1>7. \A c \in NodeIds : /\ nodes'[c].type = nodes[c].type
                          /\ nodes'[c].prefix = nodes[c].prefix
    OBVIOUS
  <1>8. Tree(where', Kids')
    <2>1. /\ \A a \in NodeIds : Kids'[a] = IF a = n THEN Kids[a] \cup {x} ELSE Kids[a]
          /\ Kids'[x] = {} /\ Kids[n] = Children(nodes[n])
      BY <1>3 DEF Kids
    <2>2. Tree(where, Kids) BY <1>1 DEF TreeInv
    <2>3. Grown(where, Kids, n, w, where', Kids', x)
      BY <1>2, <1>3, <1>5, <2>1, <2>2 DEF p, Grown
    <2> QED BY <2>2, <2>3, NewLeaf
  <1>9. RootInv'
    <2>1. ASSUME NEW m \in Methods, roots[m] # 0
          PROVE  /\ where'[roots[m]] = [method |-> m, shape |-> <<>>]
                 /\ nodes'[roots[m]].type = "static"
      <3>1. roots[m] \in NodeIds BY <1>1, <2>1 DEF TypeOK
      <3> QED BY <1>1, <1>5, <1>7, <2>1, <3>1 DEF RootInv
    <2>2. ASSUME NEW a \in NodeIds' PROVE roots[where'[a].method] # 0
      <3>1. CASE a \in NodeIds BY <1>1, <1>5, <3>1 DEF RootInv
      <3>2. CASE a = x BY <1>1, <1>5, <3>2 DEF RootInv, p
      <3> QED BY <3>1, <3>2
    <2> QED BY <2>1, <2>2 DEF RootInv
  <1>10. ASSUME NEW a \in NodeIds, a # n PROVE Edges(a)'
    <2>1. nodes'[a] = nodes[a] /\ where'[a] = where[a] BY <1>5, <1>10
    <2>2. \A c \in Children(nodes[a]) : /\ nodes'[c].type = nodes[c].type
                                       /\ nodes'[c].prefix = nodes[c].prefix
                                       /\ where'[c] = where[c]
      BY <1>1, <1>5, <1>7, NodeTypes
    <2>3. Edges(a) BY <1>1 DEF TreeInv
    <2> QED BY <1>1, <2>1, <2>2, <2>3, EdgesKept
  <1> QED BY <1>4, <1>5, <1>6, <1>7, <1>8, <1>9, <1>10

\* A sequence with one element changed and one more.
LEMMA ChangedAndAppended ==
  ASSUME NEW S, NEW s \in Seq(S), NEW n \in DOMAIN s, NEW e \in S, NEW f \in S,
         NEW V, V = Append([s EXCEPT ![n] = e], f)
  PROVE  /\ V \in Seq(S) /\ Len(V) = Len(s) + 1
         /\ DOMAIN V = DOMAIN s \cup {Len(s) + 1} /\ Len(s) + 1 \notin DOMAIN s
         /\ V[n] = e /\ V[Len(s) + 1] = f
         /\ \A a \in DOMAIN s : a # n => V[a] = s[a]
  <1> DEFINE l == Len(s)
             t == [s EXCEPT ![n] = e]
  <1>1. l \in Nat /\ DOMAIN s = 1..l BY LenProperties
  <1>2. /\ t \in Seq(S) /\ Len(t) = l /\ t[n] = e
        /\ \A a \in DOMAIN s : a # n => t[a] = s[a]
    BY <1>1, ExceptSeq
  <1> HIDE DEF l, t
  <1>3. /\ V \in Seq(S) /\ Len(V) = l + 1 /\ V[l + 1] = f
        /\ \A a \in 1..l : V[a] = t[a]
    BY <1>1, <1>2, AppendProperties DEF t
  <1>4. DOMAIN V = 1..(l + 1) BY <1>3, LenProperties
  <1>5. 1..(l + 1) = 1..l \cup {l + 1} /\ l + 1 \notin 1..l BY <1>1
  <1> QED BY <1>1, <1>2, <1>3, <1>4, <1>5 DEF l

\* The types, from what they are made of.
LEMMA MakeTypes ==
  ASSUME nodes' \in Seq(Nodes), where' \in Seq(Places), Len(where') = Len(nodes'),
         \A n \in NodeIds' : \A c \in Children(nodes'[n]) : c \in NodeIds',
         roots' \in [Methods -> NodeIds' \cup {0}],
         call' = NoCall \/ call' \in Calls',
         outcome' \in {"none", "invalid", "duplicate", "added"},
         dead' \subseteq Temporaries
  PROVE  TypeOK'
  <1>1. \A n \in NodeIds' :
          /\ ToSet(nodes'[n].static) \subseteq NodeIds'
          /\ {nodes'[n].parameter, nodes'[n].catch_all} \subseteq NodeIds' \cup {0}
    BY DEF Children
  <1> QED BY <1>1 DEF TypeOK, Nodes, Places, Calls

\* A node without children.
LEMMA FreshNode ==
  ASSUME NEW x, nodes'[x].static = <<>>, nodes'[x].parameter = 0,
         nodes'[x].catch_all = 0
  PROVE  Edges(x)' /\ Segmented(x)' /\ Children(nodes'[x]) = {}
  <1>1. Len(<<>>) = 0 /\ 1..0 = {} OBVIOUS
  <1>2. Edges(x)' BY <1>1 DEF Edges
  <1>3. Segmented(x)' BY <1>1 DEF Segmented
  <1>4. Children(nodes'[x]) = {} BY DEF Children, ToSet
  <1> QED BY <1>2, <1>3, <1>4

\* A new static child takes all of the text.
LEMMA GrowInv == Inv /\ Grow => Inv'
  <1> SUFFICES ASSUME Inv, Grow PROVE Inv' OBVIOUS
  <1>1. TypeOK /\ TreeInv /\ RootInv /\ SegmentInv BY DEF Inv
  <1>0. PICK n \in NodeIds, w \in Seq(STRING), x \in Nat :
          n = call.cur /\ w = call.text /\ x = Len(nodes) + 1
    <2>1. /\ call.cur \in NodeIds /\ call.text \in Seq(STRING)
          /\ Len(nodes) + 1 \in Nat
      BY <1>1, CallTypes, NodeTypes DEF Grow
    <2> QED BY <2>1
  <1> DEFINE e == [nodes[n] EXCEPT !.static = Append(@, x)]
  <1>2. /\ call # NoCall /\ w # <<>> /\ Twins = {}
        /\ nodes' = Append([nodes EXCEPT ![n] = e], NewNode("static", w))
        /\ where' = Append(where, [where[n] EXCEPT !.shape = @ \o w])
        /\ call' = [call EXCEPT !.cur = x, !.text = <<>>]
        /\ UNCHANGED <<roots, outcome, dead>>
    BY <1>0 DEF Grow
  <1>3. /\ n \in NodeIds /\ w \in Seq(STRING) /\ call \in Calls
        /\ nodes \in Seq(Nodes) /\ NodeIds = DOMAIN nodes
    BY <1>1, <1>2, CallTypes, NodeTypes DEF NodeIds
  <1>4. /\ nodes[n] \in Nodes /\ nodes[n].static \in Seq(Nat) /\ x \in Nat
        /\ \A i \in 1..Len(nodes[n].static) : nodes[n].static[i] \in NodeIds
    BY <1>1, <1>3, NodeTypes
  <1>4a. PICK static \in Seq(Nat), k \in Nat :
           static = Append(nodes[n].static, x) /\ k = Len(nodes[n].static)
    <2>1. /\ Append(nodes[n].static, x) \in Seq(Nat)
          /\ Len(nodes[n].static) \in Nat
      BY <1>4
    <2> QED BY <2>1
  <1>5. /\ static \in Seq(Nat) /\ Len(static) = k + 1 /\ k \in Nat
        /\ \A i \in 1..k : static[i] = nodes[n].static[i]
        /\ static[k + 1] = x
    BY <1>4, <1>4a
  <1>6. /\ e \in Nodes /\ e.static = static /\ e.type = nodes[n].type
        /\ e.prefix = nodes[n].prefix /\ e.parameter = nodes[n].parameter
        /\ e.catch_all = nodes[n].catch_all
    BY <1>4, <1>4a, <1>5 DEF Nodes
  <1>7. NewNode("static", w) \in Nodes
    BY <1>3 DEF NewNode, Nodes, Kinds, Texts
  <1> HIDE DEF e
  <1>8. /\ nodes' \in Seq(Nodes) /\ NodeIds' = NodeIds \cup {x}
        /\ x \notin NodeIds
        /\ nodes'[n] = e /\ nodes'[x] = NewNode("static", w)
        /\ \A a \in NodeIds : a # n => nodes'[a] = nodes[a]
    BY <1>0, <1>2, <1>3, <1>6, <1>7, ChangedAndAppended DEF NodeIds
  <1>9. /\ nodes'[x].type = "static" /\ nodes'[x].prefix = w
        /\ nodes'[x].static = <<>> /\ nodes'[x].parameter = 0
        /\ nodes'[x].catch_all = 0
    BY <1>8 DEF NewNode
  <1>10. Edges(x)' /\ Segmented(x)' /\ Children(nodes'[x]) = {} BY <1>9, FreshNode
  <1>11. Children(nodes'[n]) = Children(nodes[n]) \cup {x}
    <2>1. ToSet(static) = ToSet(nodes[n].static) \cup {x}
      <3>1. DOMAIN static = 1..(k + 1) /\ DOMAIN nodes[n].static = 1..k
        BY <1>4, <1>4a, <1>5
      <3>2. 1..(k + 1) = 1..k \cup {k + 1} BY <1>5
      <3> QED BY <1>5, <3>1, <3>2 DEF ToSet
    <2> QED BY <1>6, <1>8, <2>1 DEF Children
  <1>12. \A c \in Children(nodes[n]) : Towards(where, n, c) # Head(w)
    <2>1. /\ Head(w) = w[1] /\ w[1] \notin Markers
      <3>1. Head(w) = w[1] /\ 1 \in 1..Len(w) BY <1>2, <1>3
      <3>2. Plain(w) BY <1>0, <1>1, <1>2 DEF SegmentInv, CallInv
      <3> QED BY <3>1, <3>2 DEF Plain
    <2>2. \A i \in 1..k : Towards(where, n, nodes[n].static[i]) # w[1]
      BY <1>2, <1>3, ChildSymbols, NoTwin, <1>0, <1>4a
    <2>3. /\ nodes[n].parameter # 0 => Towards(where, n, nodes[n].parameter) # w[1]
          /\ nodes[n].catch_all # 0 => Towards(where, n, nodes[n].catch_all) # w[1]
      BY <1>3, <2>1, ChildSymbols DEF Markers
    <2>4. ASSUME NEW c \in ToSet(nodes[n].static)
          PROVE  Towards(where, n, c) # w[1]
      <3>1. DOMAIN nodes[n].static = 1..k BY <1>4, <1>4a
      <3> QED BY <2>2, <3>1 DEF ToSet
    <2> QED BY <2>1, <2>3, <2>4 DEF Children
  <1>13. /\ where' \in Seq(Places) /\ Len(where') = Len(nodes')
         /\ \A a \in NodeIds : where'[a] = where[a]
         /\ where'[x] = [where[n] EXCEPT !.shape = @ \o w]
         /\ Tree(where', Kids') /\ RootInv'
         /\ \A a \in NodeIds : a # n => Edges(a)'
         /\ \A c \in NodeIds : /\ nodes'[c].type = nodes[c].type
                               /\ nodes'[c].prefix = nodes[c].prefix
    <2>1. w \in Texts BY <1>3 DEF Texts
    <2>2. /\ nodes'[n].type = nodes[n].type /\ nodes'[n].prefix = nodes[n].prefix
          /\ roots' = roots
      BY <1>2, <1>6, <1>8
    <2>3. /\ where' = Append(where, [where[n] EXCEPT !.shape = @ \o w])
          /\ x = Len(nodes) + 1 /\ w # <<>>
      BY <1>0, <1>2
    <2>4. /\ nodes' \in Seq(Nodes) /\ NodeIds' = NodeIds \cup {x}
          /\ \A a \in NodeIds : a # n => nodes'[a] = nodes[a]
          /\ Children(nodes'[x]) = {}
      BY <1>8, <1>10
    <2>5. Adds(n, w, x) BY <1>11, <1>12, <2>1, <2>2, <2>3, <2>4 DEF Adds
    <2> QED BY <2>5, NewChild
  <1>13a. ASSUME NEW i \in 1..k
          PROVE  nodes'[static[i]].prefix = nodes[nodes[n].static[i]].prefix
    BY <1>4, <1>4a, <1>5, <1>13
  <1>14. Edges(n)'
    <2>1. Edges(n) BY <1>1, <1>3 DEF TreeInv
    <2>2. ASSUME NEW i \in 1..(k + 1)
          PROVE  LET c == static[i] IN
                 /\ nodes'[c].type = "static" /\ nodes'[c].prefix # <<>>
                 /\ Plain(nodes'[c].prefix)
                 /\ where'[c] = [where'[n] EXCEPT !.shape = @ \o nodes'[c].prefix]
      <3>1. CASE i = k + 1
        <4>1. Plain(w) BY <1>0, <1>1, <1>2 DEF SegmentInv, CallInv
        <4> QED BY <1>2, <1>3, <1>5, <1>9, <1>13, <3>1, <4>1
      <3>2. CASE i # k + 1
        <4>1. i \in 1..k /\ static[i] = nodes[n].static[i] BY <1>5, <3>2
        <4> DEFINE c == nodes[n].static[i]
        <4>2. /\ nodes[c].type = "static" /\ nodes[c].prefix # <<>>
              /\ Plain(nodes[c].prefix)
              /\ where[c] = [where[n] EXCEPT !.shape = @ \o nodes[c].prefix]
              /\ c \in NodeIds
          BY <1>4, <2>1, <4>1, <1>4a DEF Edges, Extends
        <4> HIDE DEF c
        <4> QED BY ZenonT(60), <1>3, <1>13, <4>1, <4>2 DEF c
      <3> QED BY <3>1, <3>2
    <2>3. \A i, j \in 1..(k + 1) :
            nodes'[static[i]].prefix[1] = nodes'[static[j]].prefix[1] => i = j
      <3>1. \A i \in 1..k : nodes'[static[i]].prefix[1] # w[1]
        <4>1. \A i \in 1..k : nodes[nodes[n].static[i]].prefix[1] # w[1]
          BY <1>0, <1>2, <1>4a, NoTwin
        <4> QED BY <1>13a, <4>1
      <3>2. nodes'[static[k + 1]].prefix[1] = w[1] BY <1>5, <1>9
      <3>3. \A i, j \in 1..k :
              nodes'[static[i]].prefix[1] = nodes'[static[j]].prefix[1] => i = j
        <4>1. \A i, j \in 1..k :
                nodes[nodes[n].static[i]].prefix[1] =
                  nodes[nodes[n].static[j]].prefix[1] => i = j
          BY <1>4a, <2>1 DEF Edges
        <4> QED BY <1>13a, <4>1
      <3>4. \A i \in 1..(k + 1) : i \in 1..k \/ i = k + 1 BY <1>5
      <3> QED BY <3>1, <3>2, <3>3, <3>4
    <2>4. /\ nodes[n].parameter # 0 =>
               /\ where'[nodes[n].parameter] = [where'[n] EXCEPT !.shape = @ \o <<":">>]
               /\ nodes'[nodes[n].parameter].type = "parameter"
          /\ nodes[n].catch_all # 0 =>
               /\ where'[nodes[n].catch_all] = [where'[n] EXCEPT !.shape = @ \o <<"*">>]
               /\ nodes'[nodes[n].catch_all].type = "catch_all"
      <3>1. /\ nodes[n].parameter # 0 => nodes[n].parameter \in NodeIds
            /\ nodes[n].catch_all # 0 => nodes[n].catch_all \in NodeIds
        BY <1>1, <1>3, NodeTypes
      <3> QED BY ZenonT(60), <1>3, <1>13, <2>1, <3>1 DEF Edges, Extends
    <2>5. /\ nodes'[n].static = static /\ Len(static) = k + 1
          /\ nodes'[n].parameter = nodes[n].parameter
          /\ nodes'[n].catch_all = nodes[n].catch_all
      BY <1>5, <1>6, <1>8
    <2> QED BY <2>2, <2>3, <2>4, <2>5 DEF Edges, Extends
  <1>15. \A a \in NodeIds' : Edges(a)' BY <1>8, <1>10, <1>13, <1>14
  <1>16. \A a \in NodeIds' : Segmented(a)'
    <2>1. ASSUME NEW a \in NodeIds, a # n PROVE Segmented(a)'
      <3>1. Segmented(a) BY <1>1 DEF SegmentInv
      <3>2. \A i \in 1..Len(nodes[a].static) : nodes[a].static[i] \in NodeIds
        BY <1>1, NodeTypes
      <3> QED BY <1>1, <1>8, <1>13, <2>1, <3>1, <3>2, SegmentKept
    <2>2. Segmented(n)'
      <3>1. Segmented(n) BY <1>1, <1>3 DEF SegmentInv
      <3>2. /\ nodes[n].type # "catch_all"
            /\ nodes[n].type = "parameter" => w[1] = "/"
        BY <1>0, <1>1, <1>2 DEF SegmentInv, CallInv
      <3>3. nodes[n].type = "parameter" =>
              \A i \in 1..(k + 1) : nodes'[static[i]].prefix[1] = "/"
        <4> SUFFICES ASSUME nodes[n].type = "parameter", NEW i \in 1..(k + 1)
                     PROVE  nodes'[static[i]].prefix[1] = "/"
          OBVIOUS
        <4>1. CASE i = k + 1 BY <1>5, <1>9, <3>2, <4>1
        <4>2. CASE i # k + 1
          <5>1. i \in 1..k /\ static[i] = nodes[n].static[i]
                /\ static[i] \in NodeIds
            BY <1>4, <1>4a, <1>5, <4>2
          <5> QED BY ZenonT(60), <1>13, <3>1, <5>1, <1>4a DEF Segmented
        <4> QED BY <4>1, <4>2
      <3> QED BY <1>5, <1>6, <1>8, <3>1, <3>2, <3>3 DEF Segmented
    <2> QED BY <1>8, <1>10, <2>1, <2>2
  <1>17. CallInv' /\ call' \in Calls'
    <2> DEFINE l == Len(w)
    <2>1. l \in 1..Len(w) BY <1>2, <1>3
    <2>2. Drop(w, l) = <<>>
      <3>1. Drop(w, l) \in Seq(STRING) /\ Len(Drop(w, l)) = Len(w) - l
        BY <1>3, <2>1, DropIs
      <3> QED BY <1>3, <3>1
    <2>3. call' = [call EXCEPT !.cur = x, !.text = Drop(w, l)] BY <1>0, <1>2, <2>2
    <2>4. x \in NodeIds' BY <1>8
    <2>5. /\ nodes'[x].type = "static" /\ nodes'[x].prefix \in Seq(STRING)
          /\ Len(nodes'[x].prefix) = l
          /\ \A i \in 1..l : nodes'[x].prefix[i] = w[i]
      BY <1>3, <1>9
    <2> HIDE DEF l
    <2>6. Inserted(l, x) BY <1>0, <1>2, <2>1, <2>3, <2>4, <2>5 DEF Inserted
    <2> QED BY <2>6, TextShortens
  <1>18. TypeOK'
    <2>1. \A a \in NodeIds' : \A c \in Children(nodes'[a]) : c \in NodeIds'
      <3>1. \A a \in NodeIds : \A c \in Children(nodes[a]) : c \in NodeIds
        BY <1>1, NodeTypes
      <3> QED BY <1>3, <1>8, <1>10, <1>11, <3>1
    <2>2. /\ roots' \in [Methods -> NodeIds' \cup {0}]
          /\ outcome' \in {"none", "invalid", "duplicate", "added"}
          /\ dead' \subseteq Temporaries
      BY <1>1, <1>2, <1>8 DEF TypeOK
    <2> QED BY <1>8, <1>13, <1>17, <2>1, <2>2, MakeTypes
  <1> QED BY <1>13, <1>15, <1>16, <1>17, <1>18 DEF Inv, TreeInv, SegmentInv

\* Child t of node n is split behind the first k symbols of its prefix: t
\* keeps them, and the new node x takes the rest with all that t had.
Parts(n, t, k, x) ==
  /\ n \in NodeIds /\ t \in NodeIds /\ t # n
  /\ x = Len(nodes) + 1 /\ x \notin NodeIds
  /\ t \in Children(nodes[n])
  /\ k \in Nat \ {0} /\ k < Len(nodes[t].prefix)
  /\ nodes[t].type = "static" /\ Plain(nodes[t].prefix)
  /\ nodes' \in Seq(Nodes) /\ where' \in Seq(Places)
  /\ NodeIds' = NodeIds \cup {x} /\ DOMAIN where' = NodeIds'
  /\ Len(where') = Len(nodes')
  /\ \A a \in NodeIds : a # t => nodes'[a] = nodes[a] /\ where'[a] = where[a]
  /\ nodes'[t].type = "static" /\ nodes'[t].static = <<x>>
  /\ nodes'[t].parameter = 0 /\ nodes'[t].catch_all = 0
  /\ nodes'[t].prefix = SubSeq(nodes[t].prefix, 1, k)
  /\ nodes'[x].type = "static" /\ nodes'[x].static = nodes[t].static
  /\ nodes'[x].parameter = nodes[t].parameter
  /\ nodes'[x].catch_all = nodes[t].catch_all
  /\ nodes'[x].prefix = Drop(nodes[t].prefix, k)
  /\ nodes'[t].route = {} /\ nodes'[x].route = nodes[t].route
  /\ where'[x] = where[t]
  /\ where'[t] = [where[n] EXCEPT !.shape = @ \o SubSeq(nodes[t].prefix, 1, k)]
  /\ roots' = roots

\* The text to a node, cut k symbols into the node's edge.
LEMMA StemIs ==
  ASSUME NEW u \in Seq(STRING), NEW w \in Seq(STRING), NEW k \in 1..(Len(w) - 1)
  PROVE  SubSeq(u \o w, 1, Len(u \o w) - Len(Drop(w, k))) = u \o SubSeq(w, 1, k)
  <1> DEFINE l == Len(u)
             m == Len(w)
  <1>1. l \in Nat /\ m \in Nat /\ k \in 1..(m - 1) OBVIOUS
  <1>2. Len(Drop(w, k)) = m - k
    <2>1. k \in 0..Len(w) BY <1>1
    <2> QED BY <2>1, DropIs
  <1>3. u \o w \in Seq(STRING) /\ Len(u \o w) = l + m OBVIOUS
  <1>4. Len(u \o w) - Len(Drop(w, k)) = l + k BY <1>1, <1>2, <1>3
  <1> DEFINE left == SubSeq(u \o w, 1, l + k)
             right == u \o SubSeq(w, 1, k)
  <1>5. /\ left \in Seq(STRING) /\ Len(left) = l + k
        /\ \A i \in 1..(l + k) : left[i] = (u \o w)[i]
    BY <1>1, <1>3
  <1>6. /\ SubSeq(w, 1, k) \in Seq(STRING) /\ Len(SubSeq(w, 1, k)) = k
        /\ \A i \in 1..k : SubSeq(w, 1, k)[i] = w[i]
    BY <1>1
  <1>7. right \in Seq(STRING) /\ Len(right) = l + k BY <1>6
  <1>8. ASSUME NEW i \in 1..(l + k) PROVE left[i] = right[i]
    <2>1. CASE i <= l BY <1>5, <1>6, <2>1
    <2>2. CASE i > l BY <1>1, <1>5, <1>6, <2>2
    <2> QED BY <1>1, <2>1, <2>2
  <1> HIDE DEF left, right, l, m
  <1>9. left = right BY <1>5, <1>7, <1>8, SeqEqual
  <1> QED BY <1>4, <1>9 DEF left, right, l

\* The text in front of a cut and the text behind it are the whole.
LEMMA Rejoin ==
  ASSUME NEW u \in Seq(STRING), NEW w \in Seq(STRING), NEW k \in 1..(Len(w) - 1)
  PROVE  (u \o SubSeq(w, 1, k)) \o Drop(w, k) = u \o w
  <1> DEFINE l == Len(u)
             m == Len(w)
             v == SubSeq(w, 1, k)
             z == Drop(w, k)
             uv == u \o v
             left == uv \o z
             right == u \o w
  <1>1. l \in Nat /\ m \in Nat /\ k \in 1..(m - 1) OBVIOUS
  <1>2. /\ v \in Seq(STRING) /\ Len(v) = k
        /\ \A i \in 1..k : v[i] = w[i]
    BY <1>1
  <1>3. /\ z \in Seq(STRING) /\ Len(z) = m - k
        /\ \A i \in 1..(m - k) : z[i] = w[i + k]
    <2>1. k \in 0..Len(w) BY <1>1
    <2> QED BY <2>1, DropIs
  <1> HIDE DEF v, z
  <1>4. /\ uv \in Seq(STRING) /\ Len(uv) = l + k
        /\ \A i \in 1..l : uv[i] = u[i]
        /\ \A i \in (l + 1)..(l + k) : uv[i] = w[i - l]
    BY <1>1, <1>2
  <1>5. /\ right \in Seq(STRING) /\ Len(right) = l + m
        /\ \A i \in 1..l : right[i] = u[i]
        /\ \A i \in (l + 1)..(l + m) : right[i] = w[i - l]
    BY <1>1
  <1> HIDE DEF uv
  <1>6. /\ left \in Seq(STRING) /\ Len(left) = l + m
        /\ \A i \in 1..(l + k) : left[i] = uv[i]
        /\ \A i \in (l + k + 1)..(l + m) : left[i] = z[i - (l + k)]
    <2>1. /\ left \in Seq(STRING) /\ Len(left) = Len(uv) + Len(z)
          /\ \A i \in 1..(Len(uv) + Len(z)) :
               left[i] = IF i <= Len(uv) THEN uv[i] ELSE z[i - Len(uv)]
      BY <1>3, <1>4, ConcatProperties
    <2> HIDE DEF left, l, m
    <2> QED BY SMTT(30), <1>1, <1>3, <1>4, <2>1
  <1> HIDE DEF left, right, l, m
  <1>7. ASSUME NEW i \in 1..(l + m) PROVE left[i] = right[i]
    <2>1. CASE i <= l BY <1>1, <1>4, <1>5, <1>6, <2>1
    <2>2. CASE l < i /\ i <= l + k BY <1>1, <1>4, <1>5, <1>6, <2>2
    <2>3. CASE l + k < i
      <3>1. /\ i \in (l + k + 1)..(l + m) /\ i \in (l + 1)..(l + m)
            /\ i - (l + k) \in 1..(m - k) /\ (i - (l + k)) + k = i - l
        BY <1>1, <2>3
      <3> QED BY <1>3, <1>5, <1>6, <3>1
    <2> QED BY <1>1, <2>1, <2>2, <2>3
  <1>8. left = right BY <1>5, <1>6, <1>7, SeqEqual
  <1> QED BY <1>8 DEF left, right, uv, v, z

\* A child that is not special is one of the static children.
LEMMA StaticChild ==
  ASSUME TypeOK, NEW n \in NodeIds, Edges(n), NEW c \in Children(nodes[n]),
         nodes[c].type = "static"
  PROVE  \E i \in 1..Len(nodes[n].static) : c = nodes[n].static[i]
  <1>1. \/ c \in ToSet(nodes[n].static)
        \/ nodes[n].parameter # 0 /\ c = nodes[n].parameter
        \/ nodes[n].catch_all # 0 /\ c = nodes[n].catch_all
    BY DEF Children
  <1>2. nodes[n].static \in Seq(Nat) BY NodeTypes
  <1> QED BY <1>1, <1>2 DEF Edges, ToSet

\* What Split makes of the nodes.
LEMMA SplitParts ==
  ASSUME Inv, Split
  PROVE  /\ Parts(call.cur, Twin, Shared, Len(nodes) + 1)
         /\ Inserted(Shared, Twin)
         /\ UNCHANGED <<outcome, dead>>
  <1>1. TypeOK /\ TreeInv /\ RootInv /\ SegmentInv BY DEF Inv
  <1>2. /\ call # NoCall /\ call.text # <<>> /\ Twins # {}
        /\ Shared < Len(nodes[Twin].prefix)
    BY DEF Split
  <1>3. PICK n \in NodeIds, t \in NodeIds, x \in Nat, k \in 1..Len(call.text) :
          n = call.cur /\ t = Twin /\ x = Len(nodes) + 1 /\ k = Shared
    <2>1. call.cur \in NodeIds /\ Len(nodes) + 1 \in Nat
      BY <1>1, <1>2, CallTypes, NodeTypes
    <2> QED BY <1>2, <2>1, TwinIs
  <1>4. /\ t \in Children(nodes[n]) /\ nodes[t].type = "static"
        /\ nodes[t].prefix \in Seq(STRING) /\ Plain(nodes[t].prefix)
        /\ where[t] = [where[n] EXCEPT !.shape = @ \o nodes[t].prefix]
        /\ k \in 1..Len(nodes[t].prefix)
        /\ \A i \in 1..k : nodes[t].prefix[i] = call.text[i]
    BY <1>2, <1>3, TwinIs DEF Extends
  <1>5. k \in Nat \ {0} /\ k < Len(nodes[t].prefix) BY <1>2, <1>3, <1>4
  <1> DEFINE e == SplitAt(nodes[t], k, x)
             f == [nodes[t] EXCEPT !.prefix = Drop(@, k)]
             stem == Len(where[t].shape) - Len(f.prefix)
             q == [where[t] EXCEPT !.shape = SubSeq(@, 1, stem)]
  <1>6. /\ nodes' = Append([nodes EXCEPT ![t] = e], f)
        /\ where' = Append([where EXCEPT ![t] = q], where[t])
        /\ call' = [call EXCEPT !.cur = t, !.text = Drop(call.text, k)]
        /\ UNCHANGED <<roots, outcome, dead>>
    BY <1>3 DEF Split
  <1>7. /\ nodes \in Seq(Nodes) /\ where \in Seq(Places)
        /\ NodeIds = DOMAIN nodes /\ NodeIds = DOMAIN where
        /\ Len(nodes) = Len(where) /\ nodes[t] \in Nodes
        /\ where[t] \in Places /\ where[n] \in Places
    BY <1>1, <1>3, NodeTypes DEF TypeOK, NodeIds
  <1>8. /\ Drop(nodes[t].prefix, k) \in Seq(STRING)
        /\ Len(Drop(nodes[t].prefix, k)) = Len(nodes[t].prefix) - k
        /\ SubSeq(nodes[t].prefix, 1, k) \in Seq(STRING)
        /\ Len(SubSeq(nodes[t].prefix, 1, k)) = k
        /\ \A i \in 1..k : SubSeq(nodes[t].prefix, 1, k)[i] = nodes[t].prefix[i]
    <2>1. k \in 0..Len(nodes[t].prefix) BY <1>4, <1>5
    <2> QED BY <1>4, <1>5, <2>1, DropIs
  <1>9. /\ e \in Nodes /\ e.type = "static" /\ e.static = <<x>>
        /\ e.parameter = 0 /\ e.catch_all = 0 /\ e.route = {}
        /\ e.prefix = SubSeq(nodes[t].prefix, 1, k)
    <2>1. <<x>> \in Seq(Nat) BY <1>3
    <2> QED BY <1>8, <2>1 DEF SplitAt, NewNode, Nodes, Texts, Kinds
  <1>10. /\ f \in Nodes /\ f.type = nodes[t].type /\ f.static = nodes[t].static
         /\ f.parameter = nodes[t].parameter /\ f.catch_all = nodes[t].catch_all
         /\ f.prefix = Drop(nodes[t].prefix, k) /\ f.route = nodes[t].route
    BY <1>7, <1>8 DEF Nodes, Texts
  <1>11. q \in Places /\ q = [where[n] EXCEPT !.shape = @ \o SubSeq(nodes[t].prefix, 1, k)]
    <2>1. where[n].shape \in Seq(STRING) /\ where[n].method \in Methods
      BY <1>7 DEF Places, Texts
    <2>2. where[t] = [method |-> where[n].method,
                      shape |-> where[n].shape \o nodes[t].prefix]
      BY <1>4, <1>7, LongerPlace, Zenon
    <2>3. k \in 1..(Len(nodes[t].prefix) - 1) BY <1>4, <1>5
    <2>4. stem = Len(where[n].shape \o nodes[t].prefix) - Len(Drop(nodes[t].prefix, k))
      BY <1>10, <2>2
    <2>4a. where[t].shape = where[n].shape \o nodes[t].prefix
      <3> DEFINE w == where[n].shape \o nodes[t].prefix
      <3>1. where[t] = [method |-> where[n].method, shape |-> w] BY <2>2
      <3> HIDE DEF w
      <3>2. where[t].shape = w BY <3>1
      <3> QED BY <3>2 DEF w
    <2> HIDE DEF stem
    <2>5. SubSeq(where[t].shape, 1, stem) = where[n].shape \o SubSeq(nodes[t].prefix, 1, k)
      <3> DEFINE u == where[n].shape
                 w == nodes[t].prefix
      <3>1. u \in Seq(STRING) /\ w \in Seq(STRING) /\ k \in 1..(Len(w) - 1)
        BY <1>4, <2>1, <2>3
      <3>2. where[t].shape = u \o w /\ stem = Len(u \o w) - Len(Drop(w, k))
        BY <2>4, <2>4a
      <3> HIDE DEF u, w
      <3>3. SubSeq(u \o w, 1, Len(u \o w) - Len(Drop(w, k))) = u \o SubSeq(w, 1, k)
        BY <3>1, StemIs
      <3>4. SubSeq(where[t].shape, 1, stem) = u \o SubSeq(w, 1, k) BY <3>2, <3>3
      <3> QED BY <3>4 DEF u, w
    <2> DEFINE w == where[n].shape \o SubSeq(nodes[t].prefix, 1, k)
    <2>6. w \in Seq(STRING) BY <1>8, <2>1
    <2>7. q = [where[t] EXCEPT !.shape = w] BY <2>5, Zenon
    <2> HIDE DEF w
    <2>8. q = [method |-> where[n].method, shape |-> w]
      BY <2>2, <2>7
    <2>9. [where[n] EXCEPT !.shape = @ \o SubSeq(nodes[t].prefix, 1, k)] =
            [method |-> where[n].method, shape |-> w]
      BY <1>7, LongerPlace, Zenon DEF w
    <2>10. q \in Places BY <2>1, <2>6, <2>8 DEF Places, Texts
    <2> QED BY <2>8, <2>9, <2>10
  <1> HIDE DEF e, f, stem, q
  <1>12. /\ nodes' \in Seq(Nodes) /\ NodeIds' = NodeIds \cup {x}
         /\ Len(nodes') = Len(nodes) + 1
         /\ x \notin NodeIds /\ nodes'[t] = e /\ nodes'[x] = f
         /\ \A a \in NodeIds : a # t => nodes'[a] = nodes[a]
    BY <1>3, <1>6, <1>7, <1>9, <1>10, ChangedAndAppended DEF NodeIds
  <1>13. /\ where' \in Seq(Places) /\ DOMAIN where' = NodeIds \cup {x}
         /\ Len(where') = Len(where) + 1
         /\ where'[t] = q /\ where'[x] = where[t]
         /\ \A a \in NodeIds : a # t => where'[a] = where[a]
    BY <1>3, <1>6, <1>7, <1>11, ChangedAndAppended
  <1>14. t # n
    BY <1>1, <1>3, <1>4, <1>7, NotBelow DEF TreeInv, Tree, Kids
  <1>15. Parts(n, t, k, x)
    BY ZenonT(60), <1>3, <1>4, <1>5, <1>6, <1>7, <1>9, <1>10, <1>11, <1>12, <1>13, <1>14
       DEF Parts
  <1>16. Inserted(k, t)
    <2>1. nodes'[t].type = "static" /\ nodes'[t].prefix = SubSeq(nodes[t].prefix, 1, k)
      BY <1>9, <1>12
    <2>2. /\ nodes'[t].prefix \in Seq(STRING) /\ Len(nodes'[t].prefix) = k
          /\ \A i \in 1..k : nodes'[t].prefix[i] = call.text[i]
      BY <1>4, <1>8, <2>1
    <2>3. /\ call # NoCall /\ k \in 1..Len(call.text) /\ t \in NodeIds'
          /\ call' = [call EXCEPT !.cur = t, !.text = Drop(call.text, k)]
      BY <1>2, <1>3, <1>6, <1>12
    <2> QED BY <2>1, <2>2, <2>3 DEF Inserted
  <1> QED BY <1>3, <1>6, <1>15, <1>16

\* The parts of a split child are a tree in place of it.
LEMMA SplitTree ==
  ASSUME Inv, NEW n, NEW t, NEW k, NEW x, Parts(n, t, k, x)
  PROVE  Tree(where', Kids') /\ RootInv'
  <1>1. TypeOK /\ TreeInv /\ RootInv BY DEF Inv
  <1>2. /\ n \in NodeIds /\ t \in NodeIds /\ t # n /\ x \notin NodeIds
        /\ t \in Children(nodes[n])
        /\ k \in Nat \ {0} /\ k < Len(nodes[t].prefix)
        /\ where' \in Seq(Places)
        /\ NodeIds' = NodeIds \cup {x} /\ DOMAIN where' = NodeIds'
        /\ \A a \in NodeIds : a # t => nodes'[a] = nodes[a] /\ where'[a] = where[a]
        /\ nodes[t].type = "static" /\ nodes'[t].type = "static"
        /\ nodes'[x].type = "static"
        /\ where'[x] = where[t] /\ roots' = roots
    BY DEF Parts
  <1>3. /\ Children(nodes'[t]) = {x} /\ Children(nodes'[x]) = Children(nodes[t])
    <2>1. ToSet(<<x>>) = {x} BY DEF ToSet
    <2> QED BY <2>1 DEF Parts, Children
  <1> DEFINE q == where'[t]
             w == nodes[t].prefix
  <1>4. /\ where[n] \in Places /\ where[t] \in Places /\ q \in Places
        /\ w \in Seq(STRING) /\ where \in Seq(Places) /\ DOMAIN where = NodeIds
    <2>1. q \in Places BY <1>2
    <2> HIDE DEF q
    <2> QED BY <1>1, <1>2, <2>1, NodeTypes
  <1>5. Extends(t, n, w)
    <2>1. Edges(n) BY <1>1, <1>2 DEF TreeInv
    <2>2. \E i \in 1..Len(nodes[n].static) : t = nodes[n].static[i]
      BY <1>1, <1>2, <2>1, StaticChild
    <2> QED BY <1>2, <2>1, <2>2 DEF Edges
  <1>6. /\ where[t] = [method |-> where[n].method, shape |-> where[n].shape \o w]
        /\ q = [method |-> where[n].method, shape |-> where[n].shape \o SubSeq(w, 1, k)]
    <2>1. where[t] = [where[n] EXCEPT !.shape = @ \o w] BY <1>5 DEF Extends
    <2>2. q = [where[n] EXCEPT !.shape = @ \o SubSeq(w, 1, k)] BY DEF Parts
    <2> QED BY <1>4, <2>1, <2>2, LongerPlace, Zenon
  <1> HIDE DEF q, w
  <1>7. q.method = where[n].method /\ Begins(where[n].shape, q.shape)
        /\ Begins(q.shape, where[t].shape)
    <2> DEFINE u == where[n].shape
               v == u \o w
               z == u \o SubSeq(w, 1, k)
    <2>1. u \in Seq(STRING) /\ w \in Seq(STRING) /\ k \in 1..(Len(w) - 1)
      BY <1>2, <1>4 DEF Places, Texts, w
    <2> HIDE DEF u
    <2>2. /\ SubSeq(w, 1, k) \in Seq(STRING) /\ Len(SubSeq(w, 1, k)) = k
          /\ \A i \in 1..k : SubSeq(w, 1, k)[i] = w[i]
      BY <2>1
    <2>3. /\ Len(v) = Len(u) + Len(w) /\ Len(z) = Len(u) + k
          /\ Len(u) \in Nat /\ Len(w) \in Nat
          /\ \A i \in 1..Len(u) : v[i] = u[i] /\ z[i] = u[i]
      BY <2>1, <2>2
    <2>4. ASSUME NEW i \in 1..(Len(u) + k) PROVE z[i] = v[i]
      <3>1. CASE i <= Len(u) BY <2>3, <3>1
      <3>2. CASE i > Len(u) BY <2>1, <2>2, <3>2
      <3> QED BY <2>1, <2>3, <3>1, <3>2
    <2>5. where[t].shape = v /\ q.shape = z /\ q.method = where[n].method
      <3>1. /\ where[t] = [method |-> where[n].method, shape |-> v]
            /\ q = [method |-> where[n].method, shape |-> z]
        BY <1>6 DEF u
      <3> HIDE DEF v, z
      <3> QED BY <3>1
    <2> HIDE DEF v, z
    <2> QED BY <2>1, <2>3, <2>4, <2>5 DEF Begins, u
  <1>8. Tree(where', Kids')
    <2>1. /\ \A a \in NodeIds : Kids'[a] = IF a = t THEN {x} ELSE Kids[a]
          /\ Kids'[x] = Kids[t] /\ t \in Kids[n]
      BY <1>2, <1>3 DEF Kids
    <2>2. Tree(where, Kids) BY <1>1 DEF TreeInv
    <2>3. Cut(where, Kids, n, t, q, where', Kids', x)
      BY <1>2, <1>4, <1>7, <2>1 DEF Cut, q
    <2> QED BY <2>2, <2>3, SplitEdge
  <1>9. RootInv'
    <2>1. ASSUME NEW m \in Methods, roots[m] # 0
          PROVE  /\ where'[roots[m]] = [method |-> m, shape |-> <<>>]
                 /\ nodes'[roots[m]].type = "static"
      <3>1. roots[m] \in NodeIds BY <1>1, <2>1 DEF TypeOK
      <3>2. where[roots[m]].shape = <<>>
        <4>1. where[roots[m]] = [method |-> m, shape |-> <<>>]
          BY <1>1, <2>1 DEF RootInv
        <4> QED BY <4>1
      <3>3. roots[m] # t
        <4>1. Len(where[t].shape) # 0 BY <1>4, <1>7 DEF Begins, Places, Texts
        <4> QED BY <3>2, <4>1
      <3> QED BY <1>1, <1>2, <2>1, <3>1, <3>3 DEF RootInv
    <2>2. ASSUME NEW a \in NodeIds' PROVE roots[where'[a].method] # 0
      <3>1. CASE a \in NodeIds /\ a # t BY <1>1, <1>2, <3>1 DEF RootInv
      <3>2. CASE a = t BY <1>1, <1>2, <1>7, <3>2 DEF RootInv, q
      <3>3. CASE a = x BY <1>1, <1>2, <3>3 DEF RootInv
      <3> QED BY <1>2, <3>1, <3>2, <3>3
    <2> QED BY <1>2, <2>1, <2>2 DEF RootInv
  <1> QED BY <1>8, <1>9

\* ... with the edges and the segments that belong to one.
LEMMA SplitNodes ==
  ASSUME Inv, NEW n, NEW t, NEW k, NEW x, Parts(n, t, k, x)
  PROVE  \A a \in NodeIds' : Edges(a)' /\ Segmented(a)'
  <1>1. /\ TypeOK /\ TreeInv
        /\ \A a \in NodeIds : Edges(a) /\ Segmented(a)
    BY DEF Inv, TreeInv, SegmentInv
  <1>2. /\ n \in NodeIds /\ t \in NodeIds /\ t # n /\ x \notin NodeIds
        /\ t \in Children(nodes[n])
        /\ k \in Nat \ {0} /\ k < Len(nodes[t].prefix)
        /\ nodes[t].type = "static" /\ Plain(nodes[t].prefix)
        /\ NodeIds' = NodeIds \cup {x}
        /\ \A a \in NodeIds : a # t => nodes'[a] = nodes[a] /\ where'[a] = where[a]
    BY DEF Parts
  <1>3. /\ nodes'[t].type = "static" /\ nodes'[t].static = <<x>>
        /\ nodes'[t].parameter = 0 /\ nodes'[t].catch_all = 0
        /\ nodes'[t].prefix = SubSeq(nodes[t].prefix, 1, k)
        /\ nodes'[x].type = "static" /\ nodes'[x].static = nodes[t].static
        /\ nodes'[x].parameter = nodes[t].parameter
        /\ nodes'[x].catch_all = nodes[t].catch_all
        /\ nodes'[x].prefix = Drop(nodes[t].prefix, k)
        /\ where'[x] = where[t]
        /\ where'[t] = [where[n] EXCEPT !.shape = @ \o SubSeq(nodes[t].prefix, 1, k)]
    BY DEF Parts
  <1> DEFINE w == nodes[t].prefix
             v == SubSeq(w, 1, k)
             z == Drop(w, k)
  <1>4. w \in Seq(STRING) /\ Len(w) \in Nat /\ k \in 1..Len(w) /\ k \in 0..Len(w)
    <2>1. w \in Seq(STRING) BY <1>1, <1>2, NodeTypes
    <2> QED BY <1>2, <2>1
  <1>5. /\ v \in Seq(STRING) /\ Len(v) = k /\ v # <<>> /\ v[1] = w[1]
        /\ \A i \in 1..k : v[i] = w[i]
    BY <1>4
  <1>6. /\ z \in Seq(STRING) /\ Len(z) = Len(w) - k /\ z # <<>>
        /\ \A i \in 1..(Len(w) - k) : z[i] = w[i + k]
    <2>1. /\ z \in Seq(STRING) /\ Len(z) = Len(w) - k
          /\ \A i \in 1..(Len(w) - k) : z[i] = w[i + k]
      BY <1>4, DropIs
    <2> HIDE DEF z
    <2> QED BY <1>2, <1>4, <2>1
  <1>7. Plain(v) /\ Plain(z)
    <2>1. Plain(v) BY <1>2, <1>4, <1>5 DEF Plain
    <2>2. ASSUME NEW i \in 1..Len(z) PROVE z[i] \notin Markers
      <3> DEFINE j == i + k
      <3>1. j \in 1..Len(w) /\ z[i] = w[j] BY <1>4, <1>6
      <3> HIDE DEF j, z, w
      <3> QED BY <1>2, <3>1 DEF Plain, w
    <2> QED BY <2>1, <2>2 DEF Plain
  <1> HIDE DEF v, z
  <1>8. \A c \in NodeIds : nodes'[c].prefix[1] = nodes[c].prefix[1]
    BY <1>2, <1>3, <1>5 DEF v
  <1>9. \A a \in NodeIds : \A c \in Children(nodes[a]) :
          c \in NodeIds /\ (a # n => c # t) /\ c # a
    <2>1. ASSUME NEW a \in NodeIds, NEW c \in Children(nodes[a])
          PROVE  c \in NodeIds /\ (a # n => c # t) /\ c # a
      <3>1. /\ c \in NodeIds /\ where \in Seq(Places) /\ DOMAIN where = NodeIds
        BY <1>1, <2>1, NodeTypes
      <3>2. Tree(where, Kids) /\ c \in Kids[a] /\ t \in Kids[n]
        BY <1>1, <1>2 DEF TreeInv, Kids
      <3>3. Below(where, a, c) BY <3>1, <3>2 DEF Tree
      <3>4. c # a BY <3>1, <3>3, NotBelow
      <3>5. a # n => c # t BY <1>2, <3>1, <3>2, OneParent
      <3> QED BY <3>1, <3>4, <3>5
    <2> QED BY <2>1
  <1>10. ASSUME NEW a \in NodeIds, a # t, a # n PROVE Edges(a)'
    BY <1>1, <1>2, <1>9, <1>10, EdgesKept
  <1>11. Edges(x)'
    <2>1. \A c \in Children(nodes[t]) : /\ nodes'[c].type = nodes[c].type
                                       /\ nodes'[c].prefix = nodes[c].prefix
                                       /\ where'[c] = where[c]
      BY <1>2, <1>9
    <2>2. Edges(t) BY <1>1, <1>2
    <2> QED BY <1>1, <1>2, <1>3, <2>1, <2>2, EdgesMoved
  <1>12. where'[x] = [where'[t] EXCEPT !.shape = @ \o z]
    <2> DEFINE u == where[n].shape
               m == where[n].method
               uv == u \o v
               uw == u \o w
    <2>1. where[n] \in Places BY <1>1, <1>2, NodeTypes
    <2>2. u \in Seq(STRING) /\ m \in Methods BY <2>1 DEF Places, Texts
    <2>3. where[t] = [method |-> m, shape |-> uw]
      <3>1. Extends(t, n, w)
        <4>1. Edges(n) BY <1>1, <1>2
        <4>2. \E i \in 1..Len(nodes[n].static) : t = nodes[n].static[i]
          BY <1>1, <1>2, <4>1, StaticChild
        <4> QED BY <4>1, <4>2 DEF Edges
      <3>2. where[t] = [where[n] EXCEPT !.shape = @ \o w] BY <3>1 DEF Extends
      <3> QED BY <2>1, <3>2, LongerPlace, Zenon
    <2>4. where'[t] = [method |-> m, shape |-> uv]
      <3>1. where'[t] = [where[n] EXCEPT !.shape = @ \o v] BY <1>3 DEF v
      <3> QED BY <2>1, <3>1, LongerPlace, Zenon
    <2>5. uv \o z = uw
      <3>1. k \in 1..(Len(w) - 1) BY <1>2, <1>4
      <3> HIDE DEF u, w
      <3> QED BY <1>4, <2>2, <3>1, Rejoin DEF v, z
    <2>6. uv \in Seq(STRING)
      <3> HIDE DEF u
      <3> QED BY <1>5, <2>2
    <2> HIDE DEF uv, uw, u, m
    <2>7. where'[t] \in Places /\ where'[t].shape = uv /\ where'[t].method = m
      BY <2>2, <2>4, <2>6 DEF Places, Texts
    <2>8. [where'[t] EXCEPT !.shape = @ \o z] = [method |-> m, shape |-> uv \o z]
      BY <2>7, LongerPlace, Zenon
    <2> QED BY <1>3, <2>3, <2>5, <2>8
  <1>13. Edges(t)'
    <2>1. Len(<<x>>) = 1 /\ <<x>>[1] = x OBVIOUS
    <2>2. \A i \in 1..Len(nodes'[t].static) : nodes'[t].static[i] = x /\ i = 1
      BY <1>3, <2>1
    <2>3. nodes'[x].prefix = z BY <1>3 DEF z
    <2>4. \A i \in 1..Len(nodes'[t].static) :
            LET c == nodes'[t].static[i] IN
            /\ nodes'[c].type = "static" /\ nodes'[c].prefix # <<>>
            /\ Plain(nodes'[c].prefix)
            /\ where'[c] = [where'[t] EXCEPT !.shape = @ \o nodes'[c].prefix]
      BY <1>3, <1>6, <1>7, <1>12, <2>2, <2>3
    <2> QED BY <1>3, <2>2, <2>4 DEF Edges, Extends
  <1>14. Edges(n)'
    <2>1. Edges(n) /\ nodes'[n] = nodes[n] /\ where'[n] = where[n]
      BY <1>1, <1>2
    <2>1a. /\ \A i \in 1..Len(nodes[n].static) :
                LET c == nodes[n].static[i] IN
                /\ nodes[c].type = "static" /\ nodes[c].prefix # <<>>
                /\ Plain(nodes[c].prefix)
                /\ where[c] = [where[n] EXCEPT !.shape = @ \o nodes[c].prefix]
           /\ \A i, j \in 1..Len(nodes[n].static) :
                nodes[nodes[n].static[i]].prefix[1] =
                  nodes[nodes[n].static[j]].prefix[1] => i = j
      BY <2>1 DEF Edges, Extends
    <2>2. \A i \in 1..Len(nodes[n].static) :
            nodes[n].static[i] \in NodeIds
      BY <1>1, <1>2, NodeTypes
    <2>3. ASSUME NEW i \in 1..Len(nodes[n].static), NEW c, c = nodes[n].static[i]
          PROVE  /\ nodes'[c].type = "static" /\ nodes'[c].prefix # <<>>
                 /\ Plain(nodes'[c].prefix)
                 /\ where'[c] = [where[n] EXCEPT !.shape = @ \o nodes'[c].prefix]
      <3>1. CASE c = t BY <1>3, <1>5, <1>7, <3>1 DEF v
      <3>2. CASE c # t
        <4>1. nodes'[c] = nodes[c] /\ where'[c] = where[c] BY <1>2, <2>2, <2>3, <3>2
        <4> QED BY <2>1a, <2>3, <4>1
      <3> QED BY <3>1, <3>2
    <2>4. \A i, j \in 1..Len(nodes[n].static) :
            nodes'[nodes[n].static[i]].prefix[1] = nodes'[nodes[n].static[j]].prefix[1]
              => i = j
      <3>1. \A i \in 1..Len(nodes[n].static) :
              nodes'[nodes[n].static[i]].prefix[1] = nodes[nodes[n].static[i]].prefix[1]
        <4> TAKE i \in 1..Len(nodes[n].static)
        <4> QED BY <1>8, <2>2
      <3> QED BY <2>1a, <3>1
    <2>5. /\ nodes[n].parameter # 0 =>
               /\ where'[nodes[n].parameter] = [where[n] EXCEPT !.shape = @ \o <<":">>]
               /\ nodes'[nodes[n].parameter].type = "parameter"
          /\ nodes[n].catch_all # 0 =>
               /\ where'[nodes[n].catch_all] = [where[n] EXCEPT !.shape = @ \o <<"*">>]
               /\ nodes'[nodes[n].catch_all].type = "catch_all"
      <3>1. /\ nodes[n].parameter # 0 => nodes[n].parameter \in NodeIds \ {t}
            /\ nodes[n].catch_all # 0 => nodes[n].catch_all \in NodeIds \ {t}
        BY <1>1, <1>2, <2>1, NodeTypes DEF Edges
      <3> QED BY <1>2, <2>1, <3>1 DEF Edges, Extends
    <2>6. \A i \in 1..Len(nodes'[n].static) :
            LET c == nodes'[n].static[i] IN
            /\ nodes'[c].type = "static" /\ nodes'[c].prefix # <<>>
            /\ Plain(nodes'[c].prefix)
            /\ where'[c] = [where'[n] EXCEPT !.shape = @ \o nodes'[c].prefix]
      BY <2>1, <2>3
    <2>7. \A i, j \in 1..Len(nodes'[n].static) :
            nodes'[nodes'[n].static[i]].prefix[1] = nodes'[nodes'[n].static[j]].prefix[1]
              => i = j
      BY <2>1, <2>4
    <2>8. /\ nodes'[n].parameter = nodes[n].parameter
          /\ nodes'[n].catch_all = nodes[n].catch_all /\ where'[n] = where[n]
      BY <2>1
    <2> QED BY <2>5, <2>6, <2>7, <2>8 DEF Edges, Extends
  <1>15. ASSUME NEW a \in NodeIds, a # t PROVE Segmented(a)'
    <2>1. \A i \in 1..Len(nodes[a].static) : nodes[a].static[i] \in NodeIds
      BY <1>1, NodeTypes
    <2>2. nodes'[a] = nodes[a] /\ Segmented(a) BY <1>1, <1>2, <1>15
    <2>3. \A i \in 1..Len(nodes[a].static) :
            nodes'[nodes[a].static[i]].prefix[1] = nodes[nodes[a].static[i]].prefix[1]
      <3> TAKE i \in 1..Len(nodes[a].static)
      <3> QED BY <1>8, <2>1
    <2> QED BY <1>1, <2>2, <2>3, SegmentKept
  <1>16. Segmented(t)' BY <1>3 DEF Segmented
  <1>17. Segmented(x)'
    <2>1. Segmented(t) BY <1>1, <1>2
    <2>2. nodes[t].parameter # 0 \/ nodes[t].catch_all # 0 => EndsInSlash(z)
      <3>1. SUFFICES ASSUME EndsInSlash(w) PROVE EndsInSlash(z)
        BY <2>1 DEF Segmented, w
      <3>2. Len(z) \in 1..(Len(w) - k) /\ Len(z) + k = Len(w)
        BY SMTT(30), <1>2, <1>4, <1>6
      <3>3. z[Len(z)] = w[Len(w)] BY <1>6, <3>2
      <3> QED BY <1>6, <3>1, <3>3 DEF EndsInSlash
    <2> QED BY <1>3, <2>2 DEF Segmented, z, w
  <1> QED BY <1>2, <1>10, <1>11, <1>13, <1>14, <1>15, <1>16, <1>17

\* A child is split where the text leaves its prefix.
LEMMA SplitInv == Inv /\ Split => Inv'
  <1> SUFFICES ASSUME Inv, Split PROVE Inv' OBVIOUS
  <1>1. TypeOK /\ TreeInv /\ RootInv /\ SegmentInv BY DEF Inv
  <1>2. PICK n, t, k, x : Parts(n, t, k, x) /\ Inserted(k, t) BY SplitParts
  <1>3. UNCHANGED <<outcome, dead>> BY SplitParts
  <1>4. Tree(where', Kids') /\ RootInv' BY <1>2, SplitTree
  <1>5. \A a \in NodeIds' : Edges(a)' /\ Segmented(a)' BY <1>2, SplitNodes
  <1>6. CallInv' /\ call' \in Calls' BY <1>2, TextShortens
  <1>7. TypeOK'
    <2>1. /\ nodes' \in Seq(Nodes) /\ where' \in Seq(Places)
          /\ Len(where') = Len(nodes') /\ NodeIds' = NodeIds \cup {x}
          /\ t \in NodeIds /\ roots' = roots
          /\ \A a \in NodeIds : a # t => nodes'[a] = nodes[a]
      BY <1>2 DEF Parts
    <2>2. Children(nodes'[t]) = {x} /\ Children(nodes'[x]) = Children(nodes[t])
      <3>1. ToSet(<<x>>) = {x} BY DEF ToSet
      <3> QED BY <1>2, <3>1 DEF Parts, Children
    <2>3. \A a \in NodeIds : \A c \in Children(nodes[a]) : c \in NodeIds
      BY <1>1, NodeTypes
    <2>4. \A a \in NodeIds' : \A c \in Children(nodes'[a]) : c \in NodeIds'
      BY <2>1, <2>2, <2>3
    <2>5. /\ roots' \in [Methods -> NodeIds' \cup {0}]
          /\ outcome' \in {"none", "invalid", "duplicate", "added"}
          /\ dead' \subseteq Temporaries
      BY <1>1, <1>3, <2>1 DEF TypeOK
    <2> QED BY <1>6, <2>1, <2>4, <2>5, MakeTypes
  <1> QED BY <1>4, <1>5, <1>6, <1>7 DEF Inv, TreeInv, SegmentInv

-----------------------------------------------------------------------------
(* insert_special.                                                         *)

\* The call once a special node c stands for the marker: at the slash behind
\* the special's name, or at the end.
LEMMA AfterSpecial ==
  ASSUME Inv, AtSpecial, NEW c \in NodeIds',
         call' = [call EXCEPT !.cur = c, !.rest = Drop(@, SpecialEnd),
                    !.names = Append(@, SubSeq(call.rest, 2, SpecialEnd))],
         nodes'[c].type = Kind
  PROVE  CallInv' /\ call' \in Calls'
  <1>1. TypeOK /\ SegmentInv BY DEF Inv
  <1>2. call # NoCall /\ call.text = <<>> BY DEF AtSpecial
  <1> DEFINE r == call.rest
             k == SpecialEnd
             names == Append(call.names, SubSeq(r, 2, k))
  <1>3. call \in Calls /\ r \in Seq(STRING) /\ call.names \in Seq(Texts)
    BY <1>1, <1>2, CallTypes
  <1>4. /\ k \in 0..Len(r)
        /\ Kind = "catch_all" => k = Len(r)
        /\ k < Len(r) => r[k + 1] = "/"
    <2>1. Len(r) \in 0..Len(r) BY <1>3
    <2>2. /\ Span(r, {"/"}) \in 0..Len(r)
          /\ Span(r, {"/"}) < Len(r) => r[Span(r, {"/"}) + 1] \in {"/"}
      BY <1>3, SpanEnds
    <2>3. CASE Kind = "catch_all" BY <1>3, <2>1, <2>3 DEF SpecialEnd
    <2>4. CASE Kind # "catch_all" BY <2>2, <2>4 DEF SpecialEnd
    <2> QED BY <2>3, <2>4
  <1> HIDE DEF k
  <1>5. /\ Drop(r, k) \in Seq(STRING) /\ Len(Drop(r, k)) = Len(r) - k
        /\ \A i \in 1..(Len(r) - k) : Drop(r, k)[i] = r[i + k]
    BY <1>3, <1>4, DropIs
  <1>6. names \in Seq(Texts)
    <2>1. SubSeq(r, 2, k) \in Seq(STRING) BY <1>3, <1>4
    <2> HIDE DEF r
    <2>2. SubSeq(r, 2, k) \in Texts BY <2>1 DEF Texts
    <2> DEFINE name == SubSeq(r, 2, k)
    <2> HIDE DEF name
    <2> QED BY <1>3, <2>2, AppendProperties DEF name
  <1>7. call' = [call EXCEPT !.cur = c, !.rest = Drop(r, k), !.names = names]
    BY DEF k
  <1> HIDE DEF names
  <1>8. /\ call' \in Calls' /\ call'.cur = c /\ call'.text = <<>>
        /\ call'.rest = Drop(r, k)
    BY <1>2, <1>3, <1>5, <1>6, <1>7 DEF Calls, Texts
  <1> HIDE DEF r
  <1>9. ASSUME NEW i \in 2..Len(call'.rest), call'.rest[i] \in Markers
        PROVE  call'.rest[i - 1] = "/"
    <2>1. Len(r) \in Nat /\ Len(call'.rest) = Len(r) - k BY <1>3, <1>5, <1>8
    <2>2. /\ i \in 1..(Len(r) - k) /\ i - 1 \in 1..(Len(r) - k)
          /\ i + k \in 2..Len(r) /\ (i - 1) + k = (i + k) - 1
      BY <1>4, <2>1
    <2>3. call'.rest[i] = r[i + k] /\ call'.rest[i - 1] = r[(i + k) - 1]
      BY <1>5, <1>8, <2>2
    <2> DEFINE j == i + k
    <2>4. j \in 2..Len(r) /\ r[j] \in Markers BY <1>9, <2>2, <2>3
    <2> HIDE DEF j
    <2>5. r[j - 1] = "/" BY <1>1, <1>2, <2>4 DEF SegmentInv, CallInv, r
    <2> QED BY <2>3, <2>5 DEF j
  <1>10. call'.rest # <<>> => call'.rest[1] = "/"
    <2> SUFFICES ASSUME call'.rest # <<>> PROVE call'.rest[1] = "/" OBVIOUS
    <2>1. Len(r) \in Nat /\ k < Len(r) /\ call'.rest[1] = r[k + 1]
      <3>1. Len(r) \in Nat /\ Len(call'.rest) = Len(r) - k
            /\ call'.rest \in Seq(STRING)
        BY <1>3, <1>5, <1>8
      <3>2. k < Len(r) BY <1>4, <3>1
      <3>3. 1 \in 1..(Len(r) - k) /\ 1 + k = k + 1 BY <1>4, <3>1, <3>2
      <3> QED BY <1>5, <1>8, <3>1, <3>2, <3>3
    <2> QED BY <1>4, <2>1
  <1>11. nodes'[c].type = "catch_all" => call'.rest = <<>>
    <2> SUFFICES ASSUME Kind = "catch_all" PROVE call'.rest = <<>> OBVIOUS
    <2>1. Len(call'.rest) = 0 /\ call'.rest \in Seq(STRING)
      BY <1>3, <1>4, <1>5, <1>8
    <2> QED BY <2>1
  <1>12. Plain(call'.text)
    <2>1. Len(<<>>) = 0 /\ 1..0 = {} OBVIOUS
    <2> QED BY <1>8, <2>1 DEF Plain
  <1>13. "/" \notin Markers BY DEF Markers
  <1> QED BY <1>8, <1>9, <1>10, <1>11, <1>12, <1>13 DEF CallInv

\* A special node that is there already is taken.
LEMMA SpecialThere ==
  Inv /\ Special /\ SpecialOf(nodes[call.cur]) # 0 => Inv'
  <1> SUFFICES ASSUME Inv, Special, SpecialOf(nodes[call.cur]) # 0 PROVE Inv'
    OBVIOUS
  <1>1. TypeOK /\ TreeInv /\ RootInv /\ SegmentInv BY DEF Inv
  <1>2. PICK c : c = SpecialOf(nodes[call.cur]) OBVIOUS
  <1>3. /\ AtSpecial /\ UNCHANGED <<nodes, where>>
        /\ call' = [call EXCEPT !.cur = c, !.rest = Drop(@, SpecialEnd),
                      !.names = Append(@, SubSeq(call.rest, 2, SpecialEnd))]
        /\ UNCHANGED <<roots, outcome, dead>>
    BY <1>2 DEF Special
  <1>4. NodeIds' = NodeIds BY <1>3 DEF NodeIds
  <1>5. c \in NodeIds /\ nodes[c].type = Kind
    <2>1. call.cur \in NodeIds BY <1>1, <1>3, CallTypes DEF AtSpecial
    <2>2. Edges(call.cur) BY <1>1, <2>1 DEF TreeInv
    <2> QED BY <1>1, <1>2, <2>1, <2>2, NodeTypes DEF SpecialOf, Kind, Edges
  <1>6. CallInv' /\ call' \in Calls'
    <2>1. nodes'[c].type = Kind /\ c \in NodeIds' BY <1>3, <1>4, <1>5
    <2> QED BY <1>3, <2>1, AfterSpecial
  <1>7. call' \in Calls BY <1>4, <1>6 DEF Calls
  <1>8. /\ TypeOK' /\ TreeInv' /\ RootInv'
        /\ \A n \in NodeIds' : Segmented(n)'
    BY <1>1, <1>3, <1>7, SameTree DEF SegmentInv, TypeOK, tree
  <1> QED BY <1>6, <1>8 DEF Inv, SegmentInv

\* A special node is made.
LEMMA SpecialMade ==
  Inv /\ Special /\ SpecialOf(nodes[call.cur]) = 0 => Inv'
  <1> SUFFICES ASSUME Inv, Special, SpecialOf(nodes[call.cur]) = 0 PROVE Inv'
    OBVIOUS
  <1>1. TypeOK /\ TreeInv /\ RootInv /\ SegmentInv BY DEF Inv
  <1>2. /\ AtSpecial /\ call # NoCall /\ call.text = <<>> /\ call.rest # <<>>
        /\ Head(call.rest) \in Markers
    BY DEF Special, AtSpecial
  <1>3. PICK n \in NodeIds, s \in STRING, x \in Nat :
          n = call.cur /\ s = Head(call.rest) /\ x = Len(nodes) + 1
    <2>1. call.cur \in NodeIds /\ Head(call.rest) \in STRING
      BY <1>1, <1>2, CallTypes
    <2>2. Len(nodes) + 1 \in Nat BY <1>1, <2>1, NodeTypes
    <2> QED BY <2>1, <2>2
  <1> DEFINE e == WithSpecial(nodes[n], x)
             f == NewNode(Kind, <<>>)
             w == <<s>>
  <1>4. /\ nodes[n].type = "static" /\ SpecialOf(nodes[n]) = 0
        /\ nodes' = Append([nodes EXCEPT ![n] = e], f)
        /\ where' = Append(where, [where[n] EXCEPT !.shape = @ \o w])
        /\ call' = [call EXCEPT !.cur = x, !.rest = Drop(@, SpecialEnd),
                      !.names = Append(@, SubSeq(call.rest, 2, SpecialEnd))]
        /\ UNCHANGED <<roots, outcome, dead>>
    BY <1>3 DEF Special
  <1>5. \/ s = "*" /\ Kind = "catch_all"
        \/ s = ":" /\ Kind = "parameter"
    <2>1. s \in {":", "*"} BY <1>2, <1>3 DEF Markers
    <2>2. CASE s = "*"
      <3>1. Head(call.rest) = "*" BY <1>3, <2>2
      <3>2. Kind = "catch_all" BY <3>1 DEF Kind
      <3> QED BY <2>2, <3>2
    <2>3. CASE s = ":"
      <3>1. s # "*" BY <2>3
      <3>2. Head(call.rest) # "*" BY <1>3, <3>1
      <3> QED BY <2>3, <3>2 DEF Kind
    <2> QED BY <2>1, <2>2, <2>3
  <1>6. /\ nodes \in Seq(Nodes) /\ NodeIds = DOMAIN nodes /\ nodes[n] \in Nodes
    BY <1>1, <1>3, NodeTypes DEF NodeIds
  <1>7. /\ e \in Nodes /\ e.type = nodes[n].type /\ e.prefix = nodes[n].prefix
        /\ e.static = nodes[n].static
        /\ Kind = "catch_all" => e.catch_all = x /\ e.parameter = nodes[n].parameter
        /\ Kind = "parameter" => e.parameter = x /\ e.catch_all = nodes[n].catch_all
    BY <1>3, <1>5, <1>6 DEF WithSpecial, Nodes
  <1>8. /\ f \in Nodes /\ f.type = Kind /\ f.static = <<>> /\ f.parameter = 0
        /\ f.catch_all = 0
    BY <1>5 DEF NewNode, Nodes, Kinds, Texts
  <1> HIDE DEF e, f
  <1>9. /\ nodes' \in Seq(Nodes) /\ NodeIds' = NodeIds \cup {x}
        /\ x \notin NodeIds
        /\ nodes'[n] = e /\ nodes'[x] = f
        /\ \A a \in NodeIds : a # n => nodes'[a] = nodes[a]
    BY <1>3, <1>4, <1>6, <1>7, <1>8, ChangedAndAppended DEF NodeIds
  <1>10. Edges(x)' /\ Segmented(x)' /\ Children(nodes'[x]) = {}
    BY <1>8, <1>9, FreshNode
  <1>11. x # 0 BY <1>3
  <1>12. Children(nodes'[n]) = Children(nodes[n]) \cup {x}
    BY <1>4, <1>5, <1>7, <1>9, <1>11 DEF Children, SpecialOf
  <1>13. Adds(n, w, x)
    <2>1. w \in Texts /\ w # <<>> /\ Head(w) = s BY DEF Texts
    <2>2. ASSUME NEW c \in Children(nodes[n]) PROVE Towards(where, n, c) # s
      <3>1. /\ \A i \in 1..Len(nodes[n].static) :
                 Towards(where, n, nodes[n].static[i]) \notin Markers
            /\ nodes[n].parameter # 0 => Towards(where, n, nodes[n].parameter) = ":"
            /\ nodes[n].catch_all # 0 => Towards(where, n, nodes[n].catch_all) = "*"
        BY ChildSymbols
      <3>2. nodes[n].static \in Seq(Nat) BY <1>1, NodeTypes
      <3>3. CASE c \in ToSet(nodes[n].static)
        BY <1>5, <3>1, <3>2, <3>3 DEF ToSet, Markers
      <3>4. CASE c \notin ToSet(nodes[n].static)
        BY <1>4, <1>5, <3>1, <3>4, <2>2 DEF Children, SpecialOf
      <3> QED BY <3>3, <3>4
    <2>3. nodes'[n].type = nodes[n].type /\ nodes'[n].prefix = nodes[n].prefix
      BY <1>7, <1>9
    <2> HIDE DEF w
    <2> QED
      BY <1>3, <1>4, <1>9, <1>10, <1>12, <2>1, <2>2, <2>3 DEF Adds
  <1>14. /\ where' \in Seq(Places) /\ Len(where') = Len(nodes')
         /\ \A a \in NodeIds : where'[a] = where[a]
         /\ where'[x] = [where[n] EXCEPT !.shape = @ \o w]
         /\ Tree(where', Kids') /\ RootInv'
         /\ \A a \in NodeIds : a # n => Edges(a)'
         /\ \A c \in NodeIds : /\ nodes'[c].type = nodes[c].type
                               /\ nodes'[c].prefix = nodes[c].prefix
    BY <1>13, NewChild
  <1>15. Edges(n)'
    <2>1. Edges(n) BY <1>1 DEF TreeInv
    <2>2. \A i \in 1..Len(nodes[n].static) : nodes[n].static[i] \in NodeIds
      BY <1>1, NodeTypes
    <2>3. /\ \A i \in 1..Len(nodes[n].static) :
               LET c == nodes[n].static[i] IN
               /\ nodes[c].type = "static" /\ nodes[c].prefix # <<>>
               /\ Plain(nodes[c].prefix)
               /\ where[c] = [where[n] EXCEPT !.shape = @ \o nodes[c].prefix]
          /\ \A i, j \in 1..Len(nodes[n].static) :
               nodes[nodes[n].static[i]].prefix[1] =
                 nodes[nodes[n].static[j]].prefix[1] => i = j
      BY <2>1 DEF Edges, Extends
    <2>4. nodes'[n].static = nodes[n].static /\ where'[n] = where[n]
      BY <1>7, <1>9, <1>14
    <2>5. ASSUME NEW i \in 1..Len(nodes'[n].static), NEW c, c = nodes'[n].static[i]
          PROVE  /\ nodes'[c].type = "static" /\ nodes'[c].prefix # <<>>
                 /\ Plain(nodes'[c].prefix)
                 /\ where'[c] = [where'[n] EXCEPT !.shape = @ \o nodes'[c].prefix]
      <3>1. /\ i \in 1..Len(nodes[n].static) /\ c = nodes[n].static[i]
            /\ c \in NodeIds
        BY <2>2, <2>4, <2>5
      <3>2. /\ nodes'[c].type = nodes[c].type /\ nodes'[c].prefix = nodes[c].prefix
            /\ where'[c] = where[c] /\ where'[n] = where[n]
        BY <1>14, <2>4, <3>1
      <3>3. /\ nodes[c].type = "static" /\ nodes[c].prefix # <<>>
            /\ Plain(nodes[c].prefix)
            /\ where[c] = [where[n] EXCEPT !.shape = @ \o nodes[c].prefix]
        BY <2>3, <3>1
      <3>4. where'[c] = [where'[n] EXCEPT !.shape = @ \o nodes'[c].prefix]
        BY <3>2, <3>3
      <3> QED BY <3>2, <3>3, <3>4
    <2>6. \A i, j \in 1..Len(nodes'[n].static) :
            nodes'[nodes'[n].static[i]].prefix[1] = nodes'[nodes'[n].static[j]].prefix[1]
              => i = j
      <3>1. \A i \in 1..Len(nodes[n].static) :
              nodes'[nodes[n].static[i]].prefix = nodes[nodes[n].static[i]].prefix
        BY <1>14, <2>2
      <3>2. \A i, j \in 1..Len(nodes[n].static) :
              nodes'[nodes[n].static[i]].prefix[1] = nodes'[nodes[n].static[j]].prefix[1]
                => i = j
        BY ZenonT(60), <2>3, <3>1
      <3> QED BY <2>4, <3>2
    <2>7. /\ nodes'[n].parameter # 0 =>
               /\ where'[nodes'[n].parameter] = [where'[n] EXCEPT !.shape = @ \o <<":">>]
               /\ nodes'[nodes'[n].parameter].type = "parameter"
          /\ nodes'[n].catch_all # 0 =>
               /\ where'[nodes'[n].catch_all] = [where'[n] EXCEPT !.shape = @ \o <<"*">>]
               /\ nodes'[nodes'[n].catch_all].type = "catch_all"
      <3>1. /\ nodes[n].parameter # 0 =>
                 /\ where'[nodes[n].parameter] = [where'[n] EXCEPT !.shape = @ \o <<":">>]
                 /\ nodes'[nodes[n].parameter].type = "parameter"
            /\ nodes[n].catch_all # 0 =>
                 /\ where'[nodes[n].catch_all] = [where'[n] EXCEPT !.shape = @ \o <<"*">>]
                 /\ nodes'[nodes[n].catch_all].type = "catch_all"
        <4>1. /\ nodes[n].parameter # 0 => nodes[n].parameter \in NodeIds
              /\ nodes[n].catch_all # 0 => nodes[n].catch_all \in NodeIds
          BY <1>1, NodeTypes
        <4> QED BY ZenonT(60), <1>14, <2>1, <2>4, <4>1 DEF Edges, Extends
      <3>2. where'[x] = [where'[n] EXCEPT !.shape = @ \o w] /\ nodes'[x].type = Kind
        BY <1>8, <1>9, <1>14
      <3>3. CASE Kind = "parameter"
        <4>1. /\ s = ":" /\ nodes'[n].parameter = x
              /\ nodes'[n].catch_all = nodes[n].catch_all
          BY <1>5, <1>7, <1>9, <3>3
        <4>2. w = <<":">> BY <4>1
        <4> HIDE DEF w
        <4> QED BY <3>1, <3>2, <3>3, <4>1, <4>2
      <3>4. CASE Kind = "catch_all"
        <4>1. /\ s = "*" /\ nodes'[n].catch_all = x
              /\ nodes'[n].parameter = nodes[n].parameter
          BY <1>5, <1>7, <1>9, <3>4
        <4>2. w = <<"*">> BY <4>1
        <4> HIDE DEF w
        <4> QED BY <3>1, <3>2, <3>4, <4>1, <4>2
      <3> QED BY <1>5, <3>3, <3>4
    <2> QED BY ZenonT(60), <2>5, <2>6, <2>7 DEF Edges, Extends
  <1>16. \A a \in NodeIds' : Edges(a)' BY <1>9, <1>10, <1>14, <1>15
  <1>17. \A a \in NodeIds' : Segmented(a)'
    <2>1. ASSUME NEW a \in NodeIds, a # n PROVE Segmented(a)'
      <3>1. Segmented(a) BY <1>1 DEF SegmentInv
      <3>2. \A i \in 1..Len(nodes[a].static) : nodes[a].static[i] \in NodeIds
        BY <1>1, NodeTypes
      <3> QED BY <1>1, <1>9, <1>14, <2>1, <3>1, <3>2, SegmentKept
    <2>2. Segmented(n)'
      <3>1. EndsInSlash(nodes[n].prefix)
        <4>1. call.rest[1] \in Markers BY <1>1, <1>2, CallTypes
        <4> QED BY <1>1, <1>2, <1>3, <4>1 DEF SegmentInv, CallInv
      <3> QED BY <1>4, <1>7, <1>9, <3>1 DEF Segmented
    <2> QED BY <1>9, <1>10, <2>1, <2>2
  <1>18. CallInv' /\ call' \in Calls'
    <2>1. nodes'[x].type = Kind /\ x \in NodeIds' BY <1>8, <1>9
    <2> QED BY <1>2, <1>4, <2>1, AfterSpecial
  <1>19. TypeOK'
    <2>1. \A a \in NodeIds' : \A c \in Children(nodes'[a]) : c \in NodeIds'
      <3>1. \A a \in NodeIds : \A c \in Children(nodes[a]) : c \in NodeIds
        BY <1>1, NodeTypes
      <3> QED BY <1>9, <1>10, <1>12, <3>1
    <2>2. /\ roots' \in [Methods -> NodeIds' \cup {0}]
          /\ outcome' \in {"none", "invalid", "duplicate", "added"}
          /\ dead' \subseteq Temporaries
      BY <1>1, <1>4, <1>9 DEF TypeOK
    <2> QED BY <1>9, <1>14, <1>18, <2>1, <2>2, MakeTypes
  <1> QED BY <1>14, <1>16, <1>17, <1>18, <1>19 DEF Inv, TreeInv, SegmentInv

-----------------------------------------------------------------------------
(* The beginning and the end of add_route.                                 *)

\* A call starts at its method's root, which is made if it is not there.
LEMMA StartInv ==
  ASSUME Inv, NEW m \in Methods, NEW p \in Patterns, NEW h \in Handlers,
         Start(m, p, h)
  PROVE  Inv'
  <1>1. TypeOK /\ TreeInv /\ RootInv /\ SegmentInv BY DEF Inv
  <1>2. PICK x : x = RootOf(m) OBVIOUS
  <1>3. /\ Valid(p)
        /\ roots' = [roots EXCEPT ![m] = x]
        /\ call' = [method |-> m, handler |-> h, cur |-> x,
                    text |-> <<>>, rest |-> p, names |-> <<>>]
        /\ UNCHANGED <<outcome, dead>>
    BY <1>2 DEF Start
  <1>4. p \in Seq(STRING) /\ p # <<>> /\ p[1] = "/" /\ "/" \notin Markers
    <2>1. p \in Seq(STRING) BY RouterAssumption
    <2> QED BY <1>3, <2>1 DEF Valid, Markers
  <1>5. ASSUME x \in NodeIds', nodes'[x].type = "static"
        PROVE  CallInv' /\ call' \in Calls'
    <2>1. call' \in Calls' BY <1>3, <1>4, <1>5 DEF Calls, Texts
    <2>2. /\ call'.text = <<>> /\ call'.rest = p /\ call'.cur = x BY <1>3
    <2>3. Plain(call'.text)
      <3>1. Len(<<>>) = 0 /\ 1..0 = {} OBVIOUS
      <3> QED BY <2>2, <3>1 DEF Plain
    <2>4. \A i \in 2..Len(p) : p[i] \in Markers => p[i - 1] = "/"
      <3>1. \A i \in DOMAIN p : p[i] \in Markers => StartsSegment(p, i)
        BY <1>3 DEF Valid
      <3>2. \A i \in 2..Len(p) : i \in DOMAIN p BY <1>4
      <3> QED BY <3>1, <3>2 DEF StartsSegment
    <2> QED BY <1>4, <1>5, <2>1, <2>2, <2>3, <2>4 DEF CallInv
  <1>6. CASE roots[m] # 0
    <2>1. /\ x = roots[m] /\ roots' = roots /\ UNCHANGED <<nodes, where>>
      BY <1>1, <1>2, <1>3, <1>6 DEF Start, RootOf, TypeOK
    <2>2. x \in NodeIds /\ nodes[x].type = "static"
      BY <1>1, <1>6, <2>1 DEF RootInv, TypeOK
    <2>3. NodeIds' = NodeIds BY <2>1 DEF NodeIds
    <2>4. CallInv' /\ call' \in Calls' BY <1>5, <2>1, <2>2, <2>3
    <2>5. call' \in Calls BY <2>3, <2>4 DEF Calls
    <2>6. /\ TypeOK' /\ TreeInv' /\ RootInv'
          /\ \A n \in NodeIds' : Segmented(n)'
      BY <1>1, <1>3, <2>1, <2>5, SameTree DEF SegmentInv, TypeOK, tree
    <2> QED BY <2>4, <2>6 DEF Inv, SegmentInv
  <1>7. CASE roots[m] = 0
    <2> DEFINE f == NewNode("static", <<>>)
               q == [method |-> m, shape |-> <<>>]
    <2>1. /\ x = Len(nodes) + 1
          /\ nodes' = Append(nodes, f) /\ where' = Append(where, q)
      BY <1>2, <1>7 DEF Start, RootOf
    <2>2. /\ nodes \in Seq(Nodes) /\ where \in Seq(Places)
          /\ Len(where) = Len(nodes) /\ Len(nodes) \in Nat
          /\ NodeIds = 1..Len(nodes) /\ DOMAIN where = NodeIds
      BY <1>1, LenProperties DEF TypeOK, Nodes, Places, NodeIds
    <2>3. /\ f \in Nodes /\ f.type = "static" /\ f.static = <<>>
          /\ f.parameter = 0 /\ f.catch_all = 0
      BY DEF NewNode, Nodes, Kinds, Texts
    <2>4. q \in Places BY DEF Places, Texts
    <2> HIDE DEF f, q
    <2>5. x \notin NodeIds /\ x \in Nat \ {0}
          /\ 1..(Len(nodes) + 1) = NodeIds \cup {x}
      <3> DEFINE k == Len(nodes)
      <3>1. k \in Nat BY <2>2
      <3> HIDE DEF k
      <3>2. 1..(k + 1) = 1..k \cup {k + 1} /\ k + 1 \notin 1..k BY <3>1
      <3> QED BY <2>1, <2>2, <3>1, <3>2 DEF k
    <2>6. /\ nodes' \in Seq(Nodes) /\ Len(nodes') = Len(nodes) + 1
          /\ nodes'[x] = f /\ \A a \in NodeIds : nodes'[a] = nodes[a]
      BY <2>1, <2>2, <2>3, AppendProperties
    <2>7. /\ where' \in Seq(Places) /\ Len(where') = Len(nodes) + 1
          /\ where'[x] = q /\ \A a \in NodeIds : where'[a] = where[a]
      BY <2>1, <2>2, <2>4, AppendProperties
    <2>8. NodeIds' = NodeIds \cup {x} /\ DOMAIN where' = NodeIds \cup {x}
      BY <2>5, <2>6, <2>7, LenProperties DEF NodeIds
    <2>9. Edges(x)' /\ Segmented(x)' /\ Children(nodes'[x]) = {}
      BY <2>3, <2>6, FreshNode
    <2>10. Tree(where', Kids')
      <3>1. \A a \in NodeIds : where[a].method # m BY <1>1, <1>7 DEF RootInv
      <3>2. /\ \A a \in NodeIds : Kids'[a] = Kids[a]
            /\ Kids'[x] = {}
        BY <2>5, <2>6, <2>8, <2>9 DEF Kids
      <3>3. Rooted(where, Kids, m, where', Kids', x)
        BY <2>2, <2>5, <2>7, <2>8, <3>1, <3>2 DEF Rooted, q
      <3> QED BY <1>1, <3>3, NewRoot DEF TreeInv
    <2>11. \A a \in NodeIds' : Edges(a)'
      <3>1. ASSUME NEW a \in NodeIds PROVE Edges(a)'
        <4>1. \A c \in Children(nodes[a]) : c \in NodeIds BY <1>1, NodeTypes
        <4>2. Edges(a) BY <1>1 DEF TreeInv
        <4> QED BY <1>1, <2>6, <2>7, <4>1, <4>2, EdgesKept
      <3> QED BY <2>8, <2>9, <3>1
    <2>12. \A a \in NodeIds' : Segmented(a)'
      <3>1. ASSUME NEW a \in NodeIds PROVE Segmented(a)'
        <4>1. \A i \in 1..Len(nodes[a].static) : nodes[a].static[i] \in NodeIds
          BY <1>1, NodeTypes
        <4>2. Segmented(a) BY <1>1 DEF SegmentInv
        <4> QED BY <1>1, <2>6, <4>1, <4>2, SegmentKept
      <3> QED BY <2>8, <2>9, <3>1
    <2>13. RootInv'
      <3>1. ASSUME NEW l \in Methods, roots'[l] # 0
            PROVE  /\ where'[roots'[l]] = [method |-> l, shape |-> <<>>]
                   /\ nodes'[roots'[l]].type = "static"
        <4>1. CASE l = m
          <5>1. roots'[l] = x BY <1>1, <1>3, <4>1 DEF TypeOK
          <5> QED BY <2>3, <2>6, <2>7, <4>1, <5>1 DEF q
        <4>2. CASE l # m
          <5>1. roots'[l] = roots[l] BY <1>1, <1>3, <4>2 DEF TypeOK
          <5>2. roots[l] \in NodeIds BY <1>1, <3>1, <5>1 DEF TypeOK
          <5> QED BY <1>1, <2>6, <2>7, <3>1, <5>1, <5>2 DEF RootInv
        <4> QED BY <4>1, <4>2
      <3>2. ASSUME NEW a \in NodeIds' PROVE roots'[where'[a].method] # 0
        <4>1. roots'[m] = x BY <1>1, <1>3 DEF TypeOK
        <4>2. \A l \in Methods : l # m => roots'[l] = roots[l]
          BY <1>1, <1>3 DEF TypeOK
        <4>3. CASE a = x BY <2>5, <2>7, <4>1, <4>3 DEF q
        <4>4. CASE a \in NodeIds
          <5>1. where[a].method \in Methods BY <2>2, <4>4, PlaceTypes
          <5> QED BY <1>1, <2>5, <2>7, <4>1, <4>2, <4>4, <5>1 DEF RootInv
        <4> QED BY <2>8, <4>3, <4>4
      <3> QED BY <3>1, <3>2 DEF RootInv
    <2>14. CallInv' /\ call' \in Calls' BY <1>5, <2>3, <2>6, <2>8
    <2>15. TypeOK'
      <3>1. \A a \in NodeIds' : \A c \in Children(nodes'[a]) : c \in NodeIds'
        <4>1. \A a \in NodeIds : \A c \in Children(nodes[a]) : c \in NodeIds
          BY <1>1, NodeTypes
        <4> QED BY <2>6, <2>8, <2>9, <4>1
      <3>2. roots' \in [Methods -> NodeIds' \cup {0}]
        BY <1>1, <1>3, <2>8 DEF TypeOK
      <3>3. /\ outcome' \in {"none", "invalid", "duplicate", "added"}
            /\ dead' \subseteq Temporaries /\ Len(where') = Len(nodes')
        BY <1>1, <1>3, <2>6, <2>7 DEF TypeOK
      <3> QED BY <2>6, <2>7, <2>14, <3>1, <3>2, <3>3, MakeTypes
    <2> QED BY <2>10, <2>11, <2>12, <2>13, <2>14, <2>15 DEF Inv, TreeInv, SegmentInv
  <1> QED BY <1>6, <1>7

\* The end of add_route sets a route or throws, and changes no edge.
LEMMA FinishInv == Inv /\ Finish => Inv'
  <1> SUFFICES ASSUME Inv, Finish PROVE Inv' OBVIOUS
  <1>1. TypeOK /\ TreeInv /\ RootInv /\ SegmentInv BY DEF Inv
  <1>2. /\ call # NoCall /\ call' = NoCall /\ UNCHANGED <<roots, where>>
        /\ outcome' \in {"duplicate", "added"}
        /\ dead' = dead \cup ({call.handler} \cap Temporaries)
    BY DEF Finish, CallEnds
  <1>3. CallInv' BY <1>2 DEF CallInv
  <1>4. outcome' \in {"none", "invalid", "duplicate", "added"} /\ dead' \subseteq Temporaries
    BY <1>1, <1>2 DEF TypeOK
  <1>5. CASE UNCHANGED nodes
    <2>1. /\ TypeOK' /\ TreeInv' /\ RootInv'
          /\ \A n \in NodeIds' : Segmented(n)'
      BY <1>1, <1>2, <1>4, <1>5, SameTree DEF SegmentInv, tree
    <2> QED BY <1>3, <2>1 DEF Inv, SegmentInv
  <1>6. CASE ~ UNCHANGED nodes
    <2>1. PICK n \in NodeIds : n = call.cur BY <1>1, <1>2, CallTypes
    <2> DEFINE e == [nodes[n] EXCEPT
                       !.route = {[handler |-> call.handler, names |-> call.names]}]
    <2>2. nodes' = [nodes EXCEPT ![n] = e] BY <1>6, <2>1 DEF Finish
    <2>3. nodes \in Seq(Nodes) /\ nodes[n] \in Nodes /\ n \in 1..Len(nodes)
      BY <1>1, NodeTypes
    <2>4. /\ e \in Nodes /\ e.type = nodes[n].type /\ e.prefix = nodes[n].prefix
          /\ e.static = nodes[n].static /\ e.parameter = nodes[n].parameter
          /\ e.catch_all = nodes[n].catch_all
      <3> DEFINE R == {[handler |-> call.handler, names |-> call.names]}
      <3>1. R \in SUBSET [handler : Handlers, names : Seq(Texts)]
        BY <1>1, <1>2, CallTypes DEF Calls
      <3> HIDE DEF R
      <3>2. /\ [nodes[n] EXCEPT !.route = R] \in Nodes
            /\ [nodes[n] EXCEPT !.route = R].type = nodes[n].type
            /\ [nodes[n] EXCEPT !.route = R].prefix = nodes[n].prefix
            /\ [nodes[n] EXCEPT !.route = R].static = nodes[n].static
            /\ [nodes[n] EXCEPT !.route = R].parameter = nodes[n].parameter
            /\ [nodes[n] EXCEPT !.route = R].catch_all = nodes[n].catch_all
        BY <2>3, <3>1 DEF Nodes
      <3> QED BY <3>2 DEF R
    <2> HIDE DEF e
    <2>5. /\ nodes' \in Seq(Nodes) /\ Len(nodes') = Len(nodes)
          /\ nodes'[n] = e /\ \A a \in NodeIds : a # n => nodes'[a] = nodes[a]
      BY <2>2, <2>3, <2>4, ExceptSeq DEF NodeIds
    <2>6. NodeIds' = NodeIds BY <2>3, <2>5, LenProperties DEF NodeIds
    <2>7. \A a \in NodeIds : /\ nodes'[a].type = nodes[a].type
                            /\ nodes'[a].prefix = nodes[a].prefix
                            /\ nodes'[a].static = nodes[a].static
                            /\ nodes'[a].parameter = nodes[a].parameter
                            /\ nodes'[a].catch_all = nodes[a].catch_all
      BY <2>4, <2>5
    <2>8. \A a \in NodeIds : Children(nodes'[a]) = Children(nodes[a])
      BY <2>7 DEF Children
    <2>9. \A a \in NodeIds : \A c \in Children(nodes[a]) : c \in NodeIds
      BY <1>1, NodeTypes
    <2>10. Tree(where', Kids')
      <3>1. Kids' = Kids BY <2>6, <2>8 DEF Kids
      <3> QED BY <1>1, <1>2, <3>1 DEF TreeInv
    <2>11. ASSUME NEW a \in NodeIds PROVE Edges(a)'
      <3>1. Edges(a) BY <1>1 DEF TreeInv
      <3>2. \A c \in Children(nodes[a]) : /\ nodes'[c].type = nodes[c].type
                                         /\ nodes'[c].prefix = nodes[c].prefix
                                         /\ where'[c] = where[c]
        BY <1>2, <2>7, <2>9
      <3> QED BY <1>1, <1>2, <2>7, <3>1, <3>2, EdgesKept
    <2>12. ASSUME NEW a \in NodeIds PROVE Segmented(a)'
      <3>1. Segmented(a) BY <1>1 DEF SegmentInv
      <3>2. \A i \in 1..Len(nodes[a].static) : nodes[a].static[i] \in NodeIds
        BY <1>1, NodeTypes
      <3>3. \A i \in 1..Len(nodes[a].static) :
              nodes'[nodes[a].static[i]].prefix[1] = nodes[nodes[a].static[i]].prefix[1]
        BY <2>7, <3>2
      <3> QED BY <1>1, <2>7, <3>1, <3>3, SegmentKept
    <2>13. RootInv'
      <3>1. \A m \in Methods : roots[m] # 0 => roots[m] \in NodeIds
        BY <1>1 DEF TypeOK
      <3> QED BY <1>1, <1>2, <2>6, <2>7, <3>1 DEF RootInv
    <2>14. TypeOK'
      <3>1. \A a \in NodeIds' : \A c \in Children(nodes'[a]) : c \in NodeIds'
        BY <2>6, <2>8, <2>9
      <3>2. /\ roots' \in [Methods -> NodeIds' \cup {0}]
            /\ where' \in Seq(Places) /\ Len(where') = Len(nodes')
        BY <1>1, <1>2, <2>5, <2>6 DEF TypeOK, Places
      <3> QED BY <1>2, <1>4, <2>5, <3>1, <3>2, MakeTypes
    <2> QED BY <1>3, <2>6, <2>10, <2>11, <2>12, <2>13, <2>14
            DEF Inv, TreeInv, SegmentInv
  <1> QED BY <1>5, <1>6

-----------------------------------------------------------------------------
(* Every step.                                                             *)

\* The invariant holds before the first add_route.
LEMMA InitInv == Init => Inv
  <1> SUFFICES ASSUME Init PROVE Inv OBVIOUS
  <1>1. /\ nodes = <<>> /\ where = <<>> /\ call = NoCall /\ outcome = "none"
        /\ dead = {} /\ roots = [m \in Methods |-> 0]
    BY DEF Init
  <1>2. /\ DOMAIN <<>> = {} /\ Len(<<>>) = 0 /\ <<>> \in Seq(Nodes)
        /\ <<>> \in Seq(Places)
    OBVIOUS
  <1>3. NodeIds = {} /\ DOMAIN where = {} BY <1>1, <1>2 DEF NodeIds
  <1>4. TypeOK BY <1>1, <1>2, <1>3 DEF TypeOK, Nodes, Places
  <1>5. TreeInv /\ RootInv /\ SegmentInv
    BY <1>1, <1>3 DEF TreeInv, Tree, RootInv, SegmentInv, CallInv
  <1> QED BY <1>4, <1>5 DEF Inv

\* Every step keeps it.
LEMMA NextInv == Inv /\ [Next]_vars => Inv'
  <1> SUFFICES ASSUME Inv, [Next]_vars PROVE Inv' OBVIOUS
  <1>1. CASE \E m \in Methods, p \in Patterns, h \in Handlers : Reject(m, p, h)
    BY <1>1, RejectInv
  <1>2. CASE \E m \in Methods, p \in Patterns, h \in Handlers : Start(m, p, h)
    BY <1>2, StartInv
  <1>3. CASE Literal BY <1>3, LiteralInv
  <1>4. CASE Descend BY <1>4, DescendInv
  <1>5. CASE Split BY <1>5, SplitInv
  <1>6. CASE Grow BY <1>6, GrowInv
  <1>7. CASE Special BY <1>7, SpecialThere, SpecialMade
  <1>8. CASE Finish BY <1>8, FinishInv
  <1>9. CASE UNCHANGED vars
    <2>1. TypeOK /\ TreeInv /\ RootInv /\ SegmentInv BY DEF Inv
    <2>2. UNCHANGED tree /\ UNCHANGED <<call, outcome, dead>> BY <1>9 DEF vars
    <2>3. /\ TypeOK' /\ TreeInv' /\ RootInv'
          /\ \A n \in NodeIds' : Segmented(n)'
      <3>1. call' = NoCall \/ call' \in Calls
        BY <2>1, <2>2, CallTypes
      <3> QED BY <2>1, <2>2, <3>1, SameTree DEF SegmentInv, TypeOK
    <2>4. CallInv' BY <2>1, <2>2 DEF SegmentInv, CallInv, tree
    <2> QED BY <2>3, <2>4 DEF Inv, SegmentInv
  <1> QED
    BY <1>1, <1>2, <1>3, <1>4, <1>5, <1>6, <1>7, <1>8, <1>9 DEF Next, Step

\* So it holds at every step of every sequence of add_route calls.
LEMMA InvHolds == Spec => []Inv
  BY InitInv, NextInv, PTL DEF Spec

\* Type correctness of the router, for any patterns, methods and handlers.
THEOREM TypeCorrect == Spec => []TypeOK
  <1>1. Inv => TypeOK BY DEF Inv
  <1> QED BY <1>1, InvHolds, PTL

\* Whatever is registered in whatever order, each method's nodes are a radix
\* tree at every step of insert_static and insert_special.
THEOREM TreesAreRadix == Spec => []RadixTree
  BY InvImplies, InvHolds, PTL

\* insert_special never meets a special node, and what hangs below a special
\* node starts a new segment, for any patterns that validate_pattern passes.
THEOREM SpecialsInSegments == Spec => []SpecialsTakeSegments
  BY InvImplies, InvHolds, PTL

=============================================================================
