-------------------------- MODULE ShellScopeProofs --------------------------
(***************************************************************************)
(* Proofs about the shell's variables, environment and positional          *)
(* parameters, for any names, values, directories, parameters, assignments *)
(* and depth of commands with assignments, calls and subshells.  What ends *)
(* a scope is a loop over what it saved: folds in the model, about which   *)
(* there is an induction by least elements.  The second half is about the  *)
(* standard streams and the temporary files of the same constructs.        *)
(***************************************************************************)
EXTENDS ShellScope, TLAPS, WellFoundedInduction, FiniteSetTheorems

(* Induction by least elements: the prover cannot instantiate the library's*)
(* induction theorems, but it can take the least of a set of numbers, and  *)
(* the folds below have their recursive functions by it.                   *)
LEMMA LeastNumber ==
  ASSUME NEW T, T \subseteq Nat, T # {}
  PROVE  \E x \in T : \A y \in T : x <= y
  <1>1. PICK x \in T : \A y \in T : ~ (<<y, x>> \in OpToRel(<, Nat))
    BY WFMin, NatLessThanWellFounded
  <1>2. ASSUME NEW y \in T PROVE x <= y
    <2>1. <<y, x>> \in Nat \X Nat  OBVIOUS
    <2>2. ~(y < x)
      BY <1>1, <2>1 DEF OpToRel
    <2> QED BY <2>2
  <1> QED BY <1>2

LEMMA GreatestNumber ==
  ASSUME NEW n \in Nat, NEW T, T \subseteq 0..n, T # {}
  PROVE  \E x \in T : \A y \in T : x >= y
  <1> DEFINE Mirror == {n - x : x \in T}
  <1>1. PICK m \in Mirror : \A y \in Mirror : m <= y
    <2>1. Mirror \subseteq Nat /\ Mirror # {}  OBVIOUS
    <2> HIDE DEF Mirror
    <2> QED BY <2>1, LeastNumber
  <1>2. PICK x \in T : m = n - x  OBVIOUS
  <1>3. ASSUME NEW y \in T PROVE x >= y
    <2>1. n - y \in Mirror  OBVIOUS
    <2> QED BY <2>1, <1>1, <1>2
  <1> QED BY <1>3

(* What Max of a set of indices is.                                        *)
LEMMA MaxIsGreatest ==
  ASSUME NEW n \in Nat, NEW S \in SUBSET (1..n), S # {}
  PROVE  Max(S) \in S /\ \A y \in S : Max(S) >= y
  <1>0. S \subseteq 0..n  OBVIOUS
  <1>1. \E x \in S : \A y \in S : x >= y  BY <1>0, GreatestNumber
  <1> QED BY <1>1 DEF Max

(* f is the function by which MapThenFoldSet folds the operations F over the*)
(* indices 1..n.                                                           *)
Iterates(f, Z, base, n, F) ==
  /\ f \in [SUBSET (1..n) -> Z]
  /\ \A S \in SUBSET (1..n) :
       f[S] = IF S = {} THEN base ELSE F[Max(S)][f[S \ {Max(S)}]]

(* The recursive function that a fold over a sequence of n elements stands *)
(* for exists: were there a last n below which it does, it could be extended.*)
LEMMA FoldExists ==
  ASSUME NEW Z, NEW base \in Z, NEW n \in Nat, NEW F \in [1..n -> [Z -> Z]]
  PROVE  \E f : Iterates(f, Z, base, n, F)
  <1> DEFINE Rec(m, f) == /\ f \in [SUBSET (1..m) -> Z]
                          /\ \A s \in SUBSET (1..m) :
                               f[s] = IF s = {} THEN base ELSE F[Max(s)][f[s \ {Max(s)}]]
             Bad == {m \in 0..n : ~ \E f : Rec(m, f)}
  <1>1. Bad = {}
    <2> SUFFICES ASSUME Bad # {} PROVE FALSE OBVIOUS
    <2>1. PICK m \in Bad : \A k \in Bad : m <= k
      <3>1. Bad \subseteq Nat OBVIOUS
      <3> HIDE DEF Bad
      <3> QED BY <3>1, LeastNumber
    <2>m. m \in 0..n  OBVIOUS
    <2>2. m # 0
      <3>1. Rec(0, [s \in SUBSET (1..0) |-> base])
        <4>1. \A s \in SUBSET (1..0) : s = {}  OBVIOUS
        <4> QED BY <4>1
      <3>2. \E f : Rec(0, f)
        <4> HIDE DEF Rec
        <4> QED BY <3>1
      <3> HIDE DEF Rec
      <3> QED BY <3>2
    <2>3. m - 1 \in 0..n /\ m - 1 \notin Bad
      <3>1. m - 1 \in 0..n  BY <2>m, <2>2
      <3>2. ~ (m <= m - 1)  BY <2>m
      <3> HIDE DEF Bad
      <3> QED BY <2>1, <3>1, <3>2
    <2>4. PICK f : Rec(m - 1, f) BY <2>3
    <2> DEFINE g == [s \in SUBSET (1..m) |-> IF m \in s THEN F[m][f[s \ {m}]] ELSE f[s]]
    <2>5. ASSUME NEW s \in SUBSET (1..m)
          PROVE  /\ g[s] \in Z
                 /\ g[s] = IF s = {} THEN base ELSE F[Max(s)][g[s \ {Max(s)}]]
      <3>1. CASE m \in s
        <4>1. Max(s) = m
          <5>1. m \in Nat /\ s \in SUBSET (1..m) /\ s # {}  BY <2>m, <3>1
          <5>2. Max(s) \in s /\ \A y \in s : Max(s) >= y  BY <5>1, MaxIsGreatest
          <5>3. Max(s) \in 1..m /\ Max(s) >= m  BY <5>2, <3>1
          <5> QED BY <5>1, <5>3
        <4>2. s \ {m} \in SUBSET (1..m-1) /\ m \notin s \ {m} /\ s \ {m} \in SUBSET (1..m)  BY <2>m
        <4>3. g[s \ {m}] = f[s \ {m}] /\ f[s \ {m}] \in Z  BY <4>2, <2>4
        <4>4. g[s] = F[m][f[s \ {m}]]  BY <3>1
        <4>5. m \in 1..n  BY <2>m, <2>2
        <4>6. F[m] \in [Z -> Z]  BY <4>5
        <4>7. F[m][f[s \ {m}]] \in Z  BY <4>3, <4>6
        <4>8. g[s] \in Z  BY <4>4, <4>7
        <4>9. g[s] = F[Max(s)][g[s \ {Max(s)}]]
          <5> HIDE DEF g
          <5> QED BY <4>1, <4>3, <4>4
        <4>10. s # {}  BY <3>1
        <4> HIDE DEF g
        <4> QED BY <4>8, <4>9, <4>10
      <3>2. CASE m \notin s
        <4>1. s \in SUBSET (1..m-1)  BY <3>2, <2>m
        <4>2. g[s] = f[s]  BY <3>2
        <4>4. s \ {Max(s)} \in SUBSET (1..m) /\ m \notin s \ {Max(s)}  BY <3>2
        <4>6. g[s \ {Max(s)}] = f[s \ {Max(s)}]  BY <4>4
        <4>5. f[s] \in Z /\ f[s] = IF s = {} THEN base ELSE F[Max(s)][f[s \ {Max(s)}]]
          BY <4>1, <2>4
        <4> HIDE DEF g
        <4> QED BY <4>2, <4>5, <4>6
      <3> QED BY <3>1, <3>2
    <2>6. Rec(m, g)
      <3>1. g \in [SUBSET (1..m) -> Z]  BY <2>5
      <3> QED BY <2>5, <3>1
    <2> QED
      <3> HIDE DEF g, Rec
      <3> QED BY <2>6, <2>1
  <1>2. PICK f : Rec(n, f)
    <2>1. n \in 0..n  OBVIOUS
    <2> HIDE DEF Rec
    <2> QED BY <1>1, <2>1
  <1> QED BY <1>2 DEF Iterates

(* An initial segment of the indices, without its last.                    *)
LEMMA Initial ==
  ASSUME NEW n \in Nat, NEW k \in 1..n
  PROVE  /\ 1..k \in SUBSET (1..n) /\ 1..k # {}
         /\ (1..k) \ {k} = 1..k-1
         /\ Max(1..k) = k
  <1>1. 1..k \in SUBSET (1..k) /\ 1..k # {} /\ k \in Nat /\ k \in 1..k  OBVIOUS
  <1>2. Max(1..k) \in 1..k /\ Max(1..k) >= k
    BY <1>1, MaxIsGreatest
  <1>3. Max(1..k) = k  BY <1>2
  <1>4. (1..k) \ {k} = 1..k-1  OBVIOUS
  <1>5. 1..k \in SUBSET (1..n)  OBVIOUS
  <1> QED BY <1>1, <1>3, <1>4, <1>5

(* Induction upwards to n, over the set of the good numbers.               *)
LEMMA Upwards ==
  ASSUME NEW n \in Nat, NEW a \in 0..n, NEW Good, a \in Good,
         \A k \in a + 1 .. n : k - 1 \in Good => k \in Good
  PROVE  a..n \subseteq Good
  <1> DEFINE Bad == {k \in a..n : k \notin Good}
  <1> SUFFICES ASSUME Bad # {} PROVE FALSE  OBVIOUS
  <1>1. PICK m \in Bad : \A k \in Bad : m <= k
    <2>1. Bad \subseteq Nat  OBVIOUS
    <2> HIDE DEF Bad
    <2> QED BY <2>1, LeastNumber
  <1>2. m \in a + 1 .. n /\ m - 1 \in a..n  OBVIOUS
  <1>3. m - 1 \notin Bad
    <2>1. ~(m <= m - 1)  BY <1>2
    <2> HIDE DEF Bad
    <2> QED BY <1>1, <2>1
  <1> QED BY <1>2, <1>3

(* What a variable, an assignment that was saved, and a command that has   *)
(* made some of its assignments hold.                                      *)
Value == Values \cup Dirs \cup {None, Empty}
Entry == [name: Names, val: Value, env: Value]
Acc == [store: Store, saved: Seq(Entry)]

(* The four operations on variables keep the store a store.                *)
LEMMA StoreOps ==
  ASSUME NEW s \in Store, NEW n \in Names, NEW v \in Value
  PROVE  /\ Put(s, n, v) \in Store
         /\ Del(s, n) \in Store
         /\ Restore(s, n, v) \in Store
         /\ Export(s, n) \in Store
  BY DEF Put, Del, Restore, Export, Store, Value

(* The three folds as histories of the store: sh_pop_scope restores one    *)
(* variable after another, the end of a command undoes one assignment after*)
(* another, and its beginning makes one after another.                     *)
LEMMA PopScopeSteps ==
  ASSUME NEW s \in Store, NEW saved \in Seq(Entry)
  PROVE  \E h \in [0..Len(saved) -> Store] :
           /\ h[0] = s /\ PopScope(s, saved) = h[Len(saved)]
           /\ \A k \in 1..Len(saved) : h[k] = Restore(h[k-1], saved[k].name, saved[k].val)
  <1> DEFINE n == Len(saved)
             F == [k \in 1..n |-> [z \in Store |-> Restore(z, saved[k].name, saved[k].val)]]
             Eq(f) == f = [S \in SUBSET (DOMAIN saved) |->
                            IF S = {} THEN s ELSE
                            LET x == Max(S) IN Restore(f[S \ {x}], saved[x].name, saved[x].val)]
             c == CHOOSE f : Eq(f)
             h == [k \in 0..n |-> c[1..k]]
  <1>1. n \in Nat /\ DOMAIN saved = 1..n  OBVIOUS
  <1>2. PopScope(s, saved) = c[DOMAIN saved]
    BY DEF PopScope, FoldLeft, MapThenFoldSet
  <1>3. ASSUME NEW z \in Store, NEW k \in 1..n
        PROVE  Restore(z, saved[k].name, saved[k].val) \in Store
    <2>0. saved[k] \in Entry  BY <1>1
    <2>1. saved[k].name \in Names /\ saved[k].val \in Value  BY <2>0 DEF Entry
    <2> QED BY <2>1, StoreOps
  <1>4. F \in [1..n -> [Store -> Store]]  BY <1>3
  <1>b. s \in Store  OBVIOUS
  <1>5. PICK f : Iterates(f, Store, s, n, F)
    <2> HIDE DEF n, F
    <2> QED BY <1>1, <1>4, <1>b, FoldExists
  <1>6. ASSUME NEW S \in SUBSET (1..n), S # {}
        PROVE  Max(S) \in 1..n /\ S \ {Max(S)} \in SUBSET (1..n)
    <2>1. Max(S) \in S  BY <1>1, <1>6, MaxIsGreatest
    <2> QED BY <2>1
  <1>7. Eq(f)
    <2>1. ASSUME NEW S \in SUBSET (1..n), S # {}
          PROVE  F[Max(S)][f[S \ {Max(S)}]] = Restore(f[S \ {Max(S)}], saved[Max(S)].name, saved[Max(S)].val)
      <3>1. Max(S) \in 1..n /\ S \ {Max(S)} \in SUBSET (1..n)  BY <2>1, <1>6
      <3>2. f[S \ {Max(S)}] \in Store  BY <3>1, <1>5 DEF Iterates
      <3> QED BY <3>1, <3>2
    <2>2. DOMAIN saved = 1..n  BY <1>1
    <2>3. ASSUME NEW S \in SUBSET (DOMAIN saved)
          PROVE  f[S] = IF S = {} THEN s ELSE
                        LET x == Max(S) IN Restore(f[S \ {x}], saved[x].name, saved[x].val)
      <3> HIDE DEF F, n
      <3> QED BY <1>5, <2>1, <2>2, <2>3 DEF Iterates
    <2> HIDE DEF F, n
    <2> QED BY <1>5, <2>2, <2>3 DEF Iterates
  <1>8. Eq(c)
    <2> HIDE DEF Eq
    <2> QED BY <1>7
  <1>9. c[{}] = s  BY <1>8
  <1>10. ASSUME NEW k \in 1..n
         PROVE  c[1..k] = Restore(c[1..k-1], saved[k].name, saved[k].val)
    <2>1. /\ 1..k \in SUBSET (1..n) /\ 1..k # {}
          /\ (1..k) \ {k} = 1..k-1 /\ Max(1..k) = k
      BY <1>1, Initial
    <2>3. 1..k \in SUBSET (DOMAIN saved)  BY <2>1, <1>1
    <2>4. c[1..k] = LET x == Max(1..k) IN Restore(c[(1..k) \ {x}], saved[x].name, saved[x].val)
      <3> HIDE DEF c
      <3> QED BY <1>8, <2>1, <2>3
    <2> HIDE DEF c
    <2> QED BY <2>1, <2>4
  <1>11. \A k \in 0..n : c[1..k] \in Store
    <2> DEFINE Good == {k \in 0..n : c[1..k] \in Store}
    <2>1. 0 \in Good
      <3>1. 1..0 = {}  OBVIOUS
      <3> QED BY <3>1, <1>1, <1>9, <1>b
    <2>2. ASSUME NEW k \in 0 + 1 .. n, k - 1 \in Good PROVE k \in Good
      <3>1. k \in 1..n /\ c[1..k-1] \in Store  BY <2>2
      <3>2. c[1..k] \in Store
        <4> HIDE DEF c
        <4> QED BY <3>1, <1>3, <1>10
      <3> QED BY <3>1, <3>2
    <2>3. 0..n \subseteq Good
      <3> HIDE DEF Good, n
      <3>1. 0 \in 0..n  BY <1>1
      <3> QED BY <1>1, <2>1, <2>2, <3>1, Upwards
    <2> QED BY <2>3
  <1>12. h \in [0..n -> Store]  BY <1>11
  <1>13. h[0] = s
    <2>1. 1..0 = {}  OBVIOUS
    <2> QED BY <2>1, <1>1, <1>9
  <1>14. PopScope(s, saved) = h[n]
    <2> HIDE DEF c
    <2> QED BY <1>1, <1>2
  <1>15. ASSUME NEW k \in 1..n PROVE h[k] = Restore(h[k-1], saved[k].name, saved[k].val)
    <2>1. h[k] = c[1..k] /\ h[k-1] = c[1..k-1]  BY <1>1
    <2> HIDE DEF h
    <2> QED BY <2>1, <1>10
  <1> HIDE DEF h
  <1> QED BY <1>12, <1>13, <1>14, <1>15

LEMMA UnbindSteps ==
  ASSUME NEW s \in Store, NEW saved \in Seq(Entry)
  PROVE  \E h \in [0..Len(saved) -> Store] :
           /\ h[0] = s /\ FoldLeft(Unbind, s, saved) = h[Len(saved)]
           /\ \A k \in 1..Len(saved) : h[k] = Unbind(h[k-1], saved[k])
  <1> DEFINE n == Len(saved)
             F == [k \in 1..n |-> [z \in Store |-> Unbind(z, saved[k])]]
             Eq(f) == f = [S \in SUBSET (DOMAIN saved) |->
                            IF S = {} THEN s ELSE
                            LET x == Max(S) IN Unbind(f[S \ {x}], saved[x])]
             c == CHOOSE f : Eq(f)
             h == [k \in 0..n |-> c[1..k]]
  <1>1. n \in Nat /\ DOMAIN saved = 1..n  OBVIOUS
  <1>2. FoldLeft(Unbind, s, saved) = c[DOMAIN saved]
    BY DEF FoldLeft, MapThenFoldSet
  <1>3. ASSUME NEW z \in Store, NEW k \in 1..n
        PROVE  Unbind(z, saved[k]) \in Store
    <2>0. saved[k] \in Entry  BY <1>1
    <2>1. saved[k].name \in Names /\ saved[k].val \in Value /\ saved[k].env \in Value
      BY <2>0 DEF Entry
    <2>2. Restore(z, saved[k].name, saved[k].val) \in Store  BY <2>1, StoreOps
    <2> QED BY <2>1, <2>2 DEF Unbind, Store, Value
  <1>4. F \in [1..n -> [Store -> Store]]  BY <1>3
  <1>b. s \in Store  OBVIOUS
  <1>5. PICK f : Iterates(f, Store, s, n, F)
    <2> HIDE DEF n, F
    <2> QED BY <1>1, <1>4, <1>b, FoldExists
  <1>6. ASSUME NEW S \in SUBSET (1..n), S # {}
        PROVE  Max(S) \in 1..n /\ S \ {Max(S)} \in SUBSET (1..n)
    <2>1. Max(S) \in S  BY <1>1, <1>6, MaxIsGreatest
    <2> QED BY <2>1
  <1>7. Eq(f)
    <2>1. ASSUME NEW S \in SUBSET (1..n), S # {}
          PROVE  F[Max(S)][f[S \ {Max(S)}]] = Unbind(f[S \ {Max(S)}], saved[Max(S)])
      <3>1. Max(S) \in 1..n /\ S \ {Max(S)} \in SUBSET (1..n)  BY <2>1, <1>6
      <3>2. f[S \ {Max(S)}] \in Store  BY <3>1, <1>5 DEF Iterates
      <3> QED BY <3>1, <3>2
    <2>2. DOMAIN saved = 1..n  BY <1>1
    <2>3. ASSUME NEW S \in SUBSET (DOMAIN saved)
          PROVE  f[S] = IF S = {} THEN s ELSE
                        LET x == Max(S) IN Unbind(f[S \ {x}], saved[x])
      <3> HIDE DEF F, n
      <3> QED BY <1>5, <2>1, <2>2, <2>3 DEF Iterates
    <2> HIDE DEF F, n
    <2> QED BY <1>5, <2>2, <2>3 DEF Iterates
  <1>8. Eq(c)
    <2> HIDE DEF Eq
    <2> QED BY <1>7
  <1>9. c[{}] = s  BY <1>8
  <1>10. ASSUME NEW k \in 1..n
         PROVE  c[1..k] = Unbind(c[1..k-1], saved[k])
    <2>1. /\ 1..k \in SUBSET (1..n) /\ 1..k # {}
          /\ (1..k) \ {k} = 1..k-1 /\ Max(1..k) = k
      BY <1>1, Initial
    <2>3. 1..k \in SUBSET (DOMAIN saved)  BY <2>1, <1>1
    <2>4. c[1..k] = LET x == Max(1..k) IN Unbind(c[(1..k) \ {x}], saved[x])
      <3> HIDE DEF c
      <3> QED BY <1>8, <2>1, <2>3
    <2> HIDE DEF c
    <2> QED BY <2>1, <2>4
  <1>11. \A k \in 0..n : c[1..k] \in Store
    <2> DEFINE Good == {k \in 0..n : c[1..k] \in Store}
    <2>1. 0 \in Good
      <3>1. 1..0 = {}  OBVIOUS
      <3> QED BY <3>1, <1>1, <1>9, <1>b
    <2>2. ASSUME NEW k \in 0 + 1 .. n, k - 1 \in Good PROVE k \in Good
      <3>1. k \in 1..n /\ c[1..k-1] \in Store  BY <2>2
      <3>2. c[1..k] \in Store
        <4> HIDE DEF c
        <4> QED BY <3>1, <1>3, <1>10
      <3> QED BY <3>1, <3>2
    <2>3. 0..n \subseteq Good
      <3> HIDE DEF Good, n
      <3>1. 0 \in 0..n  BY <1>1
      <3> QED BY <1>1, <2>1, <2>2, <3>1, Upwards
    <2> QED BY <2>3
  <1>12. h \in [0..n -> Store]  BY <1>11
  <1>13. h[0] = s
    <2>1. 1..0 = {}  OBVIOUS
    <2> QED BY <2>1, <1>1, <1>9
  <1>14. FoldLeft(Unbind, s, saved) = h[n]
    <2> HIDE DEF c
    <2> QED BY <1>1, <1>2
  <1>15. ASSUME NEW k \in 1..n PROVE h[k] = Unbind(h[k-1], saved[k])
    <2>1. h[k] = c[1..k] /\ h[k-1] = c[1..k-1]  BY <1>1
    <2> HIDE DEF h
    <2> QED BY <2>1, <1>10
  <1> HIDE DEF h
  <1> QED BY <1>12, <1>13, <1>14, <1>15

LEMMA BindSteps ==
  ASSUME NEW s \in Store, NEW b \in Bindings
  PROVE  \E h \in [0..Len(b) -> Acc] :
           /\ h[0] = [store |-> s, saved |-> <<>>] /\ FoldLeft(Bind, [store |-> s, saved |-> <<>>], b) = h[Len(b)]
           /\ \A k \in 1..Len(b) : h[k] = Bind(h[k-1], b[k])
  <1> DEFINE n == Len(b)
             F == [k \in 1..n |-> [z \in Acc |-> Bind(z, b[k])]]
             Eq(f) == f = [S \in SUBSET (DOMAIN b) |->
                            IF S = {} THEN [store |-> s, saved |-> <<>>] ELSE
                            LET x == Max(S) IN Bind(f[S \ {x}], b[x])]
             c == CHOOSE f : Eq(f)
             h == [k \in 0..n |-> c[1..k]]
  <1>1. n \in Nat /\ DOMAIN b = 1..n  BY DEF Bindings
  <1>2. FoldLeft(Bind, [store |-> s, saved |-> <<>>], b) = c[DOMAIN b]
    BY DEF FoldLeft, MapThenFoldSet
  <1>3. ASSUME NEW z \in Acc, NEW k \in 1..n
        PROVE  Bind(z, b[k]) \in Acc
    <2>1. b[k].name \in Names /\ b[k].val \in Value  BY <1>1 DEF Bindings, Value
    <2>2. Put(z.store, b[k].name, b[k].val) \in Store /\ z.store \in Store
      BY <2>1, StoreOps DEF Acc
    <2>3. [Put(z.store, b[k].name, b[k].val) EXCEPT !.env[b[k].name] = b[k].val] \in Store
      BY <2>1, <2>2 DEF Store, Value
    <2>4. [name |-> b[k].name, val |-> z.store.val[b[k].name], env |-> z.store.env[b[k].name]] \in Entry
      BY <2>1, <2>2 DEF Store, Value, Entry
    <2> QED BY <2>3, <2>4 DEF Bind, Acc
  <1>4. F \in [1..n -> [Acc -> Acc]]  BY <1>3
  <1>b. [store |-> s, saved |-> <<>>] \in Acc  BY DEF Acc
  <1>5. PICK f : Iterates(f, Acc, [store |-> s, saved |-> <<>>], n, F)
    <2> HIDE DEF n, F
    <2> QED BY <1>1, <1>4, <1>b, FoldExists
  <1>6. ASSUME NEW S \in SUBSET (1..n), S # {}
        PROVE  Max(S) \in 1..n /\ S \ {Max(S)} \in SUBSET (1..n)
    <2>1. Max(S) \in S  BY <1>1, <1>6, MaxIsGreatest
    <2> QED BY <2>1
  <1>7. Eq(f)
    <2>1. ASSUME NEW S \in SUBSET (1..n), S # {}
          PROVE  F[Max(S)][f[S \ {Max(S)}]] = Bind(f[S \ {Max(S)}], b[Max(S)])
      <3>1. Max(S) \in 1..n /\ S \ {Max(S)} \in SUBSET (1..n)  BY <2>1, <1>6
      <3>2. f[S \ {Max(S)}] \in Acc  BY <3>1, <1>5 DEF Iterates
      <3> QED BY <3>1, <3>2
    <2>2. DOMAIN b = 1..n  BY <1>1
    <2>3. ASSUME NEW S \in SUBSET (DOMAIN b)
          PROVE  f[S] = IF S = {} THEN [store |-> s, saved |-> <<>>] ELSE
                        LET x == Max(S) IN Bind(f[S \ {x}], b[x])
      <3> HIDE DEF F, n
      <3> QED BY <1>5, <2>1, <2>2, <2>3 DEF Iterates
    <2> HIDE DEF F, n
    <2> QED BY <1>5, <2>2, <2>3 DEF Iterates
  <1>8. Eq(c)
    <2> HIDE DEF Eq
    <2> QED BY <1>7
  <1>9. c[{}] = [store |-> s, saved |-> <<>>]  BY <1>8
  <1>10. ASSUME NEW k \in 1..n
         PROVE  c[1..k] = Bind(c[1..k-1], b[k])
    <2>1. /\ 1..k \in SUBSET (1..n) /\ 1..k # {}
          /\ (1..k) \ {k} = 1..k-1 /\ Max(1..k) = k
      BY <1>1, Initial
    <2>3. 1..k \in SUBSET (DOMAIN b)  BY <2>1, <1>1
    <2>4. c[1..k] = LET x == Max(1..k) IN Bind(c[(1..k) \ {x}], b[x])
      <3> HIDE DEF c
      <3> QED BY <1>8, <2>1, <2>3
    <2> HIDE DEF c
    <2> QED BY <2>1, <2>4
  <1>11. \A k \in 0..n : c[1..k] \in Acc
    <2> DEFINE Good == {k \in 0..n : c[1..k] \in Acc}
    <2>1. 0 \in Good
      <3>1. 1..0 = {}  OBVIOUS
      <3> QED BY <3>1, <1>1, <1>9, <1>b
    <2>2. ASSUME NEW k \in 0 + 1 .. n, k - 1 \in Good PROVE k \in Good
      <3>1. k \in 1..n /\ c[1..k-1] \in Acc  BY <2>2
      <3>2. c[1..k] \in Acc
        <4> HIDE DEF c
        <4> QED BY <3>1, <1>3, <1>10
      <3> QED BY <3>1, <3>2
    <2>3. 0..n \subseteq Good
      <3> HIDE DEF Good, n
      <3>1. 0 \in 0..n  BY <1>1
      <3> QED BY <1>1, <2>1, <2>2, <3>1, Upwards
    <2> QED BY <2>3
  <1>12. h \in [0..n -> Acc]  BY <1>11
  <1>13. h[0] = [store |-> s, saved |-> <<>>]
    <2>1. 1..0 = {}  OBVIOUS
    <2> QED BY <2>1, <1>1, <1>9
  <1>14. FoldLeft(Bind, [store |-> s, saved |-> <<>>], b) = h[n]
    <2> HIDE DEF c
    <2> QED BY <1>1, <1>2
  <1>15. ASSUME NEW k \in 1..n PROVE h[k] = Bind(h[k-1], b[k])
    <2>1. h[k] = c[1..k] /\ h[k-1] = c[1..k-1]  BY <1>1
    <2> HIDE DEF h
    <2> QED BY <2>1, <1>10
  <1> HIDE DEF h
  <1> QED BY <1>12, <1>13, <1>14, <1>15

-----------------------------------------------------------------------------
(* What the folds leave behind.                                            *)

(* A variable that is not set is not exported.                             *)
Typed(s) == s \in Store /\ \A n \in Names : s.exp[n] => s.val[n] # None
Apart == None \notin Values \cup Dirs
Follows(s) == \A n \in Names : s.exp[n] /\ s.val[n] # Empty => s.env[n] = s.val[n]

(* Each operation: what it sets, what it leaves, and that it keeps the     *)
(* environment in step.                                                    *)
LEMMA PutTyped ==
  ASSUME NEW s, Typed(s), NEW n \in Names, NEW v \in Value, v # None
  PROVE  /\ Typed(Put(s, n, v))
         /\ \A m \in Names : Put(s, n, v).exp[m] => s.exp[m]
         /\ \A m \in Names : Put(s, n, v).val[m] = IF m = n THEN v ELSE s.val[m]
         /\ \A m \in Names \ {n} : /\ Put(s, n, v).env[m] = s.env[m]
                                   /\ Put(s, n, v).exp[m] = s.exp[m]
         /\ Follows(s) => Follows(Put(s, n, v))
  BY DEF Put, Typed, Store, Value, Follows

LEMMA DelTyped ==
  ASSUME NEW s, Typed(s), NEW n \in Names
  PROVE  /\ Typed(Del(s, n))
         /\ \A m \in Names : Del(s, n).exp[m] => s.exp[m]
         /\ \A m \in Names : Del(s, n).val[m] = IF m = n THEN None ELSE s.val[m]
         /\ \A m \in Names \ {n} : /\ Del(s, n).env[m] = s.env[m]
                                   /\ Del(s, n).exp[m] = s.exp[m]
         /\ ~ Del(s, n).exp[n]
         /\ Follows(s) => Follows(Del(s, n))
  BY DEF Del, Typed, Store, Value, Follows

LEMMA RestoreTyped ==
  ASSUME NEW s, Typed(s), NEW n \in Names, NEW v \in Value
  PROVE  /\ Typed(Restore(s, n, v))
         /\ \A m \in Names : Restore(s, n, v).exp[m] => s.exp[m]
         /\ \A m \in Names : Restore(s, n, v).val[m] = IF m = n THEN v ELSE s.val[m]
         /\ \A m \in Names \ {n} : /\ Restore(s, n, v).env[m] = s.env[m]
                                   /\ Restore(s, n, v).exp[m] = s.exp[m]
         /\ v = None => ~ Restore(s, n, v).exp[n]
         /\ Follows(s) => Follows(Restore(s, n, v))
  <1>1. CASE v = None  BY <1>1, DelTyped DEF Restore
  <1>2. CASE v # None  BY <1>2, PutTyped DEF Restore
  <1> QED BY <1>1, <1>2

LEMMA ExportTyped ==
  ASSUME NEW s, Typed(s), NEW n \in Names
  PROVE  /\ Typed(Export(s, n))
         /\ Follows(s) => Follows(Export(s, n))
         /\ \A m \in Names : Export(s, n).exp[m] => m = n \/ s.exp[m]
  BY DEF Export, Put, Typed, Store, Value, Follows, None, Empty

LEMMA UnbindTyped ==
  ASSUME NEW s, Typed(s), NEW b \in Entry
  PROVE  /\ Typed(Unbind(s, b))
         /\ \A m \in Names : Unbind(s, b).exp[m] => s.exp[m]
         /\ Unbind(s, b).val[b.name] = b.val /\ Unbind(s, b).env[b.name] = b.env
         /\ \A m \in Names \ {b.name} : /\ Unbind(s, b).val[m] = s.val[m]
                                        /\ Unbind(s, b).env[m] = s.env[m]
         /\ Follows(s) /\ (s.exp[b.name] /\ b.val # None /\ b.val # Empty => b.env = b.val) => Follows(Unbind(s, b))
  <1> DEFINE r == Restore(s, b.name, b.val)
  <1>1. b.name \in Names /\ b.val \in Value /\ b.env \in Value  BY DEF Entry
  <1>2. /\ Typed(r)
        /\ \A m \in Names : r.exp[m] => s.exp[m]
        /\ \A m \in Names : r.val[m] = IF m = b.name THEN b.val ELSE s.val[m]
        /\ \A m \in Names \ {b.name} : r.env[m] = s.env[m]
        /\ b.val = None => ~ r.exp[b.name]
        /\ Follows(s) => Follows(r)
    BY <1>1, RestoreTyped
  <1>3. Unbind(s, b) = [r EXCEPT !.env[b.name] = b.env]  BY DEF Unbind
  <1> HIDE DEF r
  <1> QED BY <1>1, <1>2, <1>3 DEF Typed, Store, Follows, Value

(* The value a call found in a variable it declared local.                 *)
Declared(saved, m) == \E k \in DOMAIN saved : saved[k].name = m
FirstDeclared(saved, m) ==
  saved[CHOOSE k \in DOMAIN saved :
          saved[k].name = m /\ \A j \in DOMAIN saved : saved[j].name = m => j <= k]

(* The end of a call gives each variable that it declared local the value it*)
(* had before its first declaration.                                       *)
LEMMA PopScopeUndoes ==
  ASSUME NEW s, Typed(s), NEW saved \in Seq(Entry)
  PROVE  /\ Typed(PopScope(s, saved))
         /\ \A m \in Names : PopScope(s, saved).exp[m] => s.exp[m]
         /\ Follows(s) => Follows(PopScope(s, saved))
         /\ \A m \in Names :
              PopScope(s, saved).val[m] =
                IF Declared(saved, m) THEN FirstDeclared(saved, m).val ELSE s.val[m]
  <1> DEFINE n == Len(saved)
  <1>0. n \in Nat /\ DOMAIN saved = 1..n /\ 0 \in 0..n /\ n \in 0..n  OBVIOUS
  <1>1. s \in Store  BY DEF Typed
  <1>2. PICK h \in [0..n -> Store] :
          /\ h[0] = s /\ PopScope(s, saved) = h[n]
          /\ \A k \in 1..n : h[k] = Restore(h[k-1], saved[k].name, saved[k].val)
    BY <1>1, PopScopeSteps
  <1> HIDE DEF n
  <1>3. ASSUME NEW k \in 1..n
        PROVE  saved[k] \in Entry /\ saved[k].name \in Names /\ saved[k].val \in Value /\ k-1 \in 0..n
    <2>1. saved[k] \in Entry  BY <1>0 DEF n
    <2> QED BY <2>1, <1>0 DEF Entry
  <1>4. \A k \in 0..n : /\ Typed(h[k])
                        /\ \A m \in Names : h[k].exp[m] => s.exp[m]
                        /\ Follows(s) => Follows(h[k])
    <2> DEFINE Good == {k \in 0..n : /\ Typed(h[k])
                                     /\ \A m \in Names : h[k].exp[m] => s.exp[m]
                                     /\ Follows(s) => Follows(h[k])}
    <2>1. 0 \in Good  BY <1>0, <1>2
    <2>2. ASSUME NEW k \in 0 + 1 .. n, k - 1 \in Good PROVE k \in Good
      <3>1. k \in 1..n /\ k \in 0..n  BY <1>0
      <3>2. Typed(h[k-1])  BY <2>2
      <3>3. h[k] = Restore(h[k-1], saved[k].name, saved[k].val)  BY <3>1, <1>2
      <3>4. Typed(h[k]) /\ (Follows(h[k-1]) => Follows(h[k]))
            /\ \A m \in Names : h[k].exp[m] => h[k-1].exp[m]
        BY <3>1, <3>2, <3>3, <1>3, RestoreTyped
      <3> QED BY <3>1, <3>4, <2>2
    <2>3. 0..n \subseteq Good
      <3> HIDE DEF Good
      <3> QED BY <1>0, <2>1, <2>2, Upwards
    <2> QED BY <2>3
  <1>5. \A k \in 1..n : \A m \in Names :
          h[k].val[m] = IF m = saved[k].name THEN saved[k].val ELSE h[k-1].val[m]
    BY <1>2, <1>3, <1>4, RestoreTyped
  <1>6. ASSUME NEW m \in Names, NEW a \in 0..n, \A k \in a + 1 .. n : saved[k].name # m
        PROVE  h[n].val[m] = h[a].val[m]
    <2> DEFINE Good == {k \in 0..n : h[k].val[m] = h[a].val[m]}
    <2>1. a \in Good  OBVIOUS
    <2>2. ASSUME NEW k \in a + 1 .. n, k - 1 \in Good PROVE k \in Good
      <3>1. k \in 1..n /\ k \in 0..n  BY <1>0
      <3> QED BY <3>1, <2>2, <1>5, <1>6
    <2>3. a..n \subseteq Good
      <3> HIDE DEF Good
      <3> QED BY <1>0, <2>1, <2>2, Upwards
    <2>4. n \in a..n  BY <1>0
    <2> QED BY <2>3, <2>4
  <1>7. ASSUME NEW m \in Names
        PROVE  h[n].val[m] =
                  IF Declared(saved, m) THEN FirstDeclared(saved, m).val ELSE s.val[m]
    <2> DEFINE Decl == {k \in 1..n : saved[k].name = m}
    <2>1. CASE Decl = {}
      <3>1. \A k \in 0 + 1 .. n : saved[k].name # m  BY <2>1
      <3>2. h[n].val[m] = h[0].val[m]  BY <1>0, <1>6, <3>1
      <3>3. ~ Declared(saved, m)  BY <2>1, <1>0 DEF Declared
      <3> QED BY <3>2, <3>3, <1>2
    <2>2. CASE Decl # {}
      <3> DEFINE l == CHOOSE k \in DOMAIN saved :
                        saved[k].name = m /\ \A j \in DOMAIN saved : saved[j].name = m => j <= k
      <3>1. \E x \in Decl : \A y \in Decl : x >= y
        <4>1. Decl \subseteq 0..n  BY <1>0
        <4> HIDE DEF Decl
        <4> QED BY <4>1, <2>2, <1>0, GreatestNumber
      <3>2. \E k \in DOMAIN saved :
               saved[k].name = m /\ \A j \in DOMAIN saved : saved[j].name = m => j <= k
        BY <3>1, <1>0
      <3>3. l \in 1..n /\ saved[l].name = m /\ \A j \in 1..n : saved[j].name = m => j <= l
        BY <3>2, <1>0
      <3> HIDE DEF l
      <3>4. l \in 0..n /\ \A k \in l + 1 .. n : saved[k].name # m
        BY <3>3, <1>0
      <3>5. h[n].val[m] = h[l].val[m]  BY <3>4, <1>6
      <3>6. h[l].val[m] = saved[l].val  BY <3>3, <1>5
      <3>7. Declared(saved, m)  BY <3>3, <1>0 DEF Declared
      <3>8. FirstDeclared(saved, m) = saved[l]  BY DEF FirstDeclared, l
      <3> QED BY <3>5, <3>6, <3>7, <3>8
    <2> QED BY <2>1, <2>2
  <1> QED BY <1>0, <1>2, <1>4, <1>7

(* The end of a command gives each variable that it assigned once its value*)
(* and its environment back.                                               *)
LEMMA EndCommandUndoes ==
  ASSUME NEW s, Typed(s), NEW saved \in Seq(Entry)
  PROVE  /\ Typed(FoldLeft(Unbind, s, saved))
         /\ \A m \in Names : FoldLeft(Unbind, s, saved).exp[m] => s.exp[m]
         /\ (\A i, j \in DOMAIN saved : saved[i].name = saved[j].name => i = j) =>
              \A k \in DOMAIN saved :
                /\ FoldLeft(Unbind, s, saved).val[saved[k].name] = saved[k].val
                /\ FoldLeft(Unbind, s, saved).env[saved[k].name] = saved[k].env
         /\ /\ Follows(s)
            /\ \A k \in DOMAIN saved :
                 s.exp[saved[k].name] /\ saved[k].val # None /\ saved[k].val # Empty =>
                   saved[k].env = saved[k].val
            => Follows(FoldLeft(Unbind, s, saved))
  <1> DEFINE n == Len(saved)
             Honest == /\ Follows(s)
                       /\ \A k \in DOMAIN saved :
                            s.exp[saved[k].name] /\ saved[k].val # None /\ saved[k].val # Empty =>
                              saved[k].env = saved[k].val
  <1>0. n \in Nat /\ DOMAIN saved = 1..n /\ 0 \in 0..n /\ n \in 0..n  OBVIOUS
  <1>1. s \in Store  BY DEF Typed
  <1>2. PICK h \in [0..n -> Store] :
          /\ h[0] = s /\ FoldLeft(Unbind, s, saved) = h[n]
          /\ \A k \in 1..n : h[k] = Unbind(h[k-1], saved[k])
    BY <1>1, UnbindSteps
  <1>3. ASSUME NEW k \in 1..n
        PROVE  saved[k] \in Entry /\ saved[k].name \in Names /\ k-1 \in 0..n
    <2>1. saved[k] \in Entry  BY <1>0
    <2> QED BY <2>1, <1>0 DEF Entry
  <1> HIDE DEF n
  <1>4. \A k \in 0..n : /\ Typed(h[k])
                        /\ \A m \in Names : h[k].exp[m] => s.exp[m]
                        /\ Honest => Follows(h[k])
    <2> DEFINE Good == {k \in 0..n : /\ Typed(h[k])
                                     /\ \A m \in Names : h[k].exp[m] => s.exp[m]
                                     /\ Honest => Follows(h[k])}
    <2>1. 0 \in Good  BY <1>0, <1>2
    <2>2. ASSUME NEW k \in 0 + 1 .. n, k - 1 \in Good PROVE k \in Good
      <3>1. k \in 1..n /\ k \in 0..n  BY <1>0
      <3>2. Typed(h[k-1]) /\ \A m \in Names : h[k-1].exp[m] => s.exp[m]  BY <2>2
      <3>3. h[k] = Unbind(h[k-1], saved[k])  BY <3>1, <1>2
      <3>4. /\ Typed(h[k])
            /\ \A m \in Names : h[k].exp[m] => h[k-1].exp[m]
            /\ Follows(h[k-1]) /\ (h[k-1].exp[saved[k].name] /\ saved[k].val # None /\ saved[k].val # Empty
                                    => saved[k].env = saved[k].val) => Follows(h[k])
        <4> DEFINE p == h[k-1]
                   b == saved[k]
        <4>1. Typed(p) /\ b \in Entry /\ h[k] = Unbind(p, b)  BY <3>1, <3>2, <3>3, <1>3
        <4> SUFFICES /\ Typed(h[k])
                     /\ \A m \in Names : h[k].exp[m] => p.exp[m]
                     /\ Follows(p) /\ (p.exp[b.name] /\ b.val # None /\ b.val # Empty => b.env = b.val)
                          => Follows(h[k])
          OBVIOUS
        <4> HIDE DEF p, b
        <4> QED BY <4>1, UnbindTyped
      <3>5. Honest => Follows(h[k])
        <4>1. Honest => Follows(h[k-1])  BY <2>2
        <4>2. k \in DOMAIN saved /\ saved[k].name \in Names  BY <3>1, <1>0, <1>3
        <4> QED BY <3>2, <3>4, <4>1, <4>2
      <3> HIDE DEF Honest
      <3> QED BY <3>1, <3>2, <3>4, <3>5
    <2>3. 0..n \subseteq Good
      <3> HIDE DEF Good
      <3> QED BY <1>0, <2>1, <2>2, Upwards
    <2> QED BY <2>3
  <1>5. ASSUME NEW k \in 1..n
        PROVE  /\ h[k].val[saved[k].name] = saved[k].val /\ h[k].env[saved[k].name] = saved[k].env
               /\ \A m \in Names \ {saved[k].name} : h[k].val[m] = h[k-1].val[m] /\ h[k].env[m] = h[k-1].env[m]
    <2> DEFINE p == h[k-1]
               b == saved[k]
    <2>1. Typed(p) /\ b \in Entry /\ h[k] = Unbind(p, b)  BY <1>2, <1>3, <1>4
    <2> SUFFICES /\ h[k].val[b.name] = b.val /\ h[k].env[b.name] = b.env
                 /\ \A m \in Names \ {b.name} : h[k].val[m] = p.val[m] /\ h[k].env[m] = p.env[m]
      OBVIOUS
    <2> HIDE DEF Honest, p, b
    <2> QED BY <2>1, UnbindTyped
  <1>6. ASSUME \A i, j \in DOMAIN saved : saved[i].name = saved[j].name => i = j,
               NEW a \in DOMAIN saved
        PROVE  h[n].val[saved[a].name] = saved[a].val /\ h[n].env[saved[a].name] = saved[a].env
    <2> DEFINE m == saved[a].name
               Good == {k \in 0..n : h[k].val[m] = saved[a].val /\ h[k].env[m] = saved[a].env}
    <2>0. a \in 1..n /\ a \in 0..n /\ m \in Names  BY <1>0, <1>3
    <2>1. a \in Good  BY <2>0, <1>5
    <2>2. ASSUME NEW k \in a + 1 .. n, k - 1 \in Good PROVE k \in Good
      <3>1. k \in 1..n /\ k \in 0..n /\ k # a  BY <2>0, <1>0
      <3>2. saved[k].name # m  BY <3>1, <2>0, <1>0, <1>6
      <3> HIDE DEF m
      <3> QED BY <3>1, <3>2, <2>0, <2>2, <1>5
    <2>3. a..n \subseteq Good
      <3> HIDE DEF Good, m
      <3> QED BY <1>0, <2>0, <2>1, <2>2, Upwards
    <2>4. n \in a..n  BY <2>0, <1>0
    <2> QED BY <2>3, <2>4
  <1>7. Honest => Follows(h[n])  BY <1>0, <1>4
  <1>8. Typed(h[n]) /\ \A m \in Names : h[n].exp[m] => s.exp[m]  BY <1>0, <1>4
  <1> HIDE DEF n
  <1> QED BY <1>2, <1>6, <1>7, <1>8

(* What the assignments b before a command make of the store s.            *)
Bound(s, b, bound) ==
  /\ Typed(bound.store) /\ bound.saved \in Seq(Entry)
  /\ Len(bound.saved) = Len(b)
  /\ \A k \in 1..Len(b) : bound.saved[k].name = b[k].name
  /\ \A m \in Names : bound.store.exp[m] => s.exp[m]
  /\ Follows(s) =>
       /\ Follows(bound.store)
       /\ \A k \in 1..Len(b) :
            bound.store.exp[bound.saved[k].name] /\ bound.saved[k].val # Empty =>
              bound.saved[k].env = bound.saved[k].val

(* What a command saves is what it found, and it names what it assigned.   *)
LEMMA BeginCommandBinds ==
  ASSUME NEW s, Typed(s), NEW b \in Bindings, Apart
  PROVE  Bound(s, b, FoldLeft(Bind, [store |-> s, saved |-> <<>>], b))
  <1> DEFINE n == Len(b)
             Done(k, acc) ==
               /\ acc \in Acc /\ Typed(acc.store)
               /\ Len(acc.saved) = k
               /\ \A j \in 1..k : acc.saved[j].name = b[j].name
               /\ \A m \in Names : acc.store.exp[m] => s.exp[m]
               /\ Follows(s) =>
                    /\ Follows(acc.store)
                    /\ \A j \in 1..k :
                         acc.store.exp[acc.saved[j].name] /\ acc.saved[j].val # Empty =>
                           acc.saved[j].env = acc.saved[j].val
  <1>0. n \in Nat /\ 0 \in 0..n /\ n \in 0..n  BY DEF Bindings
  <1>1. s \in Store  BY DEF Typed
  <1>2. PICK h \in [0..n -> Acc] :
          /\ h[0] = [store |-> s, saved |-> <<>>]
          /\ FoldLeft(Bind, [store |-> s, saved |-> <<>>], b) = h[n]
          /\ \A k \in 1..n : h[k] = Bind(h[k-1], b[k])
    BY <1>1, BindSteps
  <1>3. ASSUME NEW k \in 1..n
        PROVE  b[k].name \in Names /\ b[k].val \in Values
    BY DEF Bindings
  <1> HIDE DEF n
  <1>4. ASSUME NEW k \in 1..n, NEW acc, Done(k-1, acc) PROVE Done(k, Bind(acc, b[k]))
    <2> DEFINE nm == b[k].name
               v == b[k].val
               p == Put(acc.store, nm, v)
               q == [p EXCEPT !.env[nm] = v]
               e == [name |-> nm, val |-> acc.store.val[nm], env |-> acc.store.env[nm]]
               t == Append(acc.saved, e)
    <2>1. nm \in Names /\ v \in Value /\ v # None  BY <1>3 DEF Apart, Value
    <2>2. acc.store \in Store /\ acc.saved \in Seq(Entry) /\ Typed(acc.store) /\ Len(acc.saved) = k-1
      BY <1>4 DEF Acc
    <2>3. /\ Typed(p)
          /\ \A m \in Names : p.exp[m] => acc.store.exp[m]
          /\ \A m \in Names : p.val[m] = IF m = nm THEN v ELSE acc.store.val[m]
          /\ Follows(acc.store) => Follows(p)
      <3> HIDE DEF nm, v
      <3> QED BY <2>1, <2>2, PutTyped
    <2>4. e \in Entry
      <3> HIDE DEF nm, v
      <3> QED BY <2>1, <2>2 DEF Entry, Store, Value
    <2>5. Bind(acc, b[k]) = [store |-> q, saved |-> t]  BY DEF Bind
    <2>6. /\ Typed(q) /\ (Follows(acc.store) => Follows(q))
          /\ \A m \in Names : q.exp[m] => acc.store.exp[m]
      <3> HIDE DEF nm, v, p
      <3> QED BY <2>1, <2>3 DEF Typed, Store, Follows, Value
    <2>7. t \in Seq(Entry) /\ Len(t) = k /\ t[k] = e /\ \A j \in 1..k-1 : t[j] = acc.saved[j]
      <3> HIDE DEF e
      <3> QED BY <2>2, <2>4, <1>0
    <2>8. [store |-> q, saved |-> t] \in Acc
      <3> HIDE DEF q, t
      <3> QED BY <2>6, <2>7 DEF Acc, Typed
    <2>9. ASSUME NEW j \in 1..k
          PROVE  /\ t[j].name = b[j].name
                 /\ Follows(s) => (q.exp[t[j].name] /\ t[j].val # Empty => t[j].env = t[j].val)
      <3>1. CASE j = k
        <4>1. t[j].name = nm /\ t[j].val = acc.store.val[nm] /\ t[j].env = acc.store.env[nm]
          BY <3>1, <2>7
        <4>2. Follows(s) => Follows(acc.store)  BY <1>4
        <4> HIDE DEF q, t, p, e
        <4> QED BY <3>1, <4>1, <4>2, <2>1, <2>6 DEF Follows
      <3>2. CASE j # k
        <4>1. j \in 1..k-1 /\ t[j] = acc.saved[j]  BY <3>2, <2>7, <1>0
        <4>2. acc.saved[j].name = b[j].name /\ b[j].name \in Names  BY <4>1, <1>4, <1>3, <1>0
        <4>3. Follows(s) => (acc.store.exp[acc.saved[j].name] /\ acc.saved[j].val # Empty =>
                               acc.saved[j].env = acc.saved[j].val)
          BY <4>1, <1>4
        <4> HIDE DEF q, t
        <4> QED BY <4>1, <4>2, <4>3, <2>6
      <3> QED BY <3>1, <3>2
    <2>10. (\A m \in Names : acc.store.exp[m] => s.exp[m]) /\ (Follows(s) => Follows(acc.store))
      BY <1>4
    <2>11. Done(k, [store |-> q, saved |-> t])
      <3> HIDE DEF q, t
      <3> QED BY <2>6, <2>7, <2>8, <2>9, <2>10
    <2> HIDE DEF Done, q, t
    <2> QED BY <2>5, <2>11
  <1>5. Done(n, h[n])
    <2> DEFINE Good == {k \in 0..n : Done(k, h[k])}
    <2>1. 0 \in Good
      <3>1. h[0] \in Acc  BY <1>0, <1>2
      <3>2. h[0].store = s /\ Len(h[0].saved) = 0  BY <1>2
      <3> QED BY <3>1, <3>2, <1>0
    <2>2. ASSUME NEW k \in 0 + 1 .. n, k - 1 \in Good PROVE k \in Good
      <3> HIDE DEF Done
      <3>1. k \in 1..n /\ k \in 0..n  BY <1>0
      <3>2. Done(k-1, h[k-1])  BY <2>2
      <3> QED BY <3>1, <3>2, <1>2, <1>4
    <2>3. 0..n \subseteq Good
      <3> HIDE DEF Good
      <3> QED BY <1>0, <2>1, <2>2, Upwards
    <2> HIDE DEF Done
    <2> QED BY <2>3, <1>0
  <1> QED BY <1>2, <1>5 DEF Acc, n, Bound

-----------------------------------------------------------------------------
(* The inductive invariant.                                                *)

Kinds == {"prefix", "call", "subshell"}
FrameSet == [kind: Kinds, saved: Seq(Entry), val: [Names -> Value] \cup {<<>>}, pos: Seq(STRING),
             dir: Dirs, ran: BOOLEAN]

(* The frames of a command with assignments name each variable once, unless *)
(* the program assigns one twice.                                          *)
FrameOK(f) ==
  /\ f \in FrameSet
  /\ f.kind = "subshell" => f.val \in [Names -> Value]
  /\ f.kind = "prefix" /\ "twice" \notin Uses =>
       \A i, j \in DOMAIN f.saved : f.saved[i].name = f.saved[j].name => i = j

(* Every frame has saved what it will restore.                             *)
IInv ==
  /\ Typed(store) /\ dir \in Dirs /\ cwd \in Dirs /\ exiting \in BOOLEAN
  /\ pos \in Seq(STRING)
  /\ frames \in Seq(FrameSet)
  /\ \A i \in DOMAIN frames : FrameOK(frames[i])

(* No value is the absence of one, and parameters are words.               *)
ScopeConstants == Apart /\ Params \subseteq Seq(STRING)

LEMMA TypeFromInv ==
  ASSUME IInv PROVE TypeOK
  BY DEF IInv, TypeOK, Typed

LEMMA InitInv ==
  ASSUME ScopeConstants, Init PROVE IInv
  <1>1. PICK inherited \in SUBSET (Names \ {"PWD"}), v \in Values :
          store = [val |-> [n \in Names |-> IF n = "PWD" THEN cwd
                                            ELSE IF n \in inherited THEN v ELSE None],
                  env |-> [n \in Names |-> IF n = "PWD" THEN cwd
                                           ELSE IF n \in inherited THEN v ELSE None],
                  exp |-> [n \in Names |-> n = "PWD"]]
    BY DEF Init
  <1>2. cwd \in Dirs /\ dir \in Dirs  BY DEF Init
  <1>3. Typed(store)
    BY <1>1, <1>2 DEF Typed, Store, ScopeConstants, Apart
  <1>4. frames = <<>> /\ pos \in Seq(STRING) /\ exiting = FALSE  BY DEF Init, ScopeConstants
  <1>5. frames \in Seq(FrameSet) /\ DOMAIN frames = {}  BY <1>4
  <1>6. \A i \in DOMAIN frames : FrameOK(frames[i])  BY <1>5
  <1> QED BY <1>2, <1>3, <1>4, <1>5, <1>6 DEF IInv

(* Marking a command as run, and what a pop leaves.                        *)
LEMMA RanOK ==
  ASSUME frames \in Seq(FrameSet), \A i \in DOMAIN frames : FrameOK(frames[i])
  PROVE  /\ Ran \in Seq(FrameSet) /\ Len(Ran) = Len(frames) /\ DOMAIN Ran = DOMAIN frames
         /\ \A i \in DOMAIN frames : /\ FrameOK(Ran[i])
                                     /\ Ran[i].kind = frames[i].kind /\ Ran[i].saved = frames[i].saved
  <1>1. CASE In("prefix")
    <2>1. Len(frames) \in DOMAIN frames /\ Ran = [frames EXCEPT ![Len(frames)].ran = TRUE]
      BY <1>1 DEF Ran, In
    <2>2. ASSUME NEW f, FrameOK(f)
          PROVE  /\ FrameOK([f EXCEPT !.ran = TRUE])
                 /\ [f EXCEPT !.ran = TRUE].kind = f.kind /\ [f EXCEPT !.ran = TRUE].saved = f.saved
      BY <2>2 DEF FrameOK, FrameSet
    <2>3. ASSUME NEW i \in DOMAIN frames
          PROVE  /\ FrameOK(Ran[i])
                 /\ Ran[i].kind = frames[i].kind /\ Ran[i].saved = frames[i].saved
      <3> DEFINE f == frames[i]
      <3>1. Ran[i] = IF i = Len(frames) THEN [f EXCEPT !.ran = TRUE] ELSE f  BY <2>1
      <3>2. FrameOK(f)  OBVIOUS
      <3> HIDE DEF f
      <3>3. FrameOK(Ran[i]) /\ Ran[i].kind = f.kind /\ Ran[i].saved = f.saved  BY <3>1, <3>2, <2>2
      <3> QED BY <3>3 DEF f
    <2>4. DOMAIN Ran = DOMAIN frames  BY <2>1
    <2>5. Ran \in Seq(FrameSet)
      <3>1. \A i \in 1..Len(frames) : Ran[i] \in FrameSet  BY <2>3 DEF FrameOK
      <3> DEFINE r == [frames[Len(frames)] EXCEPT !.ran = TRUE]
      <3>2. Ran = [frames EXCEPT ![Len(frames)] = r]  BY <2>1
      <3>3. r \in FrameSet
        <4> DEFINE f == frames[Len(frames)]
        <4>1. FrameOK(f) /\ r = [f EXCEPT !.ran = TRUE]  BY <2>1
        <4> HIDE DEF f, r
        <4>2. FrameOK(r)  BY <4>1, <2>2
        <4> QED BY <4>2 DEF FrameOK
      <3>4. frames \in [1..Len(frames) -> FrameSet]  OBVIOUS
      <3>5. Ran \in [1..Len(frames) -> FrameSet]
        <4> HIDE DEF r
        <4> QED BY <3>2, <3>3, <3>4
      <3> QED BY <3>5
    <2>6. Len(Ran) = Len(frames)  BY <2>4, <2>5
    <2> QED BY <2>3, <2>4, <2>5, <2>6
  <1>2. CASE ~In("prefix")  BY <1>2 DEF Ran
  <1> QED BY <1>1, <1>2

LEMMA PopOK ==
  ASSUME frames \in Seq(FrameSet), \A i \in DOMAIN frames : FrameOK(frames[i]), frames # <<>>
  PROVE  /\ Front(frames) \in Seq(FrameSet) /\ Len(Front(frames)) = Len(frames) - 1
         /\ \A i \in DOMAIN Front(frames) : /\ i \in DOMAIN frames /\ Front(frames)[i] = frames[i]
                                            /\ FrameOK(Front(frames)[i])
         /\ Len(frames) \in DOMAIN frames /\ FrameOK(Top)
  <1>1. Len(frames) \in Nat \ {0} /\ DOMAIN frames = 1..Len(frames)  OBVIOUS
  <1>2. Front(frames) = SubSeq(frames, 1, Len(frames) - 1)  BY DEF Front
  <1>3. /\ Front(frames) \in Seq(FrameSet) /\ Len(Front(frames)) = Len(frames) - 1
        /\ \A i \in 1..Len(frames) - 1 : Front(frames)[i] = frames[i]
    BY <1>1, <1>2
  <1>4. DOMAIN Front(frames) = 1..Len(frames) - 1  BY <1>3
  <1>5. Len(frames) \in DOMAIN frames /\ FrameOK(Top)  BY <1>1 DEF Top
  <1> QED BY <1>1, <1>3, <1>4, <1>5

LEMMA PushOK ==
  ASSUME NEW fs \in Seq(FrameSet), \A i \in DOMAIN fs : FrameOK(fs[i]), NEW f, FrameOK(f)
  PROVE  /\ Append(fs, f) \in Seq(FrameSet) /\ Len(Append(fs, f)) = Len(fs) + 1
         /\ \A i \in DOMAIN Append(fs, f) : /\ FrameOK(Append(fs, f)[i])
                                            /\ \/ i \in DOMAIN fs /\ Append(fs, f)[i] = fs[i]
                                               \/ Append(fs, f)[i] = f
  <1>1. f \in FrameSet  BY DEF FrameOK
  <1> QED BY <1>1

(* What the environment's invariant adds: the values a command hides were  *)
(* in the environment when they were exported, and still are if so.        *)
Honest(f, s) ==
  f.kind = "prefix" =>
    \A k \in DOMAIN f.saved :
      s.exp[f.saved[k].name] /\ f.saved[k].val # None /\ f.saved[k].val # Empty =>
        f.saved[k].env = f.saved[k].val
EInv ==
  /\ Follows(store) /\ cwd = dir
  /\ \A i \in DOMAIN frames : frames[i].kind # "subshell" /\ Honest(frames[i], store)

(* The constructs whose effects reach the environment of others.           *)
Confined == Uses \cap {"subshell", "export under prefix"} = {}

LEMMA HonestKept ==
  ASSUME NEW f, FrameOK(f), NEW g, g.kind = f.kind, g.saved = f.saved, NEW s, Honest(f, s),
         NEW t, \A m \in Names : t.exp[m] => s.exp[m]
  PROVE  Honest(g, t)
  <1>1. ASSUME NEW k \in DOMAIN f.saved PROVE f.saved[k].name \in Names
    <2>1. f.saved \in Seq(Entry)  BY DEF FrameOK, FrameSet
    <2>2. f.saved[k] \in Entry  BY <2>1
    <2> QED BY <2>2 DEF Entry
  <1> QED BY <1>1 DEF Honest

(* The frames of a step that stays, pops or pushes keep both invariants.   *)
LEMMA StayOK ==
  ASSUME IInv, frames' = Ran \/ frames' = frames
  PROVE  /\ frames' \in Seq(FrameSet) /\ Len(frames') = Len(frames) /\ DOMAIN frames' = DOMAIN frames
         /\ \A i \in DOMAIN frames : /\ FrameOK(frames'[i])
                                     /\ frames'[i].kind = frames[i].kind /\ frames'[i].saved = frames[i].saved
  <1>1. CASE frames' = Ran  BY <1>1, RanOK DEF IInv
  <1>2. CASE frames' = frames  BY <1>2 DEF IInv
  <1> QED BY <1>1, <1>2

LEMMA StayInv ==
  ASSUME IInv, frames' = Ran \/ frames' = frames, Typed(store'), dir' \in Dirs, cwd' \in Dirs,
         exiting' \in BOOLEAN, pos' \in Seq(STRING)
  PROVE  IInv' /\ Len(frames') = Len(frames)
  BY StayOK DEF IInv

LEMMA StayEInv ==
  ASSUME IInv, EInv, frames' = Ran \/ frames' = frames, Follows(store'), cwd' = dir',
         \A m \in Names : store'.exp[m] => store.exp[m]
  PROVE  EInv'
  <1>1. ASSUME NEW i \in DOMAIN frames
        PROVE  frames'[i].kind # "subshell" /\ Honest(frames'[i], store')
    <2>1. FrameOK(frames[i]) /\ Honest(frames[i], store) /\ frames[i].kind # "subshell"
      BY DEF IInv, EInv
    <2>2. frames'[i].kind = frames[i].kind /\ frames'[i].saved = frames[i].saved  BY StayOK
    <2>3. Honest(frames'[i], store')  BY <2>1, <2>2, HonestKept
    <2> QED BY <2>1, <2>2, <2>3
  <1>2. DOMAIN frames' = DOMAIN frames  BY StayOK
  <1> QED BY <1>1, <1>2 DEF EInv

LEMMA PopInv ==
  ASSUME IInv, frames # <<>>, Pop, Typed(store'), dir' \in Dirs, cwd' \in Dirs,
         exiting' \in BOOLEAN, pos' \in Seq(STRING)
  PROVE  IInv'
  <1>1. frames' = Front(frames)  BY DEF Pop
  <1> QED BY <1>1, PopOK DEF IInv

LEMMA PopEInv ==
  ASSUME IInv, EInv, frames # <<>>, Pop, Follows(store'), cwd' = dir',
         \A m \in Names : store'.exp[m] => store.exp[m]
  PROVE  EInv'
  <1>1. ASSUME NEW i \in DOMAIN frames'
        PROVE  frames'[i].kind # "subshell" /\ Honest(frames'[i], store')
    <2>1. i \in DOMAIN frames /\ frames'[i] = frames[i]  BY PopOK DEF Pop, IInv
    <2>2. FrameOK(frames[i]) /\ Honest(frames[i], store) /\ frames[i].kind # "subshell"
      BY <2>1 DEF IInv, EInv
    <2>3. Honest(frames[i], store')  BY <2>2, HonestKept
    <2> QED BY <2>1, <2>2, <2>3
  <1> QED BY <1>1 DEF EInv

LEMMA PushInv ==
  ASSUME IInv, NEW f, FrameOK(f), frames' = Append(Ran, f) \/ frames' = Append(frames, f),
         Typed(store'), dir' \in Dirs, cwd' \in Dirs, exiting' \in BOOLEAN, pos' \in Seq(STRING)
  PROVE  IInv' /\ Len(frames') = Len(frames) + 1
  <1>1. CASE frames' = Append(Ran, f)
    <2>1. Ran \in Seq(FrameSet) /\ Len(Ran) = Len(frames) /\ \A i \in DOMAIN Ran : FrameOK(Ran[i])
      BY RanOK DEF IInv
    <2> QED BY <1>1, <2>1, PushOK DEF IInv
  <1>2. CASE frames' = Append(frames, f)
    <2>1. frames \in Seq(FrameSet) /\ \A i \in DOMAIN frames : FrameOK(frames[i])
      BY DEF IInv
    <2> QED BY <1>2, <2>1, PushOK DEF IInv
  <1> QED BY <1>1, <1>2

LEMMA PushEInv ==
  ASSUME IInv, EInv, NEW f, FrameOK(f), frames' = Append(Ran, f) \/ frames' = Append(frames, f),
         f.kind # "subshell", Honest(f, store'), Follows(store'), cwd' = dir',
         \A m \in Names : store'.exp[m] => store.exp[m]
  PROVE  EInv'
  <1>1. PICK fs \in {Ran, frames} : frames' = Append(fs, f)  OBVIOUS
  <1>2. /\ fs \in Seq(FrameSet) /\ DOMAIN fs = DOMAIN frames
        /\ \A i \in DOMAIN fs : /\ FrameOK(fs[i])
                                /\ fs[i].kind = frames[i].kind /\ fs[i].saved = frames[i].saved
    BY RanOK DEF IInv
  <1>3. ASSUME NEW i \in DOMAIN frames'
        PROVE  frames'[i].kind # "subshell" /\ Honest(frames'[i], store')
    <2>1. CASE frames'[i] = f  BY <2>1
    <2>2. CASE i \in DOMAIN fs /\ frames'[i] = fs[i]
      <3>1. FrameOK(frames[i]) /\ Honest(frames[i], store) /\ frames[i].kind # "subshell"
        BY <1>2, <2>2 DEF IInv, EInv
      <3>2. fs[i].kind = frames[i].kind /\ fs[i].saved = frames[i].saved  BY <1>2, <2>2
      <3>3. Honest(fs[i], store')  BY <3>1, <3>2, HonestKept
      <3> QED BY <2>2, <3>1, <3>2, <3>3
    <2> QED BY <1>1, <1>2, <2>1, <2>2, PushOK
  <1> QED BY <1>3 DEF EInv

LEMMA FrameIsOK ==
  ASSUME IInv, NEW kind \in Kinds \ {"subshell"}
  PROVE  FrameOK(Frame(kind)) /\ Frame(kind).kind = kind
  BY DEF FrameOK, Frame, FrameSet, IInv, Kinds

-----------------------------------------------------------------------------
(* The steps: what each leaves, and what it gives back.                    *)

(* A step keeps the types, and the environment in step when nothing        *)
(* escapes from a subshell or from under an assignment.                    *)
Keeps == IInv' /\ (EInv /\ Confined => EInv')

LEMMA TypedOfInv ==
  ASSUME IInv
  PROVE  /\ Typed(store) /\ store \in Store /\ dir \in Dirs /\ cwd \in Dirs /\ pos \in Seq(STRING)
         /\ exiting \in BOOLEAN
         /\ dir \in Value /\ cwd \in Value
         /\ EInv => Follows(store) /\ cwd = dir
  BY DEF IInv, EInv, Typed, Value

LEMMA AssignKeeps ==
  ASSUME IInv, ScopeConstants, Assign
  PROVE  Keeps /\ Len(frames') = Len(frames)
  <1>1. PICK n \in Names, v \in Values : store' = Put(store, n, v)  BY DEF Assign
  <1>2. v \in Value /\ v # None  BY DEF Value, ScopeConstants, Apart
  <1>3. /\ Typed(store') /\ (Follows(store) => Follows(store'))
        /\ \A m \in Names : store'.exp[m] => store.exp[m]
    BY <1>1, <1>2, TypedOfInv, PutTyped
  <1>4. dir' = dir /\ cwd' = cwd /\ pos' = pos /\ exiting' = exiting /\ frames' = frames
    BY DEF Assign
  <1> QED BY <1>3, <1>4, TypedOfInv, StayInv, StayEInv DEF Keeps

LEMMA UnsetKeeps ==
  ASSUME IInv, Unset
  PROVE  Keeps /\ Len(frames') = Len(frames)
  <1>1. PICK n \in Names : store' = Del(store, n)  BY DEF Unset
  <1>2. /\ Typed(store') /\ (Follows(store) => Follows(store'))
        /\ \A m \in Names : store'.exp[m] => store.exp[m]
    BY <1>1, TypedOfInv, DelTyped
  <1>3. dir' = dir /\ cwd' = cwd /\ pos' = pos /\ exiting' = exiting /\ frames' = Ran  BY DEF Unset
  <1> QED BY <1>2, <1>3, TypedOfInv, StayInv, StayEInv DEF Keeps

LEMMA RunExportKeeps ==
  ASSUME IInv, ScopeConstants, RunExport
  PROVE  Keeps /\ Len(frames') = Len(frames)
  <1>1. PICK n \in Names, v \in Values \cup {None} :
          /\ Allowed(n, "prefix", "export under prefix")
          /\ store' = Export(IF v = None THEN store ELSE Put(store, n, v), n)
    BY DEF RunExport
  <1> DEFINE s == IF v = None THEN store ELSE Put(store, n, v)
  <1>2. /\ Typed(s) /\ (Follows(store) => Follows(s))
        /\ \A m \in Names : s.exp[m] => store.exp[m]
    <2>1. v # None => v \in Value  BY DEF Value
    <2> QED BY <2>1, TypedOfInv, PutTyped
  <1>3. /\ Typed(store') /\ (Follows(store) => Follows(store'))
        /\ \A m \in Names : store'.exp[m] => m = n \/ store.exp[m]
    <2>1. store' = Export(s, n)  BY <1>1
    <2> HIDE DEF s
    <2> QED BY <2>1, <1>2, ExportTyped
  <1>4. dir' = dir /\ cwd' = cwd /\ pos' = pos /\ exiting' = exiting /\ frames' = Ran
    BY DEF RunExport
  <1>5. IInv' /\ Len(frames') = Len(frames)  BY <1>3, <1>4, TypedOfInv, StayInv
  <1>6. ASSUME EInv, Confined PROVE EInv'
    <2>1. ~Inside("prefix", n)  BY <1>1, <1>6 DEF Allowed, Confined
    <2>2. ASSUME NEW i \in DOMAIN frames
          PROVE  frames'[i].kind # "subshell" /\ Honest(frames'[i], store')
      <3>1. FrameOK(frames[i]) /\ Honest(frames[i], store) /\ frames[i].kind # "subshell"
        BY <1>6 DEF IInv, EInv
      <3>2. frames'[i].kind = frames[i].kind /\ frames'[i].saved = frames[i].saved  BY <1>4, StayOK
      <3>3. ASSUME frames[i].kind = "prefix", NEW k \in DOMAIN frames[i].saved
            PROVE  frames[i].saved[k].name \in Names /\ frames[i].saved[k].name # n
        <4>1. frames[i].saved[k].name # n  BY <2>1, <3>3 DEF Inside
        <4>2. frames[i].saved \in Seq(Entry)  BY <3>1 DEF FrameOK, FrameSet
        <4>3. frames[i].saved[k] \in Entry  BY <4>2
        <4> QED BY <4>1, <4>3 DEF Entry
      <3>4. Honest(frames'[i], store')  BY <3>1, <3>2, <3>3, <1>3 DEF Honest
      <3> QED BY <3>1, <3>2, <3>4
    <2>3. DOMAIN frames' = DOMAIN frames  BY <1>4, StayOK
    <2> QED BY <1>3, <1>4, <1>6, <2>2, <2>3, TypedOfInv DEF EInv
  <1> QED BY <1>5, <1>6 DEF Keeps

(* The call a local belongs to is one of the frames.                       *)
LEMMA InnermostIsCall ==
  ASSUME IInv, Calls # {}
  PROVE  Innermost \in DOMAIN frames /\ frames[Innermost].kind = "call"
  <1>1. Calls \subseteq 0..Len(frames) /\ Len(frames) \in Nat  BY DEF Calls, IInv
  <1>2. \E i \in Calls : \A j \in Calls : i >= j  BY <1>1, GreatestNumber
  <1>3. \E i \in Calls : \A j \in Calls : j <= i  BY <1>1, <1>2
  <1>4. Innermost \in Calls  BY <1>3 DEF Innermost
  <1> QED BY <1>4 DEF Calls

LEMMA LocalKeeps ==
  ASSUME IInv, ScopeConstants, Local
  PROVE  Keeps /\ Len(frames') = Len(frames)
  <1>0. dir' = dir /\ cwd' = cwd /\ pos' = pos /\ exiting' = exiting  BY DEF Local
  <1>1. CASE Calls = {}
    <2>1. frames' = Ran /\ store' = store  BY <1>1 DEF Local
    <2> QED BY <1>0, <2>1, TypedOfInv, StayInv, StayEInv DEF Keeps
  <1>2. CASE Calls # {}
    <2>1. PICK n \in Names, v \in Values \cup {None} :
            /\ frames' = [Ran EXCEPT ![Innermost].saved =
                            <<[name |-> n, val |-> store.val[n], env |-> None]>> \o @]
            /\ store' = IF v = None THEN store ELSE Put(store, n, v)
      BY <1>2 DEF Local
    <2>2. /\ Typed(store') /\ (Follows(store) => Follows(store'))
          /\ \A m \in Names : store'.exp[m] => store.exp[m]
      <3>1. v # None => v \in Value  BY DEF Value
      <3> QED BY <2>1, <3>1, TypedOfInv, PutTyped
    <2> DEFINE e == [name |-> n, val |-> store.val[n], env |-> None]
               l == Innermost
               f == Ran[l]
               g == [f EXCEPT !.saved = <<e>> \o @]
    <2>3. e \in Entry  BY TypedOfInv DEF Store, Entry, Value
    <2>4. l \in DOMAIN frames /\ frames[l].kind = "call"  BY <1>2, InnermostIsCall
    <2>5. /\ Ran \in Seq(FrameSet) /\ Len(Ran) = Len(frames) /\ DOMAIN Ran = DOMAIN frames
          /\ \A i \in DOMAIN frames : /\ FrameOK(Ran[i])
                                      /\ Ran[i].kind = frames[i].kind /\ Ran[i].saved = frames[i].saved
      BY RanOK DEF IInv
    <2>6. FrameOK(f) /\ f.kind = "call"  BY <2>4, <2>5
    <2>7. FrameOK(g) /\ g.kind = "call"
      <3> HIDE DEF e, f
      <3>1. f \in FrameSet /\ f.saved \in Seq(Entry)  BY <2>6 DEF FrameOK, FrameSet
      <3>2. <<e>> \o f.saved \in Seq(Entry)  BY <2>3, <3>1
      <3>3. g \in FrameSet /\ g.kind = "call"  BY <3>1, <3>2, <2>6 DEF FrameSet
      <3> HIDE DEF g
      <3> QED BY <3>3 DEF FrameOK
    <2>8. frames' = [Ran EXCEPT ![l] = g]  BY <2>1
    <2> HIDE DEF e, f, g, l
    <2>9. /\ frames' \in Seq(FrameSet) /\ Len(frames') = Len(frames) /\ DOMAIN frames' = DOMAIN frames
          /\ \A i \in DOMAIN frames : frames'[i] = IF i = l THEN g ELSE Ran[i]
      <3>1. g \in FrameSet  BY <2>7 DEF FrameOK
      <3>2. Ran \in [1..Len(frames) -> FrameSet] /\ Len(frames) \in Nat /\ DOMAIN frames = 1..Len(frames)
        BY <2>5 DEF IInv
      <3>3. frames' \in [1..Len(frames) -> FrameSet]  BY <2>8, <3>1, <3>2
      <3>4. frames' \in Seq(FrameSet) /\ Len(frames') = Len(frames)  BY <3>2, <3>3
      <3> QED BY <2>8, <3>2, <3>3, <3>4
    <2>10. \A i \in DOMAIN frames' : FrameOK(frames'[i])  BY <2>5, <2>7, <2>9
    <2>11. IInv'  BY <1>0, <2>2, <2>9, <2>10, TypedOfInv DEF IInv
    <2>12. ASSUME EInv PROVE EInv'
      <3>1. ASSUME NEW i \in DOMAIN frames'
            PROVE  frames'[i].kind # "subshell" /\ Honest(frames'[i], store')
        <4>1. CASE i = l
          <5>1. frames'[i].kind = "call"  BY <4>1, <2>4, <2>7, <2>9
          <5> QED BY <5>1 DEF Honest
        <4>2. CASE i # l
          <5>1. i \in DOMAIN frames /\ frames'[i] = Ran[i]  BY <4>2, <2>9
          <5>2. FrameOK(frames[i]) /\ Honest(frames[i], store) /\ frames[i].kind # "subshell"
            BY <5>1, <2>12 DEF IInv, EInv
          <5>3. frames'[i].kind = frames[i].kind /\ frames'[i].saved = frames[i].saved
            BY <5>1, <2>5
          <5>4. Honest(frames'[i], store')  BY <5>2, <5>3, <2>2, HonestKept
          <5> QED BY <5>2, <5>3, <5>4
        <4> QED BY <4>1, <4>2
      <3> QED BY <3>1, <1>0, <2>2, <2>12, TypedOfInv DEF EInv
    <2> QED BY <2>9, <2>11, <2>12 DEF Keeps
  <1> QED BY <1>1, <1>2

LEMMA SetKeeps ==
  ASSUME IInv, ScopeConstants, Set
  PROVE  Keeps /\ Len(frames') = Len(frames)
  <1>1. pos' \in Seq(STRING)  BY DEF Set, ScopeConstants
  <1>2. store' = store /\ dir' = dir /\ cwd' = cwd /\ exiting' = exiting /\ frames' = Ran
    BY DEF Set
  <1> QED BY <1>1, <1>2, TypedOfInv, StayInv, StayEInv DEF Keeps

LEMMA ShiftKeeps ==
  ASSUME IInv, Shift
  PROVE  Keeps /\ Len(frames') = Len(frames)
  <1>1. pos' \in Seq(STRING)
    <2>1. PICK n \in 0..2 : pos' = IF n > Len(pos) THEN pos ELSE SubSeq(pos, n + 1, Len(pos))
      BY DEF Shift
    <2>2. pos \in Seq(STRING)  BY TypedOfInv
    <2>3. CASE n > Len(pos)  BY <2>1, <2>2, <2>3
    <2>4. CASE ~(n > Len(pos))
      <3>1. pos' = SubSeq(pos, n + 1, Len(pos))  BY <2>1, <2>4
      <3>2. n + 1 \in 1..Len(pos) + 1  BY <2>2, <2>4
      <3> QED BY <2>2, <3>1, <3>2
    <2> QED BY <2>3, <2>4
  <1>2. store' = store /\ dir' = dir /\ cwd' = cwd /\ exiting' = exiting /\ frames' = Ran
    BY DEF Shift
  <1> QED BY <1>1, <1>2, TypedOfInv, StayInv, StayEInv DEF Keeps

(* cd sets PWD and OLDPWD to directories.                                  *)
LEMMA FollowTyped ==
  ASSUME NEW s, Typed(s), NEW n, NEW d \in Dirs, ScopeConstants
  PROVE  /\ Typed(Follow(s, n, d)) /\ (Follows(s) => Follows(Follow(s, n, d)))
         /\ \A m \in Names : Follow(s, n, d).exp[m] => s.exp[m]
  <1>1. d \in Value /\ d # None  BY DEF Value, ScopeConstants, Apart
  <1>2. CASE n \in Names  BY <1>1, <1>2, PutTyped DEF Follow
  <1>3. CASE n \notin Names  BY <1>3 DEF Follow
  <1> QED BY <1>2, <1>3

LEMMA CdKeeps ==
  ASSUME IInv, ScopeConstants, Cd
  PROVE  Keeps /\ Len(frames') = Len(frames)
  <1>1. pos' = pos /\ exiting' = exiting /\ frames' = Ran  BY DEF Cd
  <1>2. \/ store' = store /\ dir' = dir /\ cwd' = cwd
        \/ \E target \in Dirs : /\ dir' = target /\ cwd' = target
                                /\ store' = Follow(Follow(store, "OLDPWD", cwd), "PWD", target)
    BY DEF Cd
  <1>3. CASE store' = store /\ dir' = dir /\ cwd' = cwd
    BY <1>1, <1>3, TypedOfInv, StayInv, StayEInv DEF Keeps
  <1>4. ASSUME NEW target \in Dirs, dir' = target, cwd' = target,
               store' = Follow(Follow(store, "OLDPWD", cwd), "PWD", target)
        PROVE  Keeps /\ Len(frames') = Len(frames)
    <2> DEFINE s == Follow(store, "OLDPWD", cwd)
    <2>1. /\ Typed(s) /\ (Follows(store) => Follows(s))
          /\ \A m \in Names : s.exp[m] => store.exp[m]
      BY TypedOfInv, FollowTyped
    <2>2. store' = Follow(s, "PWD", target)  BY <1>4
    <2> HIDE DEF s
    <2>3. /\ Typed(store') /\ (Follows(s) => Follows(store'))
          /\ \A m \in Names : store'.exp[m] => s.exp[m]
      BY <2>1, <2>2, FollowTyped
    <2>4. IInv' /\ Len(frames') = Len(frames)  BY <1>1, <1>4, <2>3, TypedOfInv, StayInv
    <2>5. EInv => EInv'  BY <1>1, <1>4, <2>1, <2>3, TypedOfInv, StayEInv
    <2> QED BY <2>4, <2>5 DEF Keeps
  <1> QED BY <1>2, <1>3, <1>4

LEMMA BeginCommandKeeps ==
  ASSUME IInv, ScopeConstants, BeginCommand
  PROVE  Keeps /\ Len(frames') = Len(frames) + 1
  <1>1. PICK b \in Bindings :
          LET bound == FoldLeft(Bind, [store |-> store, saved |-> <<>>], b)
          IN store' = bound.store /\ frames' = Append(frames, [Frame("prefix") EXCEPT !.saved = bound.saved])
    BY DEF BeginCommand
  <1> DEFINE bound == FoldLeft(Bind, [store |-> store, saved |-> <<>>], b)
             f == [Frame("prefix") EXCEPT !.saved = bound.saved]
  <1>2. Bound(store, b, bound)
    BY TypedOfInv, BeginCommandBinds DEF ScopeConstants
  <1>3. store' = bound.store /\ frames' = Append(frames, f)  BY <1>1
  <1>4. dir' = dir /\ cwd' = cwd /\ pos' = pos /\ exiting' = exiting  BY DEF BeginCommand
  <1> HIDE DEF bound
  <1>5. f.kind = "prefix" /\ f.saved = bound.saved /\ f \in FrameSet
    BY <1>2, TypedOfInv DEF Frame, FrameSet, Kinds, Bound
  <1>6. DOMAIN f.saved = 1..Len(b)  BY <1>2, <1>5 DEF Bound
  <1> HIDE DEF f
  <1>7. FrameOK(f)
    <2>1. ASSUME "twice" \notin Uses, NEW i \in 1..Len(b), NEW j \in 1..Len(b), b[i].name = b[j].name
          PROVE  i = j
      <3>1. Len(b) \in 1..2 /\ (b[1].name = b[Len(b)].name => Len(b) = 1)  BY <2>1 DEF Bindings
      <3>2. CASE Len(b) = 1  BY <3>2
      <3>3. CASE Len(b) = 2  BY <2>1, <3>1, <3>3
      <3> QED BY <3>1, <3>2, <3>3
    <2> QED BY <1>2, <1>5, <1>6, <2>1 DEF FrameOK, Bound
  <1>8. IInv' /\ Len(frames') = Len(frames) + 1
    BY <1>2, <1>3, <1>4, <1>7, TypedOfInv, PushInv DEF Bound
  <1>9. ASSUME EInv PROVE EInv'
    <2>1. Honest(f, store')  BY <1>2, <1>3, <1>5, <1>6, <1>9, TypedOfInv DEF Honest, Bound
    <2>2. Follows(store') /\ \A m \in Names : store'.exp[m] => store.exp[m]
      BY <1>2, <1>3, <1>9, TypedOfInv DEF Bound
    <2>3. f.kind # "subshell" /\ cwd' = dir'  BY <1>4, <1>5, <1>9, TypedOfInv
    <2> QED BY <1>3, <1>7, <1>9, <2>1, <2>2, <2>3, PushEInv
  <1> QED BY <1>8, <1>9 DEF Keeps

LEMMA BindFatalKeeps ==
  ASSUME IInv, ScopeConstants, BindFatal
  PROVE  Keeps /\ Len(frames') = Len(frames)
  <1>1. PICK b \in Bindings : store' = FoldLeft(Bind, [store |-> store, saved |-> <<>>], b).store
    BY DEF BindFatal
  <1> DEFINE bound == FoldLeft(Bind, [store |-> store, saved |-> <<>>], b)
  <1>2. Bound(store, b, bound)
    BY TypedOfInv, BeginCommandBinds DEF ScopeConstants
  <1>3. store' = bound.store  BY <1>1
  <1>4. dir' = dir /\ cwd' = cwd /\ pos' = pos /\ exiting' \in BOOLEAN /\ frames' = frames
    BY DEF BindFatal
  <1> HIDE DEF bound
  <1> QED BY <1>2, <1>3, <1>4, TypedOfInv, StayInv, StayEInv DEF Keeps, Bound

(* The frame a construct ends with.                                        *)
LEMMA TopOK ==
  ASSUME IInv, frames # <<>>
  PROVE  /\ FrameOK(Top) /\ Top.saved \in Seq(Entry) /\ Top.pos \in Seq(STRING) /\ Top.dir \in Dirs
         /\ EInv => Top.kind # "subshell" /\ Honest(Top, store)
  <1>1. FrameOK(Top) /\ Len(frames) \in DOMAIN frames  BY PopOK DEF IInv
  <1> QED BY <1>1 DEF FrameOK, FrameSet, EInv, Top

LEMMA EndCommandKeeps ==
  ASSUME IInv, EndCommand
  PROVE  Keeps /\ ("twice" \notin Uses => Restores(Top))
  <1>1. /\ frames # <<>> /\ Top.kind = "prefix" /\ Pop /\ store' = FoldLeft(Unbind, store, Top.saved)
        /\ dir' = dir /\ cwd' = cwd /\ pos' = pos /\ exiting' = exiting
    BY DEF EndCommand, In
  <1> DEFINE saved == Top.saved
  <1>2. /\ FrameOK(Top) /\ saved \in Seq(Entry) /\ Typed(store)
        /\ EInv => Honest(Top, store)
    BY <1>1, TopOK, TypedOfInv
  <1>3. /\ Typed(store') /\ \A m \in Names : store'.exp[m] => store.exp[m]
        /\ (\A i, j \in DOMAIN saved : saved[i].name = saved[j].name => i = j) =>
                \A k \in DOMAIN saved :
                  /\ store'.val[saved[k].name] = saved[k].val
                  /\ store'.env[saved[k].name] = saved[k].env
        /\ /\ Follows(store)
           /\ \A k \in DOMAIN saved :
                store.exp[saved[k].name] /\ saved[k].val # None /\ saved[k].val # Empty =>
                  saved[k].env = saved[k].val
           => Follows(store')
    <2>1. store' = FoldLeft(Unbind, store, saved)  BY <1>1
    <2> HIDE DEF saved
    <2> QED BY <1>2, <2>1, EndCommandUndoes
  <1>4. IInv'  BY <1>1, <1>3, TypedOfInv, PopInv
  <1>5. ASSUME EInv PROVE EInv'
    <2>1. Follows(store')  BY <1>1, <1>2, <1>3, <1>5, TypedOfInv DEF Honest
    <2> QED BY <1>1, <1>3, <1>5, <2>1, TypedOfInv, PopEInv
  <1>6. ASSUME "twice" \notin Uses PROVE Restores(Top)
    <2>1. \A i, j \in DOMAIN saved : saved[i].name = saved[j].name => i = j
      BY <1>1, <1>2, <1>6 DEF FrameOK
    <2> QED BY <1>1, <1>3, <2>1 DEF Restores
  <1> QED BY <1>4, <1>5, <1>6 DEF Keeps

LEMMA CallKeeps ==
  ASSUME IInv, ScopeConstants, Call
  PROVE  Keeps /\ Len(frames') = Len(frames) + 1
  <1>1. /\ frames' = Append(Ran, Frame("call")) /\ pos' \in Seq(STRING)
        /\ store' = store /\ dir' = dir /\ cwd' = cwd /\ exiting' = exiting
    BY DEF Call, ScopeConstants
  <1>2. FrameOK(Frame("call")) /\ Frame("call").kind = "call"  BY FrameIsOK DEF Kinds
  <1>3. IInv' /\ Len(frames') = Len(frames) + 1  BY <1>1, <1>2, TypedOfInv, PushInv
  <1>4. EInv => EInv'
    <2>1. Honest(Frame("call"), store')  BY <1>2 DEF Honest
    <2> QED BY <1>1, <1>2, <2>1, TypedOfInv, PushEInv
  <1> QED BY <1>3, <1>4 DEF Keeps

LEMMA EndCallKeeps ==
  ASSUME IInv, EndCall
  PROVE  Keeps /\ Restores(Top)
  <1>1. /\ frames # <<>> /\ Top.kind = "call" /\ Pop /\ store' = PopScope(store, Top.saved)
        /\ pos' = Top.pos /\ dir' = dir /\ cwd' = cwd /\ exiting' = exiting
    BY DEF EndCall, In
  <1>2. FrameOK(Top) /\ Top.saved \in Seq(Entry) /\ Typed(store) /\ pos' \in Seq(STRING)
    BY <1>1, TopOK, TypedOfInv
  <1>3. /\ Typed(store') /\ (Follows(store) => Follows(store'))
        /\ \A m \in Names : store'.exp[m] => store.exp[m]
        /\ \A m \in Names : store'.val[m] =
             IF Declared(Top.saved, m) THEN FirstDeclared(Top.saved, m).val ELSE store.val[m]
    BY <1>1, <1>2, PopScopeUndoes
  <1>4. IInv'  BY <1>1, <1>2, <1>3, TypedOfInv, PopInv
  <1>5. EInv => EInv'  BY <1>1, <1>3, TypedOfInv, PopEInv
  <1>6. Restores(Top)
    <2>1. \A m \in Names : /\ m \in Locals(Top) <=> Declared(Top.saved, m)
                           /\ FirstSaved(Top, m) = FirstDeclared(Top.saved, m)
      BY DEF Locals, Declared, FirstSaved, FirstDeclared
    <2> QED BY <1>1, <1>3, <2>1 DEF Restores
  <1> QED BY <1>4, <1>5, <1>6 DEF Keeps

LEMMA BeginSubshellKeeps ==
  ASSUME IInv, BeginSubshell
  PROVE  Keeps /\ Len(frames') = Len(frames) + 1
  <1> DEFINE f == [Frame("subshell") EXCEPT !.val = store.val]
  <1>1. /\ "subshell" \in Uses /\ frames' = Append(frames, f)
        /\ store' = store /\ pos' = pos /\ dir' = dir /\ cwd' = cwd /\ exiting' = exiting
    BY DEF BeginSubshell, Command
  <1>2. FrameOK(f)
    <2>1. store.val \in [Names -> Value]  BY TypedOfInv DEF Store, Value
    <2>2. f.kind = "subshell" /\ f.val = store.val  BY DEF Frame
    <2>3. f \in FrameSet
      <3> DEFINE g == Frame("subshell")
      <3>1. g \in FrameSet  BY TypedOfInv DEF Frame, FrameSet, Kinds
      <3>2. f = [g EXCEPT !.val = store.val]  OBVIOUS
      <3> HIDE DEF g
      <3> QED BY <2>1, <3>1, <3>2 DEF FrameSet
    <2> HIDE DEF f
    <2> QED BY <2>1, <2>2, <2>3 DEF FrameOK
  <1> HIDE DEF f
  <1>3. IInv' /\ Len(frames') = Len(frames) + 1  BY <1>1, <1>2, TypedOfInv, PushInv
  <1>4. ~Confined  BY <1>1 DEF Confined
  <1> QED BY <1>3, <1>4 DEF Keeps

LEMMA EndSubshellKeeps ==
  ASSUME IInv, EndSubshell
  PROVE  Keeps /\ Restores(Top)
  <1>1. /\ frames # <<>> /\ Top.kind = "subshell" /\ Pop
        /\ pos' = Top.pos /\ dir' = Top.dir /\ cwd' = cwd /\ exiting' = FALSE
    BY DEF EndSubshell, In
  <1>2. PICK e \in [Names -> BOOLEAN] :
          store' = [store EXCEPT !.val = Top.val,
                                 !.exp = [n \in Names |-> Top.val[n] # None /\ e[n]]]
    BY DEF EndSubshell
  <1>3. FrameOK(Top) /\ Top.pos \in Seq(STRING) /\ Top.dir \in Dirs /\ Top.val \in [Names -> Value]
    BY <1>1, TopOK DEF FrameOK
  <1>4. Typed(store') /\ store'.val = Top.val
    BY <1>2, <1>3, TypedOfInv DEF Typed, Store, Value
  <1>5. IInv'  BY <1>1, <1>3, <1>4, TypedOfInv, PopInv
  <1>6. ~EInv  BY <1>1, TopOK
  <1>7. Restores(Top)  BY <1>1, <1>4 DEF Restores
  <1> QED BY <1>5, <1>6, <1>7 DEF Keeps

LEMMA StutterKeeps ==
  ASSUME IInv, UNCHANGED vars
  PROVE  Keeps /\ Len(frames') = Len(frames)
  BY DEF vars, Keeps, IInv, EInv, Typed, Follows, Honest

(* Every step keeps the invariants, and one that ends a frame restores what*)
(* the frame had saved, unless a command assigned one variable twice.      *)
LEMMA StepKeeps ==
  ASSUME IInv, ScopeConstants, [Next]_vars
  PROVE  /\ Keeps
         /\ "twice" \notin Uses => Restored
  <1>0. Len(frames) \in Nat  BY DEF IInv
  <1>1. CASE Assign  BY <1>0, <1>1, AssignKeeps DEF Restored
  <1>2. CASE Unset  BY <1>0, <1>2, UnsetKeeps DEF Restored
  <1>3. CASE RunExport  BY <1>0, <1>3, RunExportKeeps DEF Restored
  <1>4. CASE Local  BY <1>0, <1>4, LocalKeeps DEF Restored
  <1>5. CASE Set  BY <1>0, <1>5, SetKeeps DEF Restored
  <1>6. CASE Shift  BY <1>0, <1>6, ShiftKeeps DEF Restored
  <1>7. CASE Cd  BY <1>0, <1>7, CdKeeps DEF Restored
  <1>8. CASE BeginCommand  BY <1>0, <1>8, BeginCommandKeeps DEF Restored
  <1>9. CASE BindFatal  BY <1>0, <1>9, BindFatalKeeps DEF Restored
  <1>10. CASE EndCommand  BY <1>10, EndCommandKeeps DEF Restored
  <1>11. CASE Call  BY <1>0, <1>11, CallKeeps DEF Restored
  <1>12. CASE EndCall  BY <1>12, EndCallKeeps DEF Restored
  <1>13. CASE BeginSubshell  BY <1>0, <1>13, BeginSubshellKeeps DEF Restored
  <1>14. CASE EndSubshell  BY <1>14, EndSubshellKeeps DEF Restored
  <1>15. CASE UNCHANGED vars  BY <1>0, <1>15, StutterKeeps DEF Restored
  <1> QED
    BY <1>1, <1>2, <1>3, <1>4, <1>5, <1>6, <1>7, <1>8, <1>9, <1>10, <1>11, <1>12, <1>13, <1>14,
       <1>15
       DEF Next

(* Variables, environment, working directory, positional parameters and    *)
(* frames have their types in every state, for any names, values, directories*)
(* and nesting of calls, subshells and commands with assignments.          *)
THEOREM TypeCorrect ==
  ASSUME ScopeConstants PROVE Spec => []TypeOK
  <1>1. Init => IInv  BY InitInv
  <1>2. IInv /\ [Next]_vars => IInv'  BY StepKeeps DEF Keeps
  <1>3. IInv => TypeOK  BY TypeFromInv
  <1> QED BY <1>1, <1>2, <1>3, PTL DEF Spec

(* "VAR=value cmd": the variables a command was given, the ones a function *)
(* declared local, the positional parameters of a call and everything a    *)
(* subshell changed are as before when it ends (sh_exec.c, sh_builtins.c), at*)
(* any depth and in any order, unless one command assigns a variable twice.*)
THEOREM BindingsAreUndone ==
  ASSUME ScopeConstants, "twice" \notin Uses PROVE Spec => BindingsUndone
  <1>1. Init => IInv  BY InitInv
  <1>2. IInv /\ [Next]_vars => IInv'  BY StepKeeps DEF Keeps
  <1>3. IInv /\ [Next]_vars => [Restored]_vars  BY StepKeeps
  <1> QED BY <1>1, <1>2, <1>3, PTL DEF Spec, BindingsUndone

(* A variable that is exported and not empty has its value in the environment*)
(* that commands and getenv see, at every moment, as long as no subshell is*)
(* entered and nothing is exported under an assignment before a command.   *)
THEOREM EnvironmentInStep ==
  ASSUME ScopeConstants, Confined PROVE Spec => []EnvironmentFollows
  <1>1. Init => IInv /\ EInv
    <2> SUFFICES ASSUME Init PROVE EInv  BY InitInv
    <2>1. PICK inherited \in SUBSET (Names \ {"PWD"}), v \in Values :
            store = [val |-> [n \in Names |-> IF n = "PWD" THEN cwd
                                              ELSE IF n \in inherited THEN v ELSE None],
                     env |-> [n \in Names |-> IF n = "PWD" THEN cwd
                                              ELSE IF n \in inherited THEN v ELSE None],
                     exp |-> [n \in Names |-> n = "PWD"]]
      BY DEF Init
    <2>2. Follows(store)  BY <2>1 DEF Follows
    <2>3. DOMAIN frames = {} /\ cwd = dir  BY DEF Init
    <2> QED BY <2>2, <2>3 DEF EInv
  <1>2. IInv /\ EInv /\ [Next]_vars => IInv' /\ EInv'  BY StepKeeps DEF Keeps
  <1>3. EInv => EnvironmentFollows  BY DEF EInv, EnvironmentFollows, Follows
  <1> QED BY <1>1, <1>2, <1>3, PTL DEF Spec

-----------------------------------------------------------------------------
(* Proofs about the standard streams (ShellStreams), for any nesting of    *)
(* pipelines, substitutions, here-documents and commands with redirections.*)
(* The constructs in progress are ShellStreams' frames.                    *)
CONSTANTS Tokens, MaxPipes, MaxSubsts, MaxDocs, MaxRedirs, Inodes
VARIABLES slots, names, content, constructs
Io == INSTANCE ShellStreams WITH frames <- constructs

(* A bound on each construct, and a file system that does not run out of   *)
(* inodes.                                                                 *)
StreamConstants ==
  /\ MaxPipes \in Nat /\ MaxSubsts \in Nat /\ MaxDocs \in Nat
  /\ Io!None \notin Inodes /\ ~IsFiniteSet(Inodes)

Files == Inodes \cup {Io!None}
Streams == [Io!Fds -> [ino: Files, by: Nat]]
FileSystem == [names: [Io!Ids -> Files], content: [Files -> Seq(Tokens)], slots: Streams,
               touched: SUBSET Io!Fds, ok: BOOLEAN]
Items == [op: {"in", "out", "dup", "close"}, fd: Io!Fds, id: Int, by: Nat]
Construct ==
  [kind: {"pipe", "subst", "redir"}, phase: {"next", "run", "build"}, id: Io!Ids,
   stage: Nat, stages: Nat, items: Seq(Items), orig: Streams, touched: SUBSET Io!Fds,
   in: Files, out: Files, read: Seq(Tokens), wrote: Seq(Tokens), docs: Nat]

(* h is the history of the file system and the streams while the items are *)
(* applied one after another.                                              *)
Applied(h, G, s, items, n) ==
  /\ h \in [0..n -> G] /\ h[0] = s
  /\ \A k \in 1..n : h[k] = Io!ApplyItem(h[k-1], items[k])
  /\ Io!FoldLeft(Io!ApplyItem, s, items) = h[n]

LEMMA ApplySteps ==
  ASSUME NEW G, NEW s \in G, NEW items, NEW n \in Nat, items \in [1..n -> Items],
         \A z \in G : \A k \in 1..n : Io!ApplyItem(z, items[k]) \in G
  PROVE  \E h : Applied(h, G, s, items, n)
  <1> DEFINE F == [k \in 1..n |-> [z \in G |-> Io!ApplyItem(z, items[k])]]
             Eq(f) == f = [S \in SUBSET (DOMAIN items) |->
                            IF S = {} THEN s ELSE
                            LET x == Io!Max(S) IN Io!ApplyItem(f[S \ {x}], items[x])]
             c == CHOOSE f : Eq(f)
             h == [k \in 0..n |-> c[1..k]]
  <1>1. DOMAIN items = 1..n  OBVIOUS
  <1>2. Io!FoldLeft(Io!ApplyItem, s, items) = c[DOMAIN items]
    BY DEF Io!FoldLeft, Io!MapThenFoldSet
  <1>4. F \in [1..n -> [G -> G]]  OBVIOUS
  <1>5. PICK f : Iterates(f, G, s, n, F)
    <2> HIDE DEF F
    <2> QED BY <1>4, FoldExists
  <1>6. ASSUME NEW S \in SUBSET (1..n), S # {}
        PROVE  Io!Max(S) = Max(S) /\ Max(S) \in 1..n /\ S \ {Max(S)} \in SUBSET (1..n)
    <2>1. Max(S) \in S  BY <1>6, MaxIsGreatest
    <2>2. Io!Max(S) = Max(S)  BY DEF Io!Max, Max
    <2> QED BY <2>1, <2>2
  <1>7. Eq(f)
    <2>1. ASSUME NEW S \in SUBSET (1..n), S # {}
          PROVE  F[Max(S)][f[S \ {Max(S)}]] = Io!ApplyItem(f[S \ {Max(S)}], items[Max(S)])
      <3>1. Max(S) \in 1..n /\ S \ {Max(S)} \in SUBSET (1..n)  BY <2>1, <1>6
      <3>2. f[S \ {Max(S)}] \in G  BY <3>1, <1>5 DEF Iterates
      <3> QED BY <3>1, <3>2
    <2>3. ASSUME NEW S \in SUBSET (DOMAIN items)
          PROVE  f[S] = IF S = {} THEN s ELSE
                        LET x == Io!Max(S) IN Io!ApplyItem(f[S \ {x}], items[x])
      <3> HIDE DEF F
      <3> QED BY <1>1, <1>5, <1>6, <2>1, <2>3 DEF Iterates
    <2> HIDE DEF F
    <2> QED BY <1>1, <1>5, <2>3 DEF Iterates
  <1>8. Eq(c)
    <2> HIDE DEF Eq
    <2> QED BY <1>7
  <1>9. c[{}] = s  BY <1>8
  <1>10. ASSUME NEW k \in 1..n
         PROVE  c[1..k] = Io!ApplyItem(c[1..k-1], items[k])
    <2>1. /\ 1..k \in SUBSET (1..n) /\ 1..k # {}
          /\ (1..k) \ {k} = 1..k-1 /\ Io!Max(1..k) = k
      BY <1>6, Initial
    <2>3. 1..k \in SUBSET (DOMAIN items)  BY <2>1, <1>1
    <2>4. c[1..k] = LET x == Io!Max(1..k) IN Io!ApplyItem(c[(1..k) \ {x}], items[x])
      <3> HIDE DEF c
      <3> QED BY <1>8, <2>1, <2>3
    <2> HIDE DEF c
    <2> QED BY <2>1, <2>4
  <1>11. \A k \in 0..n : c[1..k] \in G
    <2> DEFINE Good == {k \in 0..n : c[1..k] \in G}
    <2>1. 0 \in Good
      <3>1. 1..0 = {}  OBVIOUS
      <3> QED BY <3>1, <1>9
    <2>2. ASSUME NEW k \in 0 + 1 .. n, k - 1 \in Good PROVE k \in Good
      <3>1. k \in 1..n /\ c[1..k-1] \in G  BY <2>2
      <3>2. c[1..k] \in G
        <4> HIDE DEF c
        <4> QED BY <3>1, <1>10
      <3> QED BY <3>1, <3>2
    <2>3. 0..n \subseteq Good
      <3> HIDE DEF Good
      <3>1. 0 \in 0..n  OBVIOUS
      <3> QED BY <2>1, <2>2, <3>1, Upwards
    <2> QED BY <2>3
  <1>12. h \in [0..n -> G]  BY <1>11
  <1>13. h[0] = s
    <2>1. 1..0 = {}  OBVIOUS
    <2> QED BY <2>1, <1>9
  <1>14. Io!FoldLeft(Io!ApplyItem, s, items) = h[n]
    <2> HIDE DEF c
    <2> QED BY <1>1, <1>2
  <1>15. ASSUME NEW k \in 1..n PROVE h[k] = Io!ApplyItem(h[k-1], items[k])
    <2>1. h[k] = c[1..k] /\ h[k-1] = c[1..k-1]  OBVIOUS
    <2> HIDE DEF h
    <2> QED BY <2>1, <1>10
  <1> HIDE DEF h
  <1> QED BY <1>12, <1>13, <1>14, <1>15 DEF Applied

(* Nothing but what holds initially and is kept holds of the result.        *)
LEMMA ApplyStays ==
  ASSUME NEW G, NEW s \in G, NEW items \in Seq(Items),
         \A z \in G : \A k \in 1..Len(items) : Io!ApplyItem(z, items[k]) \in G
  PROVE  Io!FoldLeft(Io!ApplyItem, s, items) \in G
  <1> DEFINE n == Len(items)
  <1>1. n \in Nat /\ items \in [1..n -> Items]  OBVIOUS
  <1>2. \A z \in G : \A k \in 1..n : Io!ApplyItem(z, items[k]) \in G  OBVIOUS
  <1> HIDE DEF n
  <1>3. PICK h : Applied(h, G, s, items, n)
    BY <1>1, <1>2, ApplySteps
  <1> QED BY <1>1, <1>3 DEF Applied

(* What a function makes of a finite set is finite.                        *)
LEMMA RangeIsFinite ==
  ASSUME NEW S, IsFiniteSet(S), NEW f, DOMAIN f = S
  PROVE  IsFiniteSet({f[x] : x \in S})
  <1> DEFINE T == {f[x] : x \in S}
             g == [x \in S |-> f[x]]
  <1>1. g \in Surjection(S, T)  BY DEF Surjection
  <1> HIDE DEF T, g
  <1>2. IsFiniteSet(T)  BY <1>1, FS_Surjection
  <1> QED BY <1>2 DEF T

(* There always is an inode that no name leads to and no stream has open.  *)
LEMMA UnusedIsFree ==
  ASSUME StreamConstants, constructs \in Seq(Construct), NEW fs \in FileSystem
  PROVE  /\ Io!Unused(fs) \in Inodes
         /\ \A id \in Io!Ids : fs.names[id] # Io!Unused(fs)
  <1> DEFINE Pairs == (DOMAIN constructs) \X Io!Fds
             saved == [p \in Pairs |-> constructs[p[1]].orig[p[2]].ino]
             now == [fd \in Io!Fds |-> slots[fd].ino]
             then == [fd \in Io!Fds |-> fs.slots[fd].ino]
             A == {saved[p] : p \in Pairs}
             B == {now[fd] : fd \in Io!Fds}
             C == {then[fd] : fd \in Io!Fds}
             D == {fs.names[id] : id \in Io!Ids}
  <1>1. IsFiniteSet(Io!Fds) /\ IsFiniteSet(Io!Ids)
    <2> DEFINE m == 2 * MaxPipes + MaxSubsts + 2
    <2>1. m \in Int /\ 0 \in Int /\ 2 \in Int  BY DEF StreamConstants
    <2>2. Io!Fds = 0..2 /\ Io!Ids = 0..m  BY DEF Io!Fds, Io!Ids
    <2> HIDE DEF m
    <2>3. IsFiniteSet(0..2) /\ IsFiniteSet(0..m)  BY <2>1, FS_Interval
    <2> QED BY <2>2, <2>3
  <1>2. IsFiniteSet(DOMAIN constructs)
    <2>1. DOMAIN constructs = 1..Len(constructs) /\ Len(constructs) \in Nat  OBVIOUS
    <2> QED BY <2>1, FS_Interval
  <1>3. IsFiniteSet(Pairs)
    <2> HIDE DEF saved, now, then, A, B, C, D
    <2>1. IsFiniteSet((DOMAIN constructs) \X Io!Fds)  BY <1>1, <1>2, FS_Product
    <2> QED BY <2>1
  <1>4. IsFiniteSet(A) /\ IsFiniteSet(B) /\ IsFiniteSet(C) /\ IsFiniteSet(D)
    <2>1. DOMAIN saved = Pairs /\ DOMAIN now = Io!Fds /\ DOMAIN then = Io!Fds /\ DOMAIN fs.names = Io!Ids
      BY DEF FileSystem
    <2> HIDE DEF saved, now, then, Pairs
    <2> QED BY <1>1, <1>3, <2>1, RangeIsFinite
  <1>5. IsFiniteSet(((A \cup B) \cup C) \cup D)
    <2> HIDE DEF A, B, C, D
    <2> QED BY <1>4, FS_Union
  <1>6. PICK k \in Inodes : k \notin ((A \cup B) \cup C) \cup D
    <2> HIDE DEF A, B, C, D
    <2>1. ASSUME Inodes \subseteq ((A \cup B) \cup C) \cup D PROVE FALSE
      BY <2>1, <1>5, FS_Subset DEF StreamConstants
    <2> QED BY <2>1
  <1>7. k \notin Io!Opened
    <2>1. ASSUME NEW i \in DOMAIN constructs, NEW fd \in Io!Fds
          PROVE  k # constructs[i].orig[fd].ino
      <3>0. <<i, fd>> \in Pairs  OBVIOUS
      <3>1. saved[<<i, fd>>] = constructs[i].orig[fd].ino
        <4> HIDE DEF Pairs
        <4> QED BY <3>0
      <3>2. saved[<<i, fd>>] \in A  BY <3>0
      <3> HIDE DEF A, saved, Pairs
      <3> QED BY <3>1, <3>2, <1>6
    <2>2. \A fd \in Io!Fds : slots[fd].ino \in B  OBVIOUS
    <2>3. \A fd \in Io!Fds : k # slots[fd].ino
      <3> HIDE DEF B
      <3> QED BY <1>6, <2>2
    <2> QED BY <2>1, <2>3 DEF Io!Opened
  <1>8. (\A id \in Io!Ids : fs.names[id] # k) /\ \A fd \in Io!Fds : fs.slots[fd].ino # k
    <2>1. (\A id \in Io!Ids : fs.names[id] \in D) /\ \A fd \in Io!Fds : fs.slots[fd].ino \in C  OBVIOUS
    <2> HIDE DEF C, D
    <2> QED BY <1>6, <2>1
  <1> QED BY <1>6, <1>7, <1>8 DEF Io!Unused

(* Two names lead to two files, and a step that is about the files named   *)
(* in `own` leaves the other names and what they lead to.                  *)
OneName(nm) == \A a, b \in Io!Ids : nm[a] = nm[b] /\ nm[a] # Io!None => a = b
Elsewhere(nm, ct, nn, cc, own) ==
  \A id \in Io!Ids \ own :
    nn[id] = nm[id] /\ (nm[id] # Io!None => cc[nm[id]] = ct[nm[id]])

(* Leaving the other files alone, twice.                                   *)
LEMMA ElsewhereTwice ==
  ASSUME NEW nm, NEW ct, NEW nn, NEW cc, NEW n3, NEW c3, NEW own,
         Elsewhere(nm, ct, nn, cc, own), Elsewhere(nn, cc, n3, c3, own)
  PROVE  Elsewhere(nm, ct, n3, c3, own)
  BY DEF Elsewhere

(* fopen(name, "w"): the name leads to an empty file, and to no other's.   *)
LEMMA CreateMakes ==
  ASSUME StreamConstants, constructs \in Seq(Construct), NEW fs \in FileSystem, NEW id \in Io!Ids
  PROVE  LET made == Io!Create(fs, id) IN
         /\ made \in FileSystem /\ made.names[id] \in Inodes /\ made.content[made.names[id]] = <<>>
         /\ made.slots = fs.slots /\ made.touched = fs.touched /\ made.ok = fs.ok
         /\ \A j \in Io!Ids : j # id \/ fs.names[j] # Io!None => made.names[j] = fs.names[j]
         /\ OneName(fs.names) => /\ OneName(made.names)
                                 /\ Elsewhere(fs.names, fs.content, made.names, made.content, {id})
  <1> DEFINE k == IF fs.names[id] # Io!None THEN fs.names[id] ELSE Io!Unused(fs)
             made == [fs EXCEPT !.names[id] = k, !.content[k] = <<>>]
  <1>1. Io!Create(fs, id) = made  BY DEF Io!Create
  <1>2. /\ Io!Unused(fs) \in Inodes
        /\ \A j \in Io!Ids : fs.names[j] # Io!Unused(fs)
    BY UnusedIsFree
  <1>3. k \in Inodes /\ k # Io!None /\ \A j \in Io!Ids \ {id} : OneName(fs.names) => fs.names[j] # k
    BY <1>2 DEF FileSystem, Files, StreamConstants, OneName
  <1> HIDE DEF k
  <1>4. made \in FileSystem
    <2>1. [fs.names EXCEPT ![id] = k] \in [Io!Ids -> Files]  BY <1>3 DEF FileSystem, Files
    <2>2. [fs.content EXCEPT ![k] = <<>>] \in [Files -> Seq(Tokens)]  BY <1>3 DEF FileSystem, Files
    <2> QED BY <2>1, <2>2 DEF FileSystem
  <1>5. made.names[id] = k /\ made.content[k] = <<>>  BY <1>3 DEF FileSystem, Files
  <1>6. made.slots = fs.slots /\ made.touched = fs.touched /\ made.ok = fs.ok
    BY DEF FileSystem
  <1>7. \A j \in Io!Ids \ {id} : made.names[j] = fs.names[j]  BY DEF FileSystem
  <1>8. \A g \in Files \ {k} : made.content[g] = fs.content[g]  BY DEF FileSystem
  <1>9. \A j \in Io!Ids : fs.names[j] \in Files  BY DEF FileSystem
  <1> HIDE DEF made
  <1>10. ASSUME OneName(fs.names) PROVE OneName(made.names)
    BY <1>3, <1>5, <1>7, <1>10 DEF OneName
  <1>11. ASSUME OneName(fs.names)
         PROVE  Elsewhere(fs.names, fs.content, made.names, made.content, {id})
    BY <1>3, <1>7, <1>8, <1>9, <1>11 DEF Elsewhere
  <1>12. fs.names[id] # Io!None => made.names[id] = fs.names[id]  BY <1>5 DEF k
  <1> QED BY <1>1, <1>3, <1>4, <1>5, <1>6, <1>7, <1>10, <1>11, <1>12

(* unlink: the name leads nowhere.                                         *)
LEMMA UnlinkRemoves ==
  ASSUME NEW fs \in FileSystem, NEW id \in Io!Ids
  PROVE  LET cut == Io!Unlink(fs, id) IN
         /\ cut \in FileSystem
         /\ cut.slots = fs.slots /\ cut.touched = fs.touched /\ cut.ok = fs.ok
         /\ OneName(fs.names) => OneName(cut.names)
         /\ Elsewhere(fs.names, fs.content, cut.names, cut.content, {id})
  <1>1. Io!Unlink(fs, id) = [fs EXCEPT !.names[id] = Io!None]  BY DEF Io!Unlink
  <1>2. [fs EXCEPT !.names[id] = Io!None] \in FileSystem  BY DEF FileSystem, Files
  <1> DEFINE cut == [fs EXCEPT !.names[id] = Io!None]
  <1>3. /\ cut.names = [fs.names EXCEPT ![id] = Io!None] /\ cut.content = fs.content
        /\ cut.slots = fs.slots /\ cut.touched = fs.touched /\ cut.ok = fs.ok
    BY DEF FileSystem
  <1>4. fs.names \in [Io!Ids -> Files]  BY DEF FileSystem
  <1>5. OneName(fs.names) => OneName(cut.names)  BY <1>3, <1>4 DEF OneName
  <1>6. Elsewhere(fs.names, fs.content, cut.names, cut.content, {id})  BY <1>3, <1>4 DEF Elsewhere
  <1> QED BY <1>1, <1>2, <1>3, <1>5, <1>6

(* What an item does: it fails, or it puts something in one slot; only an  *)
(* item that opens for writing changes files.                              *)
Fails(z, y) == y = [z EXCEPT !.ok = FALSE]
Puts(z, fd, s, y) == y = [z EXCEPT !.slots[fd] = s, !.touched = @ \cup {fd}]

(* An item fails, or opens for reading, opens for writing, shares or closes.*)
LEMMA ItemCases ==
  ASSUME NEW z \in FileSystem, z.ok, NEW it \in Items
  PROVE  LET y == Io!ApplyItem(z, it) IN
         \/ Fails(z, y)
         \/ /\ it.op = "in" /\ it.id \in Io!Ids /\ z.names[it.id] # Io!None
            /\ Puts(z, it.fd, [ino |-> z.names[it.id], by |-> it.by], y)
         \/ /\ it.op = "out" /\ it.id \in Io!Ids
            /\ LET made == Io!Create(z, it.id) IN
               Puts(made, it.fd, [ino |-> made.names[it.id], by |-> it.by], y)
         \/ it.op = "dup" /\ it.id \in Io!Fds /\ Puts(z, it.fd, z.slots[it.id], y)
         \/ it.op = "close" /\ Puts(z, it.fd, [ino |-> Io!None, by |-> it.by], y)
  <1>1. CASE it.op = "in"
    <2>1. CASE it.id \in Io!Ids /\ z.names[it.id] # Io!None
      BY <1>1, <2>1 DEF Io!ApplyItem, Puts
    <2>2. CASE it.id \in Io!Ids /\ z.names[it.id] = Io!None
      BY <1>1, <2>2 DEF Io!ApplyItem, Fails
    <2>3. CASE it.id \notin Io!Ids  BY <1>1, <2>3 DEF Io!ApplyItem, Fails
    <2> QED BY <2>1, <2>2, <2>3
  <1>2. CASE it.op = "out"
    <2>1. CASE it.id \in Io!Ids
      BY <1>2, <2>1 DEF Io!ApplyItem, Puts
    <2>2. CASE it.id \notin Io!Ids  BY <1>2, <2>2 DEF Io!ApplyItem, Fails
    <2> QED BY <2>1, <2>2
  <1>3. CASE it.op = "dup"
    <2>1. CASE it.id \in Io!Fds
      BY <1>3, <2>1 DEF Io!ApplyItem, Puts
    <2>2. CASE it.id \notin Io!Fds  BY <1>3, <2>2 DEF Io!ApplyItem, Fails
    <2> QED BY <2>1, <2>2
  <1>4. CASE it.op = "close"  BY <1>4 DEF Io!ApplyItem, Puts
  <1> QED BY <1>1, <1>2, <1>3, <1>4 DEF Items

(* sh_redir_restore puts back what was touched.                            *)
LEMMA RestorePuts ==
  ASSUME NEW fs \in FileSystem, NEW orig \in Streams
  PROVE  LET back == Io!Restore(fs, orig) IN
         /\ back \in FileSystem /\ back.names = fs.names /\ back.content = fs.content
         /\ back.touched = {} /\ back.ok = fs.ok
         /\ \A fd \in Io!Fds : back.slots[fd] = IF fd \in fs.touched THEN orig[fd] ELSE fs.slots[fd]
  <1> DEFINE sl == [fd \in Io!Fds |-> IF fd \in fs.touched THEN orig[fd] ELSE fs.slots[fd]]
             back == [fs EXCEPT !.slots = sl, !.touched = {}]
  <1>1. Io!Restore(fs, orig) = back  BY DEF Io!Restore
  <1>2. sl \in Streams  BY DEF FileSystem, Streams
  <1>3. \A fd \in Io!Fds : sl[fd] = IF fd \in fs.touched THEN orig[fd] ELSE fs.slots[fd]  OBVIOUS
  <1> HIDE DEF sl
  <1>4. back \in FileSystem /\ back.slots = sl /\ back.names = fs.names /\ back.content = fs.content
        /\ back.touched = {} /\ back.ok = fs.ok
    BY <1>2 DEF FileSystem
  <1> QED BY <1>1, <1>3, <1>4

(* An item of the n-th construct, which reads from file src and writes to  *)
(* file dst, and what has become of the files and streams of fs while some *)
(* of its items were applied.                                              *)
Proper(it, n, src, dst) ==
  /\ it \in Items /\ it.by = n
  /\ it.op = "in" => it.fd = 0 /\ it.id \in {src, -1}
  /\ it.op = "close" => it.fd = 0
  /\ it.op = "out" => it.fd = 1 /\ it.id = dst
  /\ it.op = "dup" => it.fd \in {1, 2} /\ it.id \in {1, 2, 9}
Served(fs, z, n, src, dst) ==
  /\ \A fd \in Io!Fds \ z.touched : z.slots[fd] = fs.slots[fd]
  /\ \A fd \in Io!Fds : z.slots[fd].by <= n
  /\ OneName(fs.names) => /\ OneName(z.names)
                          /\ Elsewhere(fs.names, fs.content, z.names, z.content, {dst})
  /\ \A fd \in {1, 2} : z.slots[fd].ino # Io!None =>
       \/ \E g \in {1, 2} : z.slots[fd] = fs.slots[g]
       \/ /\ dst \in Io!Ids /\ 1 \in z.touched
          /\ z.slots[fd].by = n /\ z.slots[fd].ino = z.names[dst]
  /\ 0 \in z.touched /\ z.slots[0].ino # Io!None =>
       src \in Io!Ids /\ z.slots[0].ino = z.names[src]

(* Putting something in a slot.                                            *)
LEMMA PutsMeans ==
  ASSUME NEW z \in FileSystem, NEW fd \in Io!Fds, NEW s \in [ino: Files, by: Nat], NEW y, Puts(z, fd, s, y)
  PROVE  /\ y \in FileSystem /\ y.names = z.names /\ y.content = z.content /\ y.ok = z.ok
         /\ y.touched = z.touched \cup {fd} /\ y.slots[fd] = s
         /\ \A g \in Io!Fds \ {fd} : y.slots[g] = z.slots[g]
  <1> DEFINE sl == [z.slots EXCEPT ![fd] = s]
             t == z.touched \cup {fd}
  <1>1. sl \in Streams /\ sl[fd] = s /\ \A g \in Io!Fds \ {fd} : sl[g] = z.slots[g]
    BY DEF FileSystem, Streams
  <1>2. t \in SUBSET Io!Fds  BY DEF FileSystem
  <1>3. y = [z EXCEPT !.slots = sl, !.touched = t]  BY DEF Puts, FileSystem
  <1> HIDE DEF sl, t
  <1>4. y \in FileSystem /\ y.slots = sl /\ y.names = z.names /\ y.content = z.content
        /\ y.touched = t /\ y.ok = z.ok
    BY <1>1, <1>2, <1>3 DEF FileSystem
  <1> QED BY <1>1, <1>4 DEF t

(* One more item does not change that.                                     *)
LEMMA ItemServes ==
  ASSUME StreamConstants, constructs \in Seq(Construct),
         NEW fs \in FileSystem, NEW z \in FileSystem, NEW n \in Nat, NEW src \in Int, NEW dst \in Int \ {src},
         NEW it, Proper(it, n, src, dst), Served(fs, z, n, src, dst)
  PROVE  Io!ApplyItem(z, it) \in FileSystem /\ Served(fs, Io!ApplyItem(z, it), n, src, dst)
  <1> DEFINE y == Io!ApplyItem(z, it)
  <1>i. it \in Items /\ it.by = n /\ it.fd \in Io!Fds /\ it.by \in Nat  BY DEF Proper, Items
  <1>f. -1 \notin Io!Ids /\ 1 \in Io!Fds /\ 2 \in Io!Fds /\ 0 \in Io!Fds /\ 9 \notin Io!Fds /\ Io!Fds = {0, 1, 2}
    BY DEF Io!Ids, Io!Fds
  <1>z. z.names \in [Io!Ids -> Files] /\ z.slots \in [Io!Fds -> [ino: Files, by: Nat]]
    BY DEF FileSystem, Streams
  <1>1. CASE ~ z.ok
    <2>1. y = z  BY <1>1 DEF Io!ApplyItem
    <2> QED BY <2>1
  <1> SUFFICES ASSUME z.ok PROVE y \in FileSystem /\ Served(fs, y, n, src, dst)  BY <1>1
  <1>2. CASE Fails(z, y)
    <2>1. y \in FileSystem /\ y.names = z.names /\ y.content = z.content /\ y.slots = z.slots
          /\ y.touched = z.touched
      BY <1>2 DEF Fails, FileSystem
    <2> HIDE DEF y
    <2> QED BY <2>1 DEF Served
  <1>3. CASE /\ it.op = "in" /\ it.id \in Io!Ids /\ z.names[it.id] # Io!None
             /\ Puts(z, it.fd, [ino |-> z.names[it.id], by |-> it.by], y)
    <2>1. it.fd = 0 /\ it.id = src  BY <1>3, <1>f DEF Proper
    <2>2. [ino |-> z.names[it.id], by |-> it.by] \in [ino: Files, by: Nat]  BY <1>i, <1>z, <1>3
    <2> HIDE DEF y
    <2>3. /\ y \in FileSystem /\ y.names = z.names /\ y.content = z.content
          /\ y.touched = z.touched \cup {0} /\ y.slots[0] = [ino |-> z.names[src], by |-> n]
          /\ \A g \in {1, 2} : y.slots[g] = z.slots[g]
      BY <1>3, <2>1, <2>2, <1>i, <1>f, PutsMeans
    <2> QED BY <2>3, <1>3, <2>1, <1>f DEF Served
  <1>4. CASE /\ it.op = "out" /\ it.id \in Io!Ids
             /\ LET made == Io!Create(z, it.id) IN
                Puts(made, it.fd, [ino |-> made.names[it.id], by |-> it.by], y)
    <2> DEFINE made == Io!Create(z, dst)
    <2>1. it.fd = 1 /\ it.id = dst /\ dst \in Io!Ids  BY <1>4 DEF Proper
    <2>2. /\ made \in FileSystem /\ made.names[dst] \in Inodes
          /\ made.slots = z.slots /\ made.touched = z.touched
          /\ \A j \in Io!Ids : j # dst \/ z.names[j] # Io!None => made.names[j] = z.names[j]
          /\ OneName(z.names) => /\ OneName(made.names)
                                 /\ Elsewhere(z.names, z.content, made.names, made.content, {dst})
      BY <2>1, CreateMakes
    <2>3. Puts(made, 1, [ino |-> made.names[dst], by |-> n], y)  BY <1>4, <2>1, <1>i
    <2> HIDE DEF y, made
    <2>4. [ino |-> made.names[dst], by |-> n] \in [ino: Files, by: Nat]  BY <2>2 DEF Files
    <2>5. /\ y \in FileSystem /\ y.names = made.names /\ y.content = made.content
          /\ y.touched = made.touched \cup {1} /\ y.slots[1] = [ino |-> made.names[dst], by |-> n]
          /\ \A g \in {0, 2} : y.slots[g] = made.slots[g]
      BY <2>2, <2>3, <2>4, <1>f, PutsMeans
    <2>6. OneName(fs.names) => /\ OneName(y.names)
                               /\ Elsewhere(fs.names, fs.content, y.names, y.content, {dst})
      <3> SUFFICES ASSUME OneName(fs.names) PROVE /\ OneName(y.names)
                               /\ Elsewhere(fs.names, fs.content, y.names, y.content, {dst})
        OBVIOUS
      <3>1. OneName(z.names) /\ Elsewhere(fs.names, fs.content, z.names, z.content, {dst})
        BY DEF Served
      <3> QED BY <3>1, <2>2, <2>5, ElsewhereTwice
    <2>7. /\ src \in Io!Ids => y.names[src] = z.names[src]
          /\ z.names[dst] # Io!None => y.names[dst] = z.names[dst]
      BY <2>2, <2>5, <2>1
    <2>8. \A fd \in Io!Fds \ y.touched : y.slots[fd] = fs.slots[fd]
      BY <2>2, <2>5, <1>f DEF Served
    <2>9. \A fd \in Io!Fds : y.slots[fd].by <= n
      BY <2>2, <2>5, <1>f DEF Served
    <2>10. ASSUME NEW fd \in {1, 2}, y.slots[fd].ino # Io!None
           PROVE  \/ \E g \in {1, 2} : y.slots[fd] = fs.slots[g]
                  \/ /\ dst \in Io!Ids /\ 1 \in y.touched
                     /\ y.slots[fd].by = n /\ y.slots[fd].ino = y.names[dst]
      <3>1. CASE fd = 1  BY <3>1, <2>1, <2>5
      <3>2. CASE fd = 2
        <4>1. y.slots[2] = z.slots[2]  BY <2>2, <2>5
        <4> QED BY <4>1, <3>2, <2>2, <2>5, <2>7, <2>10 DEF Served
      <3> QED BY <3>1, <3>2
    <2>11. 0 \in y.touched /\ y.slots[0].ino # Io!None => src \in Io!Ids /\ y.slots[0].ino = y.names[src]
      BY <2>2, <2>5, <2>7 DEF Served
    <2> QED BY <2>5, <2>6, <2>8, <2>9, <2>10, <2>11 DEF Served
  <1>5. CASE it.op = "dup" /\ it.id \in Io!Fds /\ Puts(z, it.fd, z.slots[it.id], y)
    <2>1. it.fd \in {1, 2} /\ it.id \in {1, 2}  BY <1>5, <1>f DEF Proper
    <2>2. z.slots[it.id] \in [ino: Files, by: Nat]  BY <1>z, <1>5
    <2> HIDE DEF y
    <2>3. /\ y \in FileSystem /\ y.names = z.names /\ y.content = z.content
          /\ y.touched = z.touched \cup {it.fd} /\ y.slots[it.fd] = z.slots[it.id]
          /\ \A g \in Io!Fds \ {it.fd} : y.slots[g] = z.slots[g]
      BY <1>5, <2>2, <1>i, PutsMeans
    <2> QED BY <2>3, <2>1, <1>f DEF Served
  <1>6. CASE it.op = "close" /\ Puts(z, it.fd, [ino |-> Io!None, by |-> it.by], y)
    <2>1. it.fd = 0  BY <1>6 DEF Proper
    <2>2. [ino |-> Io!None, by |-> it.by] \in [ino: Files, by: Nat]  BY <1>i DEF Files
    <2> HIDE DEF y
    <2>3. /\ y \in FileSystem /\ y.names = z.names /\ y.content = z.content
          /\ y.touched = z.touched \cup {0} /\ y.slots[0] = [ino |-> Io!None, by |-> n]
          /\ \A g \in {1, 2} : y.slots[g] = z.slots[g]
      BY <1>6, <2>1, <2>2, <1>i, <1>f, PutsMeans
    <2> QED BY <2>3, <1>f DEF Served
  <1> HIDE DEF y
  <1> QED BY <1>2, <1>3, <1>4, <1>5, <1>6, <1>i, ItemCases DEF y

(* The whole list of a construct.                                          *)
LEMMA ApplyServes ==
  ASSUME StreamConstants, constructs \in Seq(Construct),
         NEW fs \in FileSystem, fs.ok, fs.touched = {},
         NEW n \in Nat, \A fd \in Io!Fds : fs.slots[fd].by <= n,
         NEW src \in Int, NEW dst \in Int \ {src},
         NEW items \in Seq(Items), \A k \in 1..Len(items) : Proper(items[k], n, src, dst)
  PROVE  LET y == Io!Apply(fs, items) IN
         /\ y \in FileSystem
         /\ Served(fs, y, n, src, dst)
         /\ ~ y.ok => y.slots = fs.slots
         /\ y.ok /\ items # <<>> => items[Len(items)].fd \in y.touched
  <1> DEFINE m == Len(items)
             G == {z \in FileSystem : Served(fs, z, n, src, dst)}
             done == Io!FoldLeft(Io!ApplyItem, fs, items)
  <1>1. m \in Nat /\ items \in [1..m -> Items] /\ (items # <<>> => m \in 1..m)  OBVIOUS
  <1>2. fs \in G
    <2>1. Elsewhere(fs.names, fs.content, fs.names, fs.content, {dst})  BY DEF Elsewhere
    <2>2. 1 \in Io!Fds /\ 2 \in Io!Fds  BY DEF Io!Fds
    <2>3. Served(fs, fs, n, src, dst)  BY <2>1, <2>2 DEF Served
    <2> QED BY <2>3
  <1>3. \A z \in G : \A k \in 1..m : Io!ApplyItem(z, items[k]) \in G  BY ItemServes
  <1>4. PICK h : Applied(h, G, fs, items, m)
    <2> HIDE DEF G, m
    <2> QED BY <1>1, <1>2, <1>3, ApplySteps
  <1>5. done \in G
    <2> HIDE DEF G, m
    <2> QED BY <1>1, <1>4 DEF Applied
  <1>6. ASSUME done.ok, items # <<>> PROVE items[m].fd \in done.touched
    <2>1. m - 1 \in 0..m /\ m \in 1..m  BY <1>1, <1>6
    <2>2. h[m-1] \in G /\ done = Io!ApplyItem(h[m-1], items[m])
      <3> HIDE DEF G, m
      <3> QED BY <2>1, <1>4 DEF Applied
    <2>3. h[m-1] \in FileSystem /\ items[m] \in Items  BY <1>1, <2>1, <2>2
    <2> DEFINE z == h[m-1]
               it == items[m]
    <2> HIDE DEF m, done, z, it
    <2>4. z \in FileSystem /\ it \in Items /\ done = Io!ApplyItem(z, it)  BY <2>2, <2>3 DEF z, it
    <2>5. z.ok  BY <1>6, <2>4 DEF Io!ApplyItem
    <2>6. ~ Fails(z, done)  BY <1>6, <2>4 DEF Fails, FileSystem
    <2>7. \E w, s : Puts(w, it.fd, s, done) /\ w \in FileSystem
      <3>1. it.id \in Io!Ids => Io!Create(z, it.id) \in FileSystem  BY <2>4, CreateMakes
      <3> QED BY <2>4, <2>5, <2>6, <3>1, ItemCases
    <2>8. it.fd \in done.touched  BY <2>7 DEF Puts, FileSystem
    <2> QED BY <2>8 DEF it
  <1>7. CASE done.ok
    <2>1. Io!Apply(fs, items) = done  BY <1>7 DEF Io!Apply
    <2> HIDE DEF done
    <2> QED BY <2>1, <1>5, <1>6, <1>7
  <1>8. CASE ~ done.ok
    <2> DEFINE back == Io!Restore(done, fs.slots)
    <2>1. Io!Apply(fs, items) = back  BY <1>8 DEF Io!Apply
    <2>2. done \in FileSystem /\ Served(fs, done, n, src, dst)  BY <1>5
    <2>3. fs.slots \in Streams  BY DEF FileSystem
    <2> HIDE DEF done
    <2>4. /\ back \in FileSystem /\ back.names = done.names /\ back.content = done.content
          /\ back.touched = {} /\ back.ok = done.ok
          /\ \A fd \in Io!Fds : back.slots[fd] = IF fd \in done.touched THEN fs.slots[fd] ELSE done.slots[fd]
      BY <2>2, <2>3, RestorePuts
    <2> HIDE DEF back
    <2>5. \A fd \in Io!Fds : back.slots[fd] = fs.slots[fd]  BY <2>2, <2>4 DEF Served
    <2>6. back.slots = fs.slots  BY <2>3, <2>4, <2>5 DEF FileSystem, Streams
    <2>7. Served(fs, back, n, src, dst)
      <3>1. 1 \in Io!Fds /\ 2 \in Io!Fds  BY DEF Io!Fds
      <3> QED BY <2>2, <2>4, <2>6, <3>1 DEF Served
    <2> QED BY <2>1, <2>4, <2>6, <2>7, <1>8
  <1> QED BY <1>7, <1>8

(* Without sharing, what stdout has become is the construct's own file,    *)
(* which is empty.                                                         *)
OwnOutput(z, n, dst) ==
  1 \in z.touched =>
    /\ z.slots[1] = [ino |-> z.names[dst], by |-> n] /\ z.names[dst] # Io!None
    /\ z.content[z.names[dst]] = <<>>

(* A list that only opens files: stdout, if touched, is the construct's own.*)
LEMMA ApplyOpens ==
  ASSUME StreamConstants, constructs \in Seq(Construct),
         NEW fs \in FileSystem, fs.touched = {},
         NEW n \in Nat, NEW src, NEW dst \in Int,
         NEW items \in Seq(Items),
         \A k \in 1..Len(items) : Proper(items[k], n, src, dst) /\ items[k].op \in {"in", "out"}
  PROVE  OwnOutput(Io!Apply(fs, items), n, dst)
  <1> DEFINE G == {z \in FileSystem : OwnOutput(z, n, dst)}
             done == Io!FoldLeft(Io!ApplyItem, fs, items)
  <1>1. fs \in G  BY DEF OwnOutput
  <1>2. ASSUME NEW z \in G, NEW k \in 1..Len(items) PROVE Io!ApplyItem(z, items[k]) \in G
    <2> DEFINE it == items[k]
               y == Io!ApplyItem(z, it)
    <2> SUFFICES y \in G  OBVIOUS
    <2>1. it \in Items /\ Proper(it, n, src, dst) /\ it.op \in {"in", "out"}  OBVIOUS
    <2>2. it.by = n /\ it.fd \in Io!Fds /\ it.by \in Nat  BY <2>1 DEF Proper, Items
    <2>3. z \in FileSystem /\ OwnOutput(z, n, dst)  OBVIOUS
    <2>z. z.names \in [Io!Ids -> Files] BY <2>3 DEF FileSystem
    <2> HIDE DEF G, it
    <2>4. CASE ~ z.ok
      <3>1. y = z  BY <2>4 DEF Io!ApplyItem
      <3> QED BY <3>1, <2>3 DEF G
    <2>5. CASE Fails(z, y)
      <3>1. y \in FileSystem /\ y.names = z.names /\ y.content = z.content /\ y.slots = z.slots
            /\ y.touched = z.touched
        BY <2>3, <2>5 DEF Fails, FileSystem
      <3> HIDE DEF y
      <3>2. OwnOutput(y, n, dst)  BY <3>1, <2>3 DEF OwnOutput
      <3> QED BY <3>1, <3>2 DEF G
    <2>6. CASE /\ it.op = "in" /\ it.id \in Io!Ids /\ z.names[it.id] # Io!None
               /\ Puts(z, it.fd, [ino |-> z.names[it.id], by |-> it.by], y)
      <3>1. it.fd = 0 /\ 1 \in Io!Fds  BY <2>1, <2>6 DEF Proper, Io!Fds
      <3>2. [ino |-> z.names[it.id], by |-> it.by] \in [ino: Files, by: Nat]  BY <2>2, <2>z, <2>6
      <3> HIDE DEF y
      <3>3. /\ y \in FileSystem /\ y.names = z.names /\ y.content = z.content
            /\ y.touched = z.touched \cup {0} /\ y.slots[1] = z.slots[1]
        BY <2>2, <2>3, <2>6, <3>1, <3>2, PutsMeans
      <3>4. OwnOutput(y, n, dst)  BY <3>3, <2>3 DEF OwnOutput
      <3> QED BY <3>3, <3>4 DEF G
    <2>7. CASE /\ it.op = "out" /\ it.id \in Io!Ids
               /\ LET made == Io!Create(z, it.id) IN
                  Puts(made, it.fd, [ino |-> made.names[it.id], by |-> it.by], y)
      <3> DEFINE made == Io!Create(z, dst)
      <3>1. it.fd = 1 /\ it.id = dst /\ dst \in Io!Ids /\ 1 \in Io!Fds  BY <2>1, <2>7 DEF Proper, Io!Fds
      <3>2. made \in FileSystem /\ made.names[dst] \in Inodes /\ made.content[made.names[dst]] = <<>>
        BY <2>3, <3>1, CreateMakes
      <3>3. Puts(made, 1, [ino |-> made.names[dst], by |-> n], y)  BY <2>2, <2>7, <3>1
      <3> HIDE DEF y, made
      <3>4. [ino |-> made.names[dst], by |-> n] \in [ino: Files, by: Nat] /\ made.names[dst] # Io!None
        BY <3>2 DEF Files, StreamConstants
      <3>5. /\ y \in FileSystem /\ y.names = made.names /\ y.content = made.content
            /\ y.slots[1] = [ino |-> made.names[dst], by |-> n]
        BY <3>1, <3>2, <3>3, <3>4, PutsMeans
      <3>6. OwnOutput(y, n, dst)  BY <3>2, <3>4, <3>5 DEF OwnOutput
      <3> QED BY <3>5, <3>6 DEF G
    <2> HIDE DEF y
    <2>8. it.op # "dup" /\ it.op # "close"  BY <2>1
    <2> QED
      <3> SUFFICES ASSUME z.ok PROVE y \in G  BY <2>4
      <3> QED BY <2>1, <2>3, <2>5, <2>6, <2>7, <2>8, ItemCases DEF y
  <1>3. done \in G
    <2> HIDE DEF G
    <2> QED BY <1>1, <1>2, ApplyStays
  <1>4. CASE done.ok  BY <1>3, <1>4 DEF Io!Apply
  <1>5. CASE ~ done.ok
    <2>1. Io!Apply(fs, items) = Io!Restore(done, fs.slots) /\ done \in FileSystem /\ fs.slots \in Streams
      BY <1>3, <1>5 DEF Io!Apply, FileSystem
    <2>2. Io!Restore(done, fs.slots).touched = {}
      <3> HIDE DEF done
      <3> QED BY <2>1, RestorePuts
    <2> QED BY <2>1, <2>2 DEF OwnOutput
  <1> QED BY <1>4, <1>5

(* An item leaves a file system a file system.                             *)
LEMMA ItemTyped ==
  ASSUME StreamConstants, constructs \in Seq(Construct), NEW z \in FileSystem, NEW it \in Items
  PROVE  Io!ApplyItem(z, it) \in FileSystem
  <1> DEFINE y == Io!ApplyItem(z, it)
  <1>1. CASE ~ z.ok  BY <1>1 DEF Io!ApplyItem
  <1>2. CASE z.ok
    <2>1. it.fd \in Io!Fds /\ it.by \in Nat /\ Io!None \in Files  BY DEF Items, Files
    <2>2. \A id \in Io!Ids : z.names[id] \in Files  BY DEF FileSystem
    <2>3. \A fd \in Io!Fds : z.slots[fd] \in [ino: Files, by: Nat]  BY DEF FileSystem, Streams
    <2>4. ASSUME it.id \in Io!Ids
          PROVE  /\ Io!Create(z, it.id) \in FileSystem
                 /\ Io!Create(z, it.id).names[it.id] \in Files
      BY <2>4, CreateMakes DEF Files
    <2>5. CASE Fails(z, y)  BY <2>5 DEF Fails, FileSystem
    <2>6. \A f \in Files : [ino |-> f, by |-> it.by] \in [ino: Files, by: Nat]  BY <2>1
    <2>7. (\E w \in FileSystem, s \in [ino: Files, by: Nat] : Puts(w, it.fd, s, y)) => y \in FileSystem
      <3> HIDE DEF y
      <3> QED BY <2>1, PutsMeans
    <2>8. \/ Fails(z, y)
          \/ \E w \in FileSystem, s \in [ino: Files, by: Nat] : Puts(w, it.fd, s, y)
      BY <1>2, <2>1, <2>2, <2>3, <2>4, <2>6, ItemCases
    <2> HIDE DEF y
    <2> QED BY <2>5, <2>7, <2>8 DEF y
  <1> QED BY <1>1, <1>2

(* A file of one's own can be opened for writing.                          *)
LEMMA OutSucceeds ==
  ASSUME StreamConstants, constructs \in Seq(Construct),
         NEW fs \in FileSystem, fs.ok, NEW it \in Items, it.op = "out", it.id \in Io!Ids
  PROVE  Io!Apply(fs, <<it>>).ok /\ it.fd \in Io!Apply(fs, <<it>>).touched
  <1> DEFINE items == <<it>>
             done == Io!FoldLeft(Io!ApplyItem, fs, items)
             y == Io!ApplyItem(fs, it)
             made == Io!Create(fs, it.id)
  <1>1. items \in [1..1 -> Items] /\ items[1] = it  OBVIOUS
  <1>2. made \in FileSystem /\ made.ok = fs.ok  BY CreateMakes
  <1>3. y = [made EXCEPT !.slots[it.fd] = [ino |-> made.names[it.id], by |-> it.by],
                         !.touched = @ \cup {it.fd}]
    BY DEF Io!ApplyItem
  <1>4. y.ok /\ it.fd \in y.touched
    <2> HIDE DEF made, y
    <2> QED BY <1>2, <1>3 DEF FileSystem
  <1>5. done = y
    <2>1. \A z \in FileSystem : \A k \in 1..1 : Io!ApplyItem(z, items[k]) \in FileSystem
      BY <1>1, ItemTyped
    <2> HIDE DEF items
    <2>2. PICK h : Applied(h, FileSystem, fs, items, 1)  BY <1>1, <2>1, ApplySteps
    <2>3. h[0] = fs /\ h[1] = Io!ApplyItem(h[0], items[1]) /\ done = h[1]  BY <2>2 DEF Applied
    <2> QED BY <2>3, <1>1
  <1>6. Io!Apply(fs, items) = done  BY <1>4, <1>5 DEF Io!Apply
  <1> QED BY <1>4, <1>5, <1>6

(* The streams as the i-th construct has them: those in use if it is the   *)
(* innermost, those the next one saved otherwise.                          *)
Level(sl, cs, i) == IF i = Len(cs) THEN sl ELSE cs[i+1].orig

(* A stream belongs to no construct further in, and one that leads to a    *)
(* file for writing is the output of the construct it belongs to.          *)
Owned(s, i, cs) ==
  /\ \A fd \in Io!Fds : s[fd].by <= i
  /\ \A fd \in {1, 2} : s[fd].ino # Io!None => s[fd].by \in 1..i /\ cs[s[fd].by].out = s[fd].ino

(* The kinds of constructs, and what the items of a redirection may be.    *)
Shape(c, i) ==
  /\ c.phase = "run" \/ c.touched = {}
  /\ c.docs > 0 => MaxDocs > 0
  /\ c.kind = "pipe" => /\ c.phase \in {"next", "run"} /\ c.docs = 0 /\ c.stage <= c.stages
                        /\ c.id <= 2 * MaxPipes - 2
                        /\ c.phase = "run" => c.stage < c.stages
                        /\ c.phase = "next" => c.in = Io!None /\ c.out = Io!None /\ c.wrote = <<>>
  /\ c.kind = "subst" => c.phase = "run" /\ c.docs = 0 /\ c.out # Io!None /\ c.id >= 2 /\ MaxSubsts > 0
  /\ c.kind = "redir" => /\ c.phase \in {"build", "run"} /\ c.out = Io!None
                         /\ c.phase = "build" => c.in = Io!None
                         /\ \A k \in 1..Len(c.items) : Proper(c.items[k], i, 2, -2)

(* The types, with those of the constructs in progress.                    *)
IoTypes == /\ slots \in Streams /\ names \in [Io!Ids -> Files] /\ content \in [Files -> Seq(Tokens)]
           /\ constructs \in Seq(Construct)

(* Each level's streams are as the level below left them, but for those its*)
(* construct redirected.                                                   *)
IoInv ==
  /\ IoTypes /\ OneName(names)
  /\ \A i \in 0..Len(constructs) : Owned(Level(slots, constructs, i), i, constructs)
  /\ \A i \in 1..Len(constructs) :
       /\ Shape(constructs[i], i)
       /\ \A fd \in Io!Fds \ constructs[i].touched : Level(slots, constructs, i)[fd] = constructs[i].orig[fd]

(* The streams of every level are streams.                                 *)
LEMMA LevelTyped ==
  ASSUME IoTypes, NEW i \in 0..Len(constructs)
  PROVE  Level(slots, constructs, i) \in Streams
  <1>1. CASE i = Len(constructs)  BY <1>1 DEF Level, IoTypes
  <1>2. CASE i # Len(constructs)
    <2>1. i + 1 \in 1..Len(constructs) /\ constructs \in Seq(Construct)  BY <1>2 DEF IoTypes
    <2>2. constructs[i+1] \in Construct  BY <2>1
    <2> QED BY <1>2, <2>2 DEF Level, Construct
  <1> QED BY <1>1, <1>2

(* A construct begins: the streams it saves are those in use.              *)
LEMMA BeginsInv ==
  ASSUME IoInv, NEW c \in Construct, Io!Push(c), c.orig = slots,
         slots' \in Streams, names' \in [Io!Ids -> Files], content' \in [Files -> Seq(Tokens)],
         OneName(names'), Shape(c, Len(constructs) + 1),
         \A fd \in Io!Fds \ c.touched : slots'[fd] = slots[fd],
         Owned(slots', Len(constructs) + 1, constructs')
  PROVE  IoInv' /\ Len(constructs') = Len(constructs) + 1
  <1>a. constructs \in Seq(Construct)  BY DEF IoInv, IoTypes
  <1> PICK n \in Nat : n = Len(constructs)  BY <1>a
  <1>0. constructs \in Seq(Construct) /\ n = Len(constructs)  BY <1>a
  <1>1. /\ constructs' \in Seq(Construct) /\ Len(constructs') = n + 1 /\ constructs'[n+1] = c
        /\ \A i \in 1..n : constructs'[i] = constructs[i]
    BY <1>0 DEF Io!Push
  <1>2. IoTypes'  BY <1>1 DEF IoTypes
  <1>3. Level(slots', constructs', n + 1) = slots' /\ \A i \in 0..n : Level(slots', constructs', i) = Level(slots, constructs, i)
    <2>1. Level(slots', constructs', n + 1) = slots'  BY <1>1 DEF Level
    <2>2. ASSUME NEW i \in 0..n PROVE Level(slots', constructs', i) = Level(slots, constructs, i)
      <3>0. i # n + 1 /\ Level(slots', constructs', i) = constructs'[i+1].orig  BY <1>0, <1>1 DEF Level
      <3>1. CASE i = n  BY <3>0, <3>1, <1>1 DEF Level
      <3>2. CASE i # n
        <4>1. i + 1 \in 1..n  BY <3>2, <1>0
        <4> QED BY <3>0, <3>2, <4>1, <1>1 DEF Level
      <3> QED BY <3>1, <3>2
    <2> QED BY <2>1, <2>2
  <1>4. ASSUME NEW i \in 0..n+1 PROVE Owned(Level(slots', constructs', i), i, constructs')
    <2>1. CASE i = n + 1  BY <2>1, <1>3
    <2>2. CASE i # n + 1
      <3>1. i \in 0..n  BY <2>2, <1>0
      <3>2. Owned(Level(slots, constructs, i), i, constructs)  BY <3>1 DEF IoInv
      <3>3. \A j \in 1..i : constructs'[j] = constructs[j]  BY <3>1, <1>1
      <3> QED BY <3>1, <3>2, <3>3, <1>3 DEF Owned
    <2> QED BY <2>1, <2>2
  <1>5. ASSUME NEW i \in 1..n+1
        PROVE  /\ Shape(constructs'[i], i)
               /\ \A fd \in Io!Fds \ constructs'[i].touched : Level(slots', constructs', i)[fd] = constructs'[i].orig[fd]
    <2>1. CASE i = n + 1  BY <2>1, <1>1, <1>3
    <2>2. CASE i # n + 1
      <3>1. i \in 1..n /\ i \in 0..n  BY <2>2, <1>0
      <3>2. /\ Shape(constructs[i], i)
            /\ \A fd \in Io!Fds \ constructs[i].touched : Level(slots, constructs, i)[fd] = constructs[i].orig[fd]
        BY <3>1 DEF IoInv
      <3> QED BY <3>1, <3>2, <1>1, <1>3
    <2> QED BY <2>1, <2>2
  <1> QED BY <1>0, <1>1, <1>2, <1>4, <1>5 DEF IoInv

(* The innermost construct goes on.                                        *)
LEMMA GoesOnInv ==
  ASSUME IoInv, constructs # <<>>, NEW c \in Construct,
         Io!SetTop(c), c.orig = Io!Top.orig,
         slots' \in Streams, names' \in [Io!Ids -> Files], content' \in [Files -> Seq(Tokens)],
         OneName(names'), Shape(c, Len(constructs)),
         \A fd \in Io!Fds \ c.touched : slots'[fd] = c.orig[fd],
         Owned(slots', Len(constructs), constructs')
  PROVE  IoInv' /\ Len(constructs') = Len(constructs)
  <1>a. constructs \in Seq(Construct)  BY DEF IoInv, IoTypes
  <1> PICK n \in Nat : n = Len(constructs)  BY <1>a
  <1>0. constructs \in Seq(Construct) /\ n = Len(constructs) /\ n \in 1..n  BY <1>a
  <1>1. /\ constructs' \in Seq(Construct) /\ Len(constructs') = n /\ constructs'[n] = c
        /\ \A i \in 1..n-1 : constructs'[i] = constructs[i]
    BY <1>0 DEF Io!SetTop
  <1>2. IoTypes'  BY <1>1 DEF IoTypes
  <1>3. Level(slots', constructs', n) = slots' /\ \A i \in 0..n-1 : Level(slots', constructs', i) = Level(slots, constructs, i)
    <2>1. Level(slots', constructs', n) = slots'  BY <1>1 DEF Level
    <2>2. ASSUME NEW i \in 0..n-1 PROVE Level(slots', constructs', i) = Level(slots, constructs, i)
      <3>0. i # n /\ Level(slots', constructs', i) = constructs'[i+1].orig /\ Level(slots, constructs, i) = constructs[i+1].orig
        BY <1>0, <1>1 DEF Level
      <3>1. CASE i = n - 1  BY <3>0, <3>1, <1>0, <1>1 DEF Io!Top
      <3>2. CASE i # n - 1
        <4>1. i + 1 \in 1..n-1  BY <3>2, <1>0
        <4> QED BY <3>0, <4>1, <1>1
      <3> QED BY <3>1, <3>2
    <2> QED BY <2>1, <2>2
  <1>4. ASSUME NEW i \in 0..n PROVE Owned(Level(slots', constructs', i), i, constructs')
    <2>1. CASE i = n  BY <2>1, <1>3
    <2>2. CASE i # n
      <3>1. i \in 0..n-1  BY <2>2, <1>0
      <3>2. Owned(Level(slots, constructs, i), i, constructs)  BY <3>1 DEF IoInv
      <3>3. \A j \in 1..i : constructs'[j] = constructs[j]  BY <3>1, <1>1
      <3> QED BY <3>1, <3>2, <3>3, <1>3 DEF Owned
    <2> QED BY <2>1, <2>2
  <1>5. ASSUME NEW i \in 1..n
        PROVE  /\ Shape(constructs'[i], i)
               /\ \A fd \in Io!Fds \ constructs'[i].touched : Level(slots', constructs', i)[fd] = constructs'[i].orig[fd]
    <2>1. CASE i = n  BY <2>1, <1>1, <1>3
    <2>2. CASE i # n
      <3>1. i \in 1..n-1 /\ i \in 0..n-1  BY <2>2, <1>0
      <3>2. /\ Shape(constructs[i], i)
            /\ \A fd \in Io!Fds \ constructs[i].touched : Level(slots, constructs, i)[fd] = constructs[i].orig[fd]
        BY <3>1 DEF IoInv
      <3> QED BY <3>1, <3>2, <1>1, <1>3
    <2> QED BY <2>1, <2>2
  <1> QED BY <1>0, <1>1, <1>2, <1>4, <1>5 DEF IoInv

(* The innermost construct ends, with the streams it had saved in place.   *)
LEMMA EndsInv ==
  ASSUME IoInv, constructs # <<>>, Io!Pop, slots' = Io!Top.orig,
         names' \in [Io!Ids -> Files], content' \in [Files -> Seq(Tokens)], OneName(names')
  PROVE  IoInv' /\ Len(constructs') = Len(constructs) - 1
  <1>a. constructs \in Seq(Construct)  BY DEF IoInv, IoTypes
  <1> PICK n \in Nat : n = Len(constructs)  BY <1>a
  <1>0. constructs \in Seq(Construct) /\ n = Len(constructs) /\ n \in 1..n  BY <1>a
  <1>1. /\ constructs' \in Seq(Construct) /\ Len(constructs') = n - 1
        /\ \A i \in 1..n-1 : constructs'[i] = constructs[i]
    BY <1>0 DEF Io!Pop, Io!Front
  <1>2. slots' \in Streams
    <2>1. constructs[n] \in Construct  BY <1>0
    <2> QED BY <2>1, <1>0 DEF Io!Top, Construct
  <1>3. IoTypes'  BY <1>1, <1>2 DEF IoTypes
  <1>4. ASSUME NEW i \in 0..n-1 PROVE Level(slots', constructs', i) = Level(slots, constructs, i)
    <2>0. i # n /\ Level(slots, constructs, i) = constructs[i+1].orig  BY <1>0 DEF Level
    <2>1. CASE i = n - 1  BY <2>0, <2>1, <1>0, <1>1 DEF Level, Io!Top
    <2>2. CASE i # n - 1
      <3>1. i + 1 \in 1..n-1  BY <2>2, <1>0
      <3> QED BY <2>0, <2>2, <3>1, <1>1 DEF Level
    <2> QED BY <2>1, <2>2
  <1>5. ASSUME NEW i \in 0..n-1 PROVE Owned(Level(slots', constructs', i), i, constructs')
    <2>1. i \in 0..n  BY <1>0
    <2>2. Owned(Level(slots, constructs, i), i, constructs)  BY <2>1 DEF IoInv
    <2>3. \A j \in 1..i : constructs'[j] = constructs[j]  BY <1>1
    <2> QED BY <2>2, <2>3, <1>4 DEF Owned
  <1>6. ASSUME NEW i \in 1..n-1
        PROVE  /\ Shape(constructs'[i], i)
               /\ \A fd \in Io!Fds \ constructs'[i].touched : Level(slots', constructs', i)[fd] = constructs'[i].orig[fd]
    <2>1. i \in 1..n /\ i \in 0..n-1  BY <1>0
    <2>2. /\ Shape(constructs[i], i)
          /\ \A fd \in Io!Fds \ constructs[i].touched : Level(slots, constructs, i)[fd] = constructs[i].orig[fd]
      BY <2>1 DEF IoInv
    <2> QED BY <2>1, <2>2, <1>1, <1>4
  <1> QED BY <1>0, <1>1, <1>3, <1>5, <1>6 DEF IoInv

(* The invariant, for the innermost construct.                             *)
LEMMA InnermostIs ==
  ASSUME IoInv, constructs # <<>>
  PROVE  /\ Len(constructs) \in Nat /\ Len(constructs) \in 1..Len(constructs)
         /\ Io!Top = constructs[Len(constructs)] /\ Io!Top \in Construct /\ Shape(Io!Top, Len(constructs))
         /\ \A fd \in Io!Fds \ Io!Top.touched : slots[fd] = Io!Top.orig[fd]
         /\ Owned(Io!Top.orig, Len(constructs) - 1, constructs) /\ Io!Top.orig \in Streams
         /\ Owned(slots, Len(constructs), constructs)
         /\ Io!Top.phase # "run" => slots = Io!Top.orig
  <1>a. constructs \in Seq(Construct)  BY DEF IoInv, IoTypes
  <1> PICK n \in Nat : n = Len(constructs)  BY <1>a
  <1>1. n \in 1..n /\ n - 1 \in 0..n /\ n \in 0..n /\ n - 1 # n /\ (n - 1) + 1 = n  BY <1>a
  <1>2. Io!Top = constructs[n]  BY DEF Io!Top
  <1>3. Io!Top \in Construct  BY <1>1, <1>2, <1>a
  <1>4. Level(slots, constructs, n) = slots /\ Level(slots, constructs, n - 1) = Io!Top.orig
    BY <1>1, <1>2 DEF Level
  <1>5. Owned(Io!Top.orig, n - 1, constructs) /\ Owned(slots, n, constructs)
    <2>1. \A i \in 0..n : Owned(Level(slots, constructs, i), i, constructs)  BY DEF IoInv
    <2> QED BY <2>1, <1>1, <1>4
  <1>6. Shape(Io!Top, n) /\ \A fd \in Io!Fds \ Io!Top.touched : slots[fd] = Io!Top.orig[fd]
    <2>1. \A i \in 1..n : /\ Shape(constructs[i], i)
                          /\ \A fd \in Io!Fds \ constructs[i].touched :
                               Level(slots, constructs, i)[fd] = constructs[i].orig[fd]
      BY DEF IoInv
    <2> QED BY <2>1, <1>1, <1>2, <1>4
  <1>7. Io!Top.orig \in Streams /\ slots \in Streams  BY <1>3 DEF Construct, IoInv, IoTypes
  <1>8. Io!Top.phase # "run" => slots = Io!Top.orig
    <2> SUFFICES ASSUME Io!Top.phase # "run" PROVE slots = Io!Top.orig  OBVIOUS
    <2>1. Io!Top.touched = {}  BY <1>6 DEF Shape
    <2>2. \A fd \in Io!Fds : slots[fd] = Io!Top.orig[fd]  BY <2>1, <1>6
    <2> QED BY <2>2, <1>7 DEF Streams
  <1> QED BY <1>1, <1>2, <1>3, <1>5, <1>6, <1>7, <1>8

(* The invariant, for the streams and files as they are.                   *)
LEMMA FilesNow ==
  ASSUME IoInv
  PROVE  /\ Io!Files \in FileSystem /\ Io!Files.slots = slots /\ Io!Files.names = names
         /\ Io!Files.content = content /\ Io!Files.touched = {} /\ Io!Files.ok
         /\ slots \in Streams /\ OneName(names) /\ constructs \in Seq(Construct)
         /\ names \in [Io!Ids -> Files] /\ content \in [Files -> Seq(Tokens)]
         /\ Len(constructs) \in Nat /\ Owned(slots, Len(constructs), constructs)
  <1>1. /\ slots \in Streams /\ OneName(names) /\ constructs \in Seq(Construct)
        /\ names \in [Io!Ids -> Files] /\ content \in [Files -> Seq(Tokens)]
    BY DEF IoInv, IoTypes
  <1>2. Len(constructs) \in 0..Len(constructs) /\ Len(constructs) \in Nat  BY <1>1
  <1>3. Owned(slots, Len(constructs), constructs)  BY <1>2 DEF IoInv, Level
  <1> QED BY <1>1, <1>2, <1>3 DEF Io!Files, FileSystem

(* A construct that begins has touched and written nothing.                *)
LEMMA FreshFrame ==
  ASSUME IoInv, NEW kind \in {"pipe", "subst", "redir"}, NEW phase \in {"next", "run", "build"}, NEW id \in Io!Ids
  PROVE  /\ Io!Frame(kind, phase, id) \in Construct
         /\ Io!Frame(kind, phase, id).kind = kind /\ Io!Frame(kind, phase, id).phase = phase
         /\ Io!Frame(kind, phase, id).id = id /\ Io!Frame(kind, phase, id).orig = slots
         /\ Io!Frame(kind, phase, id).touched = {} /\ Io!Frame(kind, phase, id).docs = 0
         /\ Io!Frame(kind, phase, id).stage = 0 /\ Io!Frame(kind, phase, id).items = <<>>
         /\ Io!Frame(kind, phase, id).in = Io!None /\ Io!Frame(kind, phase, id).out = Io!None
         /\ Io!Frame(kind, phase, id).wrote = <<>>
  BY FilesNow DEF Io!Frame, Construct, Files

(* The model's Cardinality is the one the theorems about it speak of.      *)
LEMMA SameCount ==
  ASSUME NEW S, IsFiniteSet(S) PROVE Io!Cardinality(S) = Cardinality(S)
  BY DEF Io!Cardinality, Cardinality, Io!IsFiniteSet, IsFiniteSet

(* The number of constructs of a kind is a number.                         *)
LEMMA ActiveCounts ==
  ASSUME IoInv, NEW kind
  PROVE  Io!Active(kind) \in Nat
  <1>1. IsFiniteSet(1..Len(constructs)) /\ DOMAIN constructs = 1..Len(constructs)
    BY FilesNow, FS_Interval
  <1>2. IsFiniteSet({i \in DOMAIN constructs : constructs[i].kind = kind})  BY <1>1, FS_Subset
  <1> QED BY <1>2, SameCount, FS_CardinalityType DEF Io!Active

(* What belongs to the constructs there are belongs to them when one is    *)
(* added, and what belongs to none that the innermost made, when that changes.*)
LEMMA OwnedStays ==
  ASSUME NEW cs, NEW dd, NEW n \in Nat, \A i \in 1..n : dd[i] = cs[i] \/ dd[i].out = cs[i].out,
         NEW s, s \in Streams, Owned(s, n, cs), NEW m \in Nat, n <= m
  PROVE  Owned(s, m, dd)
  <1>1. \A fd \in Io!Fds : s[fd].by \in Nat  BY DEF Streams
  <1> QED BY <1>1 DEF Owned

(* The files of a stage: the one it reads, of the stage before it, is not  *)
(* the one it writes.                                                      *)
StageIn(f) == IF f.stage = 0 THEN -3 ELSE Io!OutOf(f, f.stage - 1)
StageOut(f) == Io!OutOf(f, f.stage)

(* What exec_pipe redirects for a stage is proper, and ends with stdout for*)
(* all stages but the last.                                                *)
LEMMA StageItemsProper ==
  ASSUME NEW f \in Construct, NEW n \in Nat
  PROVE  LET items == Io!StageItems(f, n) IN
         /\ items \in Seq(Items)
         /\ \A k \in 1..Len(items) : /\ Proper(items[k], n, StageIn(f), StageOut(f))
                                     /\ items[k].op \in {"in", "out"}
         /\ StageIn(f) \in Int /\ StageOut(f) \in Int \ {StageIn(f)}
         /\ f.stage # f.stages - 1 => items # <<>> /\ items[Len(items)].fd = 1
  <1> DEFINE a == Io!Item("in", 0, StageIn(f), n)
             b == Io!Item("out", 1, StageOut(f), n)
             items == Io!StageItems(f, n)
  <1>1. f.stage \in Nat /\ f.id \in Nat /\ f.stages \in Nat  BY DEF Construct, Io!Ids
  <1>2. StageIn(f) \in Int /\ StageOut(f) \in Int \ {StageIn(f)}
    <2>1. StageOut(f) \in Int /\ StageOut(f) >= 0  BY <1>1 DEF StageOut, Io!OutOf
    <2>2. CASE f.stage = 0  BY <2>1, <2>2 DEF StageIn
    <2>3. CASE f.stage # 0
      <3>1. (f.stage - 1) % 2 # f.stage % 2 /\ f.stage % 2 \in {0, 1} /\ (f.stage - 1) % 2 \in {0, 1}
        BY <1>1, <2>3
      <3> QED BY <3>1, <2>3, <1>1 DEF StageIn, StageOut, Io!OutOf
    <2> QED BY <2>2, <2>3
  <1>3. /\ a \in Items /\ a.op = "in" /\ a.fd = 0 /\ a.by = n /\ a.id = StageIn(f)
        /\ b \in Items /\ b.op = "out" /\ b.fd = 1 /\ b.by = n /\ b.id = StageOut(f)
    BY <1>2 DEF Io!Item, Items, Io!Fds
  <1>4. items = (IF f.stage = 0 THEN <<>> ELSE <<a>>) \o (IF f.stage = f.stages - 1 THEN <<>> ELSE <<b>>)
    BY DEF Io!StageItems, StageIn, StageOut
  <1> HIDE DEF a, b, items
  <1>5. Proper(a, n, StageIn(f), StageOut(f)) /\ Proper(b, n, StageIn(f), StageOut(f))
    BY <1>3 DEF Proper
  <1>6. CASE f.stage = 0 /\ f.stage = f.stages - 1
    <2>1. items = <<>> \o <<>>  BY <1>4, <1>6
    <2>2. Len(items) = 0 /\ items \in Seq(Items)  BY <2>1
    <2>3. 1..0 = {}  OBVIOUS
    <2> QED BY <2>2, <2>3, <1>2, <1>6 DEF items
  <1>7. CASE f.stage = 0 /\ f.stage # f.stages - 1
    <2>1. items = <<b>>  BY <1>4, <1>7
    <2>2. Len(items) = 1 /\ items[1] = b /\ items # <<>> /\ items \in Seq(Items)  BY <2>1, <1>3
    <2> QED BY <2>2, <1>2, <1>3, <1>5 DEF items
  <1>8. CASE f.stage # 0 /\ f.stage = f.stages - 1
    <2>1. items = <<a>>  BY <1>4, <1>8
    <2>2. Len(items) = 1 /\ items[1] = a /\ items # <<>> /\ items \in Seq(Items)  BY <2>1, <1>3
    <2> QED BY <2>2, <1>2, <1>3, <1>5, <1>8 DEF items
  <1>9. CASE f.stage # 0 /\ f.stage # f.stages - 1
    <2>1. items = <<a>> \o <<b>>  BY <1>4, <1>9
    <2>2. Len(items) = 2 /\ items[1] = a /\ items[2] = b /\ items # <<>> /\ items \in Seq(Items)
      BY <2>1, <1>3
    <2>3. \A k \in 1..Len(items) : items[k] = a \/ items[k] = b  BY <2>2
    <2> QED BY <2>2, <2>3, <1>2, <1>3, <1>5 DEF items
  <1> QED BY <1>6, <1>7, <1>8, <1>9

(* The streams as they were before the i-th construct, or the n-th's own   *)
(* output, belong where they should.                                       *)
LEMMA ServedOwned ==
  ASSUME NEW fs, NEW y \in FileSystem, NEW n \in Nat \ {0}, NEW src, NEW dst, NEW cs, NEW dd,
         Served(fs, y, n, src, dst), Owned(fs.slots, n - 1, cs),
         \A i \in 1..n-1 : dd[i] = cs[i],
         1 \in y.touched /\ dst \in Io!Ids => dd[n].out = y.names[dst]
  PROVE  Owned(y.slots, n, dd)
  <1>1. \A fd \in Io!Fds : y.slots[fd].by <= n  BY DEF Served
  <1>2. ASSUME NEW fd \in {1, 2}, y.slots[fd].ino # Io!None
        PROVE  y.slots[fd].by \in 1..n /\ dd[y.slots[fd].by].out = y.slots[fd].ino
    <2>1. CASE \E g \in {1, 2} : y.slots[fd] = fs.slots[g]  BY <1>2, <2>1 DEF Owned
    <2>2. CASE /\ dst \in Io!Ids /\ 1 \in y.touched
               /\ y.slots[fd].by = n /\ y.slots[fd].ino = y.names[dst]
      BY <2>2
    <2> QED BY <1>2, <2>1, <2>2 DEF Served
  <1> QED BY <1>1, <1>2 DEF Owned

(* When each construct has files of its own: pipelines are not nested when *)
(* there are substitutions or here-documents, these do not occur together, *)
(* and there is one command with a here-document at a time.  Otherwise     *)
(* their numbers meet (ShellTemp.cfg).                                     *)
OwnFiles ==
  /\ MaxPipes <= 1 \/ (MaxSubsts = 0 /\ MaxDocs = 0)
  /\ MaxSubsts = 0 \/ MaxDocs = 0
  /\ MaxDocs <= 1

(* The numbers of the files a construct uses.                              *)
Own(c) == {id \in Io!Ids : \/ c.kind = "pipe" /\ id \in {c.id, c.id + 1}
                           \/ c.kind = "subst" /\ id = c.id
                           \/ c.docs > 0 /\ id = 2}

(* What the files of a construct hold.                                     *)
DataOf(c, nm, ct) ==
  /\ c.kind = "subst" => nm[c.id] = c.out /\ ct[c.out] = c.wrote
  /\ c.kind = "pipe" /\ c.phase = "run" =>
       /\ c.out # Io!None => nm[StageOut(c)] = c.out /\ ct[c.out] = c.wrote
       /\ c.in # Io!None => c.stage # 0 /\ nm[StageIn(c)] = c.in /\ ct[c.in] = c.read
       /\ c.stage # c.stages - 1 => c.out # Io!None
  /\ c.kind = "pipe" /\ c.phase = "next" /\ c.stage \in 1 .. c.stages - 1 =>
       nm[StageIn(c)] # Io!None /\ ct[nm[StageIn(c)]] = c.read
  /\ c.docs > 0 => nm[2] # Io!None /\ ct[nm[2]] = c.read
  /\ c.kind = "redir" /\ c.in # Io!None => c.docs > 0 /\ nm[2] = c.in

(* The file a stage writes is one of its pipeline's.                       *)
LEMMA StagesOwn ==
  ASSUME NEW c \in Construct, c.kind = "pipe"
  PROVE  {StageOut(c)} \cap Io!Ids \in SUBSET Own(c)
  <1>1. c.id \in Int /\ c.stage \in Nat  BY DEF Construct, Io!Ids
  <1> QED BY <1>1 DEF Own, StageOut, Io!OutOf

(* Constructs of a kind are numbered from outside inwards.                 *)
Before(cs, i, kind) == Cardinality({j \in 1..i-1 : cs[j].kind = kind})
Ordered(cs) ==
  /\ \A i \in 1..Len(cs) : /\ cs[i].kind = "pipe" => cs[i].id = 2 * Before(cs, i, "pipe")
                           /\ cs[i].kind = "subst" => cs[i].id = 2 + Before(cs, i, "subst")
  /\ \A i, j \in 1..Len(cs) : i # j => cs[i].docs = 0 \/ cs[j].docs = 0

(* Constructs that have the shape of their kind.                           *)
Shaped(cs) == cs \in Seq(Construct) /\ \A i \in 1..Len(cs) : Shape(cs[i], i)

(* The files of all constructs hold what they should.                      *)
DataInv == Ordered(constructs) /\ \A i \in 1..Len(constructs) : DataOf(constructs[i], names, content)

(* Those in progress have.                                                 *)
LEMMA ShapedNow == ASSUME IoInv PROVE Shaped(constructs)
  BY DEF IoInv, IoTypes, Shaped

(* There are finitely many outside a construct.                            *)
LEMMA BeforeFinite ==
  ASSUME NEW cs, NEW i \in Nat, NEW kind
  PROVE  IsFiniteSet({j \in 1..i-1 : cs[j].kind = kind}) /\ Before(cs, i, kind) \in Nat
  <1>1. IsFiniteSet(1..i-1)  BY FS_Interval
  <1>2. IsFiniteSet({j \in 1..i-1 : cs[j].kind = kind})  BY <1>1, FS_Subset
  <1> QED BY <1>2, FS_CardinalityType DEF Before

(* The next of a kind has one more outside it.                             *)
LEMMA BeforeGrows ==
  ASSUME NEW cs, NEW j \in Nat, NEW i \in 1..j-1, NEW kind, cs[i].kind = kind
  PROVE  Before(cs, i, kind) \in Nat /\ Before(cs, j, kind) \in Nat
         /\ Before(cs, i, kind) + 1 <= Before(cs, j, kind)
  <1> DEFINE A == {k \in 1..i-1 : cs[k].kind = kind}
             B == {k \in 1..j-1 : cs[k].kind = kind}
  <1>1. IsFiniteSet(A) /\ IsFiniteSet(B) /\ Before(cs, i, kind) \in Nat /\ Before(cs, j, kind) \in Nat
    <2>1. i \in Nat  OBVIOUS
    <2> QED BY <2>1, BeforeFinite
  <1>2. i \notin A /\ A \cup {i} \in SUBSET B  OBVIOUS
  <1> HIDE DEF A, B
  <1>3. Cardinality(A \cup {i}) = Cardinality(A) + 1  BY <1>1, <1>2, FS_AddElement
  <1>4. Cardinality(A \cup {i}) <= Cardinality(B)  BY <1>1, <1>2, FS_Subset
  <1> QED BY <1>1, <1>3, <1>4 DEF A, B, Before

(* So no two have a file in common.                                        *)
LEMMA Separate ==
  ASSUME StreamConstants, OwnFiles, NEW cs, Shaped(cs), Ordered(cs),
         NEW i \in 1..Len(cs), NEW j \in 1..Len(cs), i # j
  PROVE  Own(cs[i]) \cap Own(cs[j]) = {}
  <1>0. /\ cs[i] \in Construct /\ cs[j] \in Construct /\ Shape(cs[i], i) /\ Shape(cs[j], j)
        /\ Len(cs) \in Nat
    BY DEF Shaped
  <1>1. /\ cs[i].docs \in Nat /\ cs[j].docs \in Nat /\ cs[i].id \in Nat /\ cs[j].id \in Nat
        /\ cs[i].kind \in {"pipe", "subst", "redir"} /\ cs[j].kind \in {"pipe", "subst", "redir"}
    <2>1. \A c \in Construct : c.docs \in Nat /\ c.id \in Io!Ids /\ c.kind \in {"pipe", "subst", "redir"}
      BY DEF Construct
    <2>2. \A id \in Io!Ids : id \in Nat  BY DEF Io!Ids
    <2> QED BY <1>0, <2>1, <2>2
  <1>2. ASSUME cs[i].kind = "pipe", cs[j].kind = "pipe"
        PROVE  cs[i].id + 2 <= cs[j].id \/ cs[j].id + 2 <= cs[i].id
    <2>1. CASE i < j
      <3>1. j \in Nat /\ i \in 1..j-1  BY <1>0, <2>1
      <3>2. cs[i].id = 2 * Before(cs, i, "pipe") /\ cs[j].id = 2 * Before(cs, j, "pipe")
        BY <1>2 DEF Ordered
      <3>3. Before(cs, i, "pipe") \in Nat /\ Before(cs, j, "pipe") \in Nat
            /\ Before(cs, i, "pipe") + 1 <= Before(cs, j, "pipe")
        BY <3>1, <1>2, BeforeGrows
      <3> QED BY <3>2, <3>3
    <2>2. CASE j < i
      <3>1. i \in Nat /\ j \in 1..i-1  BY <1>0, <2>2
      <3>2. cs[i].id = 2 * Before(cs, i, "pipe") /\ cs[j].id = 2 * Before(cs, j, "pipe")
        BY <1>2 DEF Ordered
      <3>3. Before(cs, i, "pipe") \in Nat /\ Before(cs, j, "pipe") \in Nat
            /\ Before(cs, j, "pipe") + 1 <= Before(cs, i, "pipe")
        BY <3>1, <1>2, BeforeGrows
      <3> QED BY <3>2, <3>3
    <2> QED BY <1>0, <2>1, <2>2
  <1>3. ASSUME cs[i].kind = "subst", cs[j].kind = "subst"
        PROVE  cs[i].id # cs[j].id
    <2>1. CASE i < j
      <3>1. j \in Nat /\ i \in 1..j-1  BY <1>0, <2>1
      <3>2. cs[i].id = 2 + Before(cs, i, "subst") /\ cs[j].id = 2 + Before(cs, j, "subst")
        BY <1>3 DEF Ordered
      <3>3. Before(cs, i, "subst") \in Nat /\ Before(cs, j, "subst") \in Nat
            /\ Before(cs, i, "subst") + 1 <= Before(cs, j, "subst")
        BY <3>1, <1>3, BeforeGrows
      <3> QED BY <3>2, <3>3
    <2>2. CASE j < i
      <3>1. i \in Nat /\ j \in 1..i-1  BY <1>0, <2>2
      <3>2. cs[i].id = 2 + Before(cs, i, "subst") /\ cs[j].id = 2 + Before(cs, j, "subst")
        BY <1>3 DEF Ordered
      <3>3. Before(cs, i, "subst") \in Nat /\ Before(cs, j, "subst") \in Nat
            /\ Before(cs, j, "subst") + 1 <= Before(cs, i, "subst")
        BY <3>1, <1>3, BeforeGrows
      <3> QED BY <3>2, <3>3
    <2> QED BY <1>0, <2>1, <2>2
  <1>4. ASSUME NEW a \in {cs[i], cs[j]}
        PROVE  /\ a.docs > 0 => a.kind = "redir" /\ MaxDocs > 0
               /\ a.kind = "pipe" => a.id <= 2 * MaxPipes - 2
               /\ a.kind = "subst" => a.id >= 2 /\ MaxSubsts > 0
    BY <1>0, <1>1 DEF Shape
  <1>5. ~ (cs[i].docs > 0 /\ cs[j].docs > 0)  BY <1>1 DEF Ordered
  <1>6. \A a, b \in {cs[i], cs[j]} : a.kind = "pipe" /\ (b.kind = "subst" \/ b.docs > 0) => a.id + 1 < 2
    BY <1>1, <1>4 DEF StreamConstants, OwnFiles
  <1>7. \A a, b \in {cs[i], cs[j]} : ~ (a.kind = "subst" /\ b.docs > 0)
    BY <1>1, <1>4 DEF StreamConstants, OwnFiles
  <1>8. ASSUME NEW id \in Own(cs[i]), id \in Own(cs[j]) PROVE FALSE
    <2>1. /\ id \in Int
          /\ \/ cs[i].kind = "pipe" /\ id \in {cs[i].id, cs[i].id + 1}
             \/ cs[i].kind = "subst" /\ id = cs[i].id
             \/ cs[i].docs > 0 /\ id = 2
          /\ \/ cs[j].kind = "pipe" /\ id \in {cs[j].id, cs[j].id + 1}
             \/ cs[j].kind = "subst" /\ id = cs[j].id
             \/ cs[j].docs > 0 /\ id = 2
      BY <1>8 DEF Own, Io!Ids
    <2> QED BY <2>1, <1>1, <1>2, <1>3, <1>4, <1>5, <1>6, <1>7
  <1> QED BY <1>8

(* What is done to other files does not matter.                            *)
LEMMA DataStays ==
  ASSUME StreamConstants, NEW c \in Construct, NEW i, Shape(c, i), NEW nm, NEW ct, NEW nn, NEW cc, NEW own,
         DataOf(c, nm, ct), Elsewhere(nm, ct, nn, cc, own), own \cap Own(c) = {}
  PROVE  DataOf(c, nn, cc)
  <1>1. c.id \in Nat /\ c.id \in Io!Ids /\ c.stage \in Nat /\ c.docs \in Nat  BY DEF Construct, Io!Ids
  <1>2. ASSUME c.kind = "pipe"
        PROVE  StageOut(c) \in Own(c) /\ (c.stage # 0 => StageIn(c) \in Own(c))
    <2>1. c.id + 1 \in Io!Ids  BY <1>1, <1>2 DEF Shape, Io!Ids, StreamConstants
    <2> QED BY <1>1, <1>2, <2>1 DEF Own, StageOut, StageIn, Io!OutOf
  <1>3. c.kind = "subst" => c.id \in Own(c)  BY <1>1 DEF Own
  <1>4. c.docs > 0 => 2 \in Own(c)  BY DEF Own, Io!Ids, StreamConstants
  <1>5. \A id \in Own(c) : nn[id] = nm[id] /\ (nm[id] # Io!None => cc[nm[id]] = ct[nm[id]])
    BY DEF Elsewhere, Own
  <1>6. c.kind = "subst" => c.out # Io!None  BY DEF Shape
  <1>7. c.kind = "subst" => nn[c.id] = c.out /\ cc[c.out] = c.wrote
    BY <1>3, <1>5, <1>6 DEF DataOf
  <1>8. c.docs > 0 => nn[2] # Io!None /\ cc[nn[2]] = c.read
    BY <1>4, <1>5 DEF DataOf
  <1>9. c.kind = "redir" /\ c.in # Io!None => c.docs > 0 /\ nn[2] = c.in
    BY <1>4, <1>5 DEF DataOf
  <1>10. c.kind = "pipe" /\ c.phase = "run" =>
           /\ c.out # Io!None => nn[StageOut(c)] = c.out /\ cc[c.out] = c.wrote
           /\ c.in # Io!None => c.stage # 0 /\ nn[StageIn(c)] = c.in /\ cc[c.in] = c.read
           /\ c.stage # c.stages - 1 => c.out # Io!None
    BY <1>2, <1>5 DEF DataOf
  <1>11. c.kind = "pipe" /\ c.phase = "next" /\ c.stage \in 1 .. c.stages - 1 =>
           nn[StageIn(c)] # Io!None /\ cc[nn[StageIn(c)]] = c.read
    BY <1>2, <1>5 DEF DataOf
  <1> QED BY <1>7, <1>8, <1>9, <1>10, <1>11 DEF DataOf

(* The count depends on the kinds only.                                    *)
LEMMA BeforeSame ==
  ASSUME NEW cs, NEW dd, NEW i, NEW kind, \A j \in 1..i-1 : dd[j].kind = cs[j].kind
  PROVE  Before(dd, i, kind) = Before(cs, i, kind)
  <1>1. {j \in 1..i-1 : dd[j].kind = kind} = {j \in 1..i-1 : cs[j].kind = kind}  OBVIOUS
  <1> QED BY <1>1 DEF Before

(* A construct that begins gets the next number of its kind.               *)
LEMMA OrderedBegins ==
  ASSUME IoInv, Ordered(constructs), NEW c \in Construct, Io!Push(c), c.docs = 0,
         c.kind = "pipe" => c.id = 2 * Io!Active("pipe"), c.kind = "subst" => c.id = Io!SubstId
  PROVE  Ordered(constructs')
  <1>a. constructs \in Seq(Construct) /\ Len(constructs) \in Nat  BY FilesNow
  <1> PICK n \in Nat : n = Len(constructs)  BY <1>a
  <1>1. /\ Len(constructs') = n + 1 /\ constructs'[n+1] = c
        /\ \A i \in 1..n : constructs'[i] = constructs[i]
    BY <1>a DEF Io!Push
  <1>2. ASSUME NEW kind PROVE Before(constructs', n + 1, kind) = Io!Active(kind)
    <2>1. \A j \in 1..(n+1)-1 : constructs'[j].kind = constructs[j].kind  BY <1>1
    <2>2. Before(constructs', n + 1, kind) = Before(constructs, n + 1, kind)  BY <2>1, BeforeSame
    <2>3. {j \in 1..(n+1)-1 : constructs[j].kind = kind} = {j \in DOMAIN constructs : constructs[j].kind = kind}
      BY <1>a
    <2>4. IsFiniteSet({j \in 1..(n+1)-1 : constructs[j].kind = kind})
      <3>1. IsFiniteSet(1..(n+1)-1)  BY FS_Interval
      <3> QED BY <3>1, FS_Subset
    <2> QED BY <2>2, <2>3, <2>4, SameCount DEF Before, Io!Active
  <1>3. ASSUME NEW i \in 1..n+1
        PROVE  /\ constructs'[i].kind = "pipe" => constructs'[i].id = 2 * Before(constructs', i, "pipe")
               /\ constructs'[i].kind = "subst" => constructs'[i].id = 2 + Before(constructs', i, "subst")
    <2>1. CASE i = n + 1  BY <2>1, <1>1, <1>2 DEF Io!SubstId
    <2>2. CASE i # n + 1
      <3>1. i \in 1..n /\ \A j \in 1..i-1 : constructs'[j].kind = constructs[j].kind  BY <2>2, <1>1
      <3>2. /\ Before(constructs', i, "pipe") = Before(constructs, i, "pipe")
            /\ Before(constructs', i, "subst") = Before(constructs, i, "subst")
        BY <3>1, BeforeSame
      <3> QED BY <3>1, <3>2, <1>1 DEF Ordered
    <2> QED BY <2>1, <2>2
  <1>4. \A i, j \in 1..n+1 : i # j => constructs'[i].docs = 0 \/ constructs'[j].docs = 0
    <2>1. \A i \in 1..n+1 : i = n + 1 \/ i \in 1..n  OBVIOUS
    <2> QED BY <2>1, <1>1 DEF Ordered
  <1> QED BY <1>1, <1>3, <1>4 DEF Ordered

(* Numbers stay while kinds and documents do.                              *)
LEMMA OrderedGoesOn ==
  ASSUME IoInv, Ordered(constructs), NEW n \in Nat, n = Len(constructs), Len(constructs') = n,
         \A i \in 1..n : constructs'[i].kind = constructs[i].kind /\ constructs'[i].id = constructs[i].id,
         \/ \A i \in 1..n : constructs'[i].docs = constructs[i].docs
         \/ \A i \in 1..n-1 : constructs'[i].docs = 0
  PROVE  Ordered(constructs')
  <1>1. ASSUME NEW i \in 1..n
        PROVE  /\ constructs'[i].kind = "pipe" => constructs'[i].id = 2 * Before(constructs', i, "pipe")
               /\ constructs'[i].kind = "subst" => constructs'[i].id = 2 + Before(constructs', i, "subst")
    <2>1. \A j \in 1..i-1 : constructs'[j].kind = constructs[j].kind  OBVIOUS
    <2>2. /\ Before(constructs', i, "pipe") = Before(constructs, i, "pipe")
          /\ Before(constructs', i, "subst") = Before(constructs, i, "subst")
      BY <2>1, BeforeSame
    <2> QED BY <2>2 DEF Ordered
  <1>2. \A i, j \in 1..n : i # j => constructs'[i].docs = 0 \/ constructs'[j].docs = 0
    <2>1. CASE \A i \in 1..n : constructs'[i].docs = constructs[i].docs  BY <2>1 DEF Ordered
    <2>2. CASE \A i \in 1..n-1 : constructs'[i].docs = 0
      <3>1. \A i \in 1..n : i = n \/ i \in 1..n-1  OBVIOUS
      <3> QED BY <2>2, <3>1
    <2> QED BY <2>1, <2>2
  <1> QED BY <1>1, <1>2 DEF Ordered

(* When the innermost ends, the others keep theirs.                        *)
LEMMA OrderedEnds ==
  ASSUME IoInv, Ordered(constructs), constructs # <<>>, Io!Pop
  PROVE  Ordered(constructs') /\ Len(constructs') = Len(constructs) - 1
         /\ \A i \in 1..Len(constructs'): constructs'[i] = constructs[i] /\ i \in 1..Len(constructs) /\ i # Len(constructs)
  <1>a. constructs \in Seq(Construct) /\ Len(constructs) \in Nat  BY FilesNow
  <1> PICK n \in Nat : n = Len(constructs)  BY <1>a
  <1>1. n \in 1..n  BY <1>a
  <1>2. Len(constructs') = n - 1 /\ \A i \in 1..n-1 : constructs'[i] = constructs[i]
    BY <1>a, <1>1 DEF Io!Pop, Io!Front
  <1>3. ASSUME NEW i \in 1..n-1
        PROVE  /\ constructs'[i].kind = "pipe" => constructs'[i].id = 2 * Before(constructs', i, "pipe")
               /\ constructs'[i].kind = "subst" => constructs'[i].id = 2 + Before(constructs', i, "subst")
    <2>1. \A j \in 1..i-1 : constructs'[j].kind = constructs[j].kind  BY <1>2
    <2>2. /\ Before(constructs', i, "pipe") = Before(constructs, i, "pipe")
          /\ Before(constructs', i, "subst") = Before(constructs, i, "subst")
      BY <2>1, BeforeSame
    <2>3. i \in 1..n  OBVIOUS
    <2> QED BY <1>2, <2>2, <2>3 DEF Ordered
  <1>4. \A i, j \in 1..n-1 : i # j => constructs'[i].docs = 0 \/ constructs'[j].docs = 0
    <2>1. \A i \in 1..n-1 : i \in 1..n  OBVIOUS
    <2> QED BY <1>2, <2>1 DEF Ordered
  <1>5. \A i \in 1..n-1 : i \in 1..n /\ i # n  OBVIOUS
  <1> QED BY <1>2, <1>3, <1>4, <1>5 DEF Ordered

(* The data of the other constructs stay, for their files are others.      *)
LEMMA DataBegins ==
  ASSUME StreamConstants, OwnFiles, IoInv, IoInv', DataInv, NEW c \in Construct, Io!Push(c), c.docs = 0,
         c.kind = "pipe" => c.id = 2 * Io!Active("pipe"), c.kind = "subst" => c.id = Io!SubstId,
         NEW own \in SUBSET Own(c), Elsewhere(names, content, names', content', own),
         DataOf(c, names', content')
  PROVE  DataInv'
  <1>1. Ordered(constructs')  BY OrderedBegins DEF DataInv
  <1>2. Shaped(constructs) /\ Shaped(constructs')  BY ShapedNow DEF Shaped, IoInv, IoTypes
  <1>a. constructs \in Seq(Construct) /\ Len(constructs) \in Nat  BY FilesNow
  <1> PICK n \in Nat : n = Len(constructs)  BY <1>a
  <1>3. /\ Len(constructs') = n + 1 /\ constructs'[n+1] = c
        /\ \A i \in 1..n : constructs'[i] = constructs[i]
    BY <1>a DEF Io!Push
  <1>4. ASSUME NEW i \in 1..n+1 PROVE DataOf(constructs'[i], names', content')
    <2>1. CASE i = n + 1  BY <2>1, <1>3
    <2>2. CASE i # n + 1
      <3>1. i \in 1..n /\ n + 1 \in 1..n+1  BY <2>2
      <3>2. Own(constructs'[i]) \cap Own(constructs'[n+1]) = {}  BY <1>1, <1>2, <1>3, <2>2, <3>1, Separate
      <3>3. own \cap Own(constructs[i]) = {}  BY <1>3, <3>1, <3>2
      <3>4. constructs[i] \in Construct /\ Shape(constructs[i], i) /\ DataOf(constructs[i], names, content)
        BY <1>2, <3>1 DEF Shaped, DataInv
      <3>5. DataOf(constructs[i], names', content')  BY <3>3, <3>4, DataStays
      <3> QED BY <1>3, <3>1, <3>5
    <2> QED BY <2>1, <2>2
  <1> QED BY <1>1, <1>3, <1>4 DEF DataInv

(* The same when the innermost goes on.                                    *)
LEMMA DataGoesOn ==
  ASSUME StreamConstants, OwnFiles, IoInv, IoInv', DataInv, constructs # <<>>,
         NEW c \in Construct, Io!SetTop(c), c.kind = Io!Top.kind, c.id = Io!Top.id,
         c.docs = Io!Top.docs \/ \A i \in 1..Len(constructs) - 1 : constructs[i].docs = 0,
         NEW own \in SUBSET Own(c), Elsewhere(names, content, names', content', own),
         DataOf(c, names', content')
  PROVE  DataInv'
  <1>2. Shaped(constructs) /\ Shaped(constructs')  BY ShapedNow DEF Shaped, IoInv, IoTypes
  <1>a. constructs \in Seq(Construct) /\ Len(constructs) \in Nat  BY FilesNow
  <1> PICK n \in Nat : n = Len(constructs)  BY <1>a
  <1>0. n \in 1..n /\ Io!Top = constructs[n]  BY <1>a DEF Io!Top
  <1>3. /\ Len(constructs') = n /\ constructs'[n] = c
        /\ \A i \in 1..n-1 : constructs'[i] = constructs[i]
        /\ \A i \in 1..n : i # n => constructs'[i] = constructs[i]
    BY <1>a, <1>0 DEF Io!SetTop
  <1>1. Ordered(constructs')
    <2>1. \A i \in 1..n : constructs'[i].kind = constructs[i].kind /\ constructs'[i].id = constructs[i].id
      BY <1>0, <1>3
    <2>2. \/ \A i \in 1..n : constructs'[i].docs = constructs[i].docs
          \/ \A i \in 1..n-1 : constructs'[i].docs = 0
      BY <1>0, <1>3
    <2> QED BY <1>3, <2>1, <2>2, OrderedGoesOn DEF DataInv
  <1>4. ASSUME NEW i \in 1..n PROVE DataOf(constructs'[i], names', content')
    <2>1. CASE i = n  BY <2>1, <1>3
    <2>2. CASE i # n
      <3>2. Own(constructs'[i]) \cap Own(constructs'[n]) = {}  BY <1>0, <1>1, <1>2, <1>3, <2>2, Separate
      <3>3. own \cap Own(constructs[i]) = {}  BY <1>3, <2>2, <3>2
      <3>4. constructs[i] \in Construct /\ Shape(constructs[i], i) /\ DataOf(constructs[i], names, content)
        BY <1>2 DEF Shaped, DataInv
      <3>5. DataOf(constructs[i], names', content')  BY <3>3, <3>4, DataStays
      <3> QED BY <1>3, <2>2, <3>5
    <2> QED BY <2>1, <2>2
  <1> QED BY <1>1, <1>3, <1>4 DEF DataInv

(* The same when it ends.                                                  *)
LEMMA DataEnds ==
  ASSUME StreamConstants, OwnFiles, IoInv, DataInv, constructs # <<>>, Io!Pop,
         NEW own \in SUBSET Own(Io!Top), Elsewhere(names, content, names', content', own)
  PROVE  DataInv'
  <1>a. constructs \in Seq(Construct) /\ Len(constructs) \in Nat  BY FilesNow
  <1> PICK n \in Nat : n = Len(constructs)  BY <1>a
  <1>0. n \in 1..n /\ Io!Top = constructs[n]  BY <1>a DEF Io!Top
  <1>1. /\ Ordered(constructs') /\ Len(constructs') = n - 1
        /\ \A i \in 1..n-1 : constructs'[i] = constructs[i] /\ i \in 1..n /\ i # n
    BY OrderedEnds DEF DataInv
  <1>2. Shaped(constructs)  BY ShapedNow
  <1>3. ASSUME NEW i \in 1..n-1 PROVE DataOf(constructs'[i], names', content')
    <2>1. i \in 1..n /\ i # n /\ constructs'[i] = constructs[i]  BY <1>1
    <2>2. Own(constructs[i]) \cap Own(constructs[n]) = {}  BY <1>0, <1>2, <2>1, Separate DEF DataInv
    <2>3. own \cap Own(constructs[i]) = {}  BY <1>0, <2>2
    <2>4. constructs[i] \in Construct /\ Shape(constructs[i], i) /\ DataOf(constructs[i], names, content)
      BY <1>2, <2>1 DEF Shaped, DataInv
    <2>5. DataOf(constructs[i], names', content')  BY <2>3, <2>4, DataStays
    <2> QED BY <2>1, <2>5
  <1> QED BY <1>1, <1>3 DEF DataInv

(* A step keeps the invariant and, when it ends a construct, puts the      *)
(* streams back.                                                           *)
IoKeeps == IoInv' /\ Io!Reverts /\ (OwnFiles /\ DataInv => DataInv')

(* exec_pipe begins: nothing is opened yet.                                *)
LEMMA BeginPipeInv == ASSUME IoInv, StreamConstants, Io!BeginPipe PROVE IoKeeps
  <1> DEFINE k == Io!Active("pipe")
             f == Io!Frame("pipe", "next", 2 * k)
  <1>1. k \in Nat /\ k < MaxPipes  BY ActiveCounts DEF Io!BeginPipe
  <1>2. 2 * k \in Io!Ids /\ 2 * k <= 2 * MaxPipes - 2  BY <1>1 DEF Io!Ids, StreamConstants
  <1>3. PICK m \in 2..3 : Io!Push([f EXCEPT !.stages = m])  BY DEF Io!BeginPipe
  <1> DEFINE c == [f EXCEPT !.stages = m]
  <1>4. slots' = slots /\ names' = names /\ content' = content  BY DEF Io!BeginPipe
  <1>5. /\ f \in Construct /\ f.kind = "pipe" /\ f.phase = "next" /\ f.id = 2 * k /\ f.orig = slots
        /\ f.touched = {} /\ f.docs = 0 /\ f.stage = 0 /\ f.in = Io!None /\ f.out = Io!None
        /\ f.wrote = <<>>
    BY <1>2, FreshFrame
  <1> HIDE DEF f, k
  <1>6. /\ c \in Construct /\ c.kind = "pipe" /\ c.phase = "next" /\ c.id = 2 * k /\ c.orig = slots
        /\ c.touched = {} /\ c.docs = 0 /\ c.stage = 0 /\ c.stages = m /\ c.in = Io!None /\ c.out = Io!None
        /\ c.wrote = <<>>
    <2>0. m \in Nat  OBVIOUS
    <2>1. c \in Construct  BY <1>5, <2>0 DEF Construct
    <2>2. DOMAIN f = {"kind", "phase", "id", "stage", "stages", "items", "orig", "touched", "in", "out",
                      "read", "wrote", "docs"}
      BY <1>5 DEF Construct
    <2> QED BY <1>5, <2>1, <2>2
  <1> HIDE DEF c
  <1>7. Shape(c, Len(constructs) + 1)  BY <1>2, <1>6 DEF Shape
  <1>8. Io!Push(c)  BY <1>3 DEF c
  <1>9. Owned(slots', Len(constructs) + 1, constructs')
    <2>1. \A i \in 1..Len(constructs) : constructs'[i] = constructs[i]  BY <1>8, FilesNow DEF Io!Push
    <2>2. Len(constructs) \in Nat /\ Len(constructs) + 1 \in Nat /\ Len(constructs) <= Len(constructs) + 1
          /\ slots' \in Streams /\ Owned(slots', Len(constructs), constructs)
      BY <1>4, FilesNow
    <2> QED BY <2>1, <2>2, OwnedStays
  <1>10. IoInv' /\ Len(constructs') = Len(constructs) + 1
    BY <1>4, <1>6, <1>7, <1>8, <1>9, FilesNow, BeginsInv
  <1>11. ASSUME OwnFiles, DataInv PROVE DataInv'
    <2>1. Elsewhere(names, content, names', content', {})  BY <1>4 DEF Elsewhere
    <2>2. DataOf(c, names', content')  BY <1>6 DEF DataOf
    <2>3. {} \in SUBSET Own(c)  OBVIOUS
    <2>4. c.id = 2 * Io!Active("pipe")  BY <1>6 DEF k
    <2> QED BY <1>6, <1>8, <1>10, <1>11, <2>1, <2>2, <2>3, <2>4, DataBegins
  <1> QED BY <1>10, <1>11, FilesNow DEF IoKeeps, Io!Reverts

(* A stage begins with its files open, or the pipeline is given up.        *)
LEMMA StartStageInv == ASSUME IoInv, StreamConstants, Io!StartStage PROVE IoKeeps
  <1> DEFINE f == Io!Top
  <1>0. constructs # <<>>  BY DEF Io!StartStage, Io!In
  <1>a. Len(constructs) \in Nat /\ Len(constructs) \in 1..Len(constructs)  BY <1>0, InnermostIs
  <1> PICK n \in Nat \ {0} : n = Len(constructs)  BY <1>a
  <1> DEFINE items == Io!StageItems(f, n)
             fs == Io!Apply(Io!Files, items)
  <1>1. constructs # <<>> /\ f.kind = "pipe" /\ f.phase = "next" /\ f.stage < f.stages
        /\ slots' = fs.slots /\ names' = fs.names /\ content' = fs.content
    BY DEF Io!StartStage, Io!In, Io!Becomes
  <1>2. /\ f = constructs[n] /\ f \in Construct /\ Shape(f, n) /\ f.orig \in Streams
        /\ Owned(slots, n - 1, constructs) /\ slots = f.orig
    BY <1>1, InnermostIs
  <1>3. /\ Io!Files \in FileSystem /\ Io!Files.slots = slots /\ Io!Files.names = names
        /\ Io!Files.content = content /\ Io!Files.touched = {} /\ Io!Files.ok
        /\ slots \in Streams /\ OneName(names) /\ constructs \in Seq(Construct)
        /\ Owned(slots, n, constructs)
    BY FilesNow
  <1>4. /\ items \in Seq(Items)
        /\ \A k \in 1..Len(items) : /\ Proper(items[k], n, StageIn(f), StageOut(f))
                                    /\ items[k].op \in {"in", "out"}
        /\ StageIn(f) \in Int /\ StageOut(f) \in Int \ {StageIn(f)}
    BY <1>2, StageItemsProper
  <1>c. f.stage # f.stages - 1 => items # <<>> /\ items[Len(items)].fd = 1
    BY <1>2, StageItemsProper
  <1>b. \A fd \in Io!Fds : Io!Files.slots[fd].by <= n  BY <1>3 DEF Owned
  <1> HIDE DEF f, items
  <1>5. /\ fs \in FileSystem /\ Served(Io!Files, fs, n, StageIn(f), StageOut(f))
        /\ ~ fs.ok => fs.slots = slots
        /\ fs.ok /\ items # <<>> => items[Len(items)].fd \in fs.touched
    <2>1. n \in Nat  OBVIOUS
    <2> DEFINE src == StageIn(f)
               dst == StageOut(f)
    <2>2. src \in Int /\ dst \in Int \ {src} /\ items \in Seq(Items)
          /\ \A k \in 1..Len(items) : Proper(items[k], n, src, dst)
      BY <1>4
    <2> HIDE DEF src, dst
    <2>3. /\ fs \in FileSystem /\ Served(Io!Files, fs, n, src, dst)
          /\ ~ fs.ok => fs.slots = Io!Files.slots
          /\ fs.ok /\ items # <<>> => items[Len(items)].fd \in fs.touched
      BY <1>3, <1>b, <2>1, <2>2, ApplyServes
    <2> QED BY <1>3, <2>3 DEF src, dst
  <1>6. OwnOutput(fs, n, StageOut(f))  BY <1>3, <1>4, ApplyOpens
  <1>7. OneName(names') /\ names' \in [Io!Ids -> Files] /\ content' \in [Files -> Seq(Tokens)]
        /\ slots' \in Streams /\ fs.touched \in SUBSET Io!Fds
    BY <1>1, <1>3, <1>5 DEF Served, FileSystem
  <1>d. Elsewhere(names, content, names', content', {StageOut(f)} \cap Io!Ids)
    BY <1>1, <1>3, <1>5 DEF Served, Elsewhere
  <1>e. DataInv => DataOf(f, names, content)  BY <1>a, <1>2 DEF DataInv
  <1>8. CASE fs.ok
    <2> DEFINE a == IF 0 \in fs.touched THEN fs.slots[0].ino ELSE Io!None
               b == IF 1 \in fs.touched THEN fs.slots[1].ino ELSE Io!None
               c == [f EXCEPT !.phase = "run", !.orig = slots, !.touched = fs.touched, !.in = a, !.out = b]
    <2>1. Io!SetTop(c)  BY <1>8 DEF Io!StartStage, f, items
    <2>2. a \in Files /\ b \in Files
      BY <1>1, <1>7 DEF Streams, Files, Io!Fds
    <2> HIDE DEF a, b, fs
    <2>3. /\ c \in Construct /\ c.kind = "pipe" /\ c.phase = "run" /\ c.orig = slots
          /\ c.touched = fs.touched /\ c.in = a /\ c.out = b /\ c.docs = f.docs /\ c.id = f.id
          /\ c.stage = f.stage /\ c.stages = f.stages /\ c.read = f.read /\ c.wrote = f.wrote
      <3>1. c \in Construct  BY <1>2, <1>3, <1>7, <2>2 DEF Construct
      <3>2. DOMAIN f = {"kind", "phase", "id", "stage", "stages", "items", "orig", "touched", "in",
                        "out", "read", "wrote", "docs"}
        BY <1>2 DEF Construct
      <3> QED BY <1>1, <3>1, <3>2
    <2> HIDE DEF c
    <2>4. Shape(c, n)  BY <1>1, <1>2, <2>3 DEF Shape
    <2>5. constructs'[n] = c /\ \A i \in 1..n-1 : constructs'[i] = constructs[i]
      BY <2>1, <1>3 DEF Io!SetTop
    <2>6. Owned(slots', n, constructs')
      <3>1. 1 \in fs.touched => b = fs.names[StageOut(f)]  BY <1>6 DEF b, OwnOutput
      <3>2. Owned(Io!Files.slots, n - 1, constructs) /\ constructs'[n].out = b  BY <1>2, <1>3, <2>3, <2>5
      <3>3. 1 \in fs.touched /\ StageOut(f) \in Io!Ids => constructs'[n].out = fs.names[StageOut(f)]
        BY <3>1, <3>2
      <3>4. Owned(fs.slots, n, constructs')  BY <1>5, <2>5, <3>2, <3>3, ServedOwned
      <3> QED BY <1>1, <3>4
    <2>7. \A fd \in Io!Fds \ c.touched : slots'[fd] = c.orig[fd]
      BY <1>1, <1>3, <1>5, <2>3 DEF Served
    <2>8. IoInv' /\ Len(constructs') = Len(constructs)
      BY <1>1, <1>2, <1>7, <2>1, <2>3, <2>4, <2>6, <2>7, GoesOnInv DEF f
    <2>9. ASSUME OwnFiles, DataInv PROVE DataInv'
      <3>1. DataOf(c, names', content')
        <4>1. StageOut(c) = StageOut(f) /\ StageIn(c) = StageIn(f)
          BY <2>3 DEF StageOut, StageIn, Io!OutOf
        <4>2. c.out # Io!None => c.out = names'[StageOut(c)] /\ content'[c.out] = <<>>
          BY <1>1, <1>6, <2>3, <4>1 DEF OwnOutput, b
        <4>3. c.stage # c.stages - 1 => c.out # Io!None
          BY <1>5, <1>6, <1>8, <2>3, <1>c DEF OwnOutput, b
        <4>4. c.in # Io!None => StageIn(c) \in Io!Ids /\ c.in = names'[StageIn(c)]
          BY <1>1, <1>5, <2>3, <4>1 DEF Served, a
        <4>5. StageIn(c) \in Io!Ids => c.stage # 0 /\ StageIn(c) # StageOut(c)
          BY <1>4, <4>1 DEF StageIn, Io!Ids
        <4>6. StageIn(c) \in Io!Ids /\ names'[StageIn(c)] # Io!None =>
                names[StageIn(c)] = names'[StageIn(c)] /\ content'[names'[StageIn(c)]] = content[names[StageIn(c)]]
          BY <1>d, <4>1, <4>5 DEF Elsewhere
        <4>7. c.in # Io!None => content'[c.in] = c.read
          <5> SUFFICES ASSUME c.in # Io!None PROVE content'[c.in] = c.read  OBVIOUS
          <5>1. StageIn(f) \in Io!Ids /\ c.in = names'[StageIn(f)] /\ f.stage # 0
            BY <2>3, <4>1, <4>4, <4>5
          <5>2. names[StageIn(f)] = c.in /\ content'[c.in] = content[c.in]
            BY <4>1, <4>6, <5>1
          <5>3. f.stage \in 1 .. f.stages - 1  BY <1>1, <1>2, <5>1 DEF Construct
          <5>4. DataOf(f, names, content)  BY <1>e, <2>9
          <5>5. content[names[StageIn(f)]] = f.read  BY <1>1, <5>3, <5>4 DEF DataOf
          <5> QED BY <2>3, <5>2, <5>5
        <4>8. c.docs = 0 /\ c.wrote = <<>>  BY <1>1, <1>2, <2>3 DEF Shape
        <4> QED BY <2>3, <4>2, <4>3, <4>4, <4>5, <4>7, <4>8 DEF DataOf
      <3>2. {StageOut(f)} \cap Io!Ids \in SUBSET Own(c)
        <4>1. {StageOut(f)} \cap Io!Ids \in SUBSET Own(f)  BY <1>1, <1>2, StagesOwn
        <4> QED BY <4>1, <1>1, <2>3 DEF Own
      <3>3. c.kind = Io!Top.kind /\ c.id = Io!Top.id /\ c.docs = Io!Top.docs  BY <1>1, <2>3 DEF f
      <3> QED BY <1>0, <1>d, <2>1, <2>3, <2>8, <2>9, <3>1, <3>2, <3>3, DataGoesOn
    <2> QED BY <2>8, <2>9, <1>1, <1>a DEF IoKeeps, Io!Reverts, Io!In, f
  <1>9. CASE ~ fs.ok
    <2> DEFINE c == [f EXCEPT !.stage = f.stages]
    <2>1. Io!SetTop(c)  BY <1>9 DEF Io!StartStage, f, items
    <2>3. /\ c \in Construct /\ c.kind = "pipe" /\ c.phase = "next" /\ c.orig = f.orig
          /\ c.touched = f.touched /\ c.in = f.in /\ c.out = f.out /\ c.docs = f.docs /\ c.id = f.id
          /\ c.stage = f.stages /\ c.stages = f.stages /\ c.wrote = f.wrote
      BY <1>1, <1>2 DEF Construct
    <2> HIDE DEF c
    <2>4. Shape(c, n)  BY <1>1, <1>2, <2>3 DEF Shape, Construct
    <2>5. constructs'[n] = c /\ \A i \in 1..n-1 : constructs'[i] = constructs[i]
      BY <2>1, <1>3 DEF Io!SetTop
    <2>6. Owned(slots', n, constructs')
      <3>1. slots' = slots  BY <1>1, <1>5, <1>9
      <3>2. \A i \in 1..n : constructs'[i] = constructs[i] \/ constructs'[i].out = constructs[i].out
        BY <1>2, <2>3, <2>5
      <3>3. n \in Nat /\ n <= n  OBVIOUS
      <3>4. Owned(slots, n, constructs')  BY <1>3, <3>2, <3>3, OwnedStays
      <3> QED BY <3>1, <3>4
    <2>7. \A fd \in Io!Fds \ c.touched : slots'[fd] = c.orig[fd]
      BY <1>1, <1>2, <1>5, <1>9, <2>3
    <2>8. IoInv' /\ Len(constructs') = Len(constructs)
      BY <1>1, <1>2, <1>7, <2>1, <2>3, <2>4, <2>6, <2>7, GoesOnInv DEF f
    <2>9. ASSUME OwnFiles, DataInv PROVE DataInv'
      <3>1. DataOf(c, names', content')
        BY <1>1, <1>2, <2>3 DEF DataOf, Shape
      <3>2. {StageOut(f)} \cap Io!Ids \in SUBSET Own(c)
        <4>1. {StageOut(f)} \cap Io!Ids \in SUBSET Own(f)  BY <1>1, <1>2, StagesOwn
        <4> QED BY <4>1, <1>1, <2>3 DEF Own
      <3>3. c.kind = Io!Top.kind /\ c.id = Io!Top.id /\ c.docs = Io!Top.docs  BY <1>1, <2>3 DEF f
      <3> QED BY <1>0, <1>d, <2>1, <2>3, <2>8, <2>9, <3>1, <3>2, <3>3, DataGoesOn
    <2> QED BY <2>8, <2>9, <1>1, <1>a DEF IoKeeps, Io!Reverts, Io!In, f
  <1> QED BY <1>8, <1>9

(* sh_redir_restore at the end of the innermost construct.                 *)
TopRestored == Io!Restore([Io!Files EXCEPT !.touched = Io!Top.touched], Io!Top.orig)

(* The streams are those saved, whatever the construct did with them.      *)
LEMMA RestoreTop ==
  ASSUME IoInv, constructs # <<>>
  PROVE  /\ TopRestored \in FileSystem /\ TopRestored.slots = Io!Top.orig
         /\ TopRestored.names = names /\ TopRestored.content = content
  <1> DEFINE fs == [Io!Files EXCEPT !.touched = Io!Top.touched]
             back == Io!Restore(fs, Io!Top.orig)
  <1>1. /\ Io!Top \in Construct /\ Io!Top.orig \in Streams
        /\ \A fd \in Io!Fds \ Io!Top.touched : slots[fd] = Io!Top.orig[fd]
    BY InnermostIs
  <1>2. Io!Top.touched \in SUBSET Io!Fds  BY <1>1 DEF Construct
  <1>3. /\ fs \in FileSystem /\ fs.slots = slots /\ fs.names = names /\ fs.content = content
        /\ fs.touched = Io!Top.touched
    BY <1>2, FilesNow DEF FileSystem
  <1> HIDE DEF fs
  <1>4. /\ back \in FileSystem /\ back.names = fs.names /\ back.content = fs.content
        /\ \A fd \in Io!Fds : back.slots[fd] = IF fd \in fs.touched THEN Io!Top.orig[fd] ELSE fs.slots[fd]
    BY <1>1, <1>3, RestorePuts
  <1> HIDE DEF back
  <1>5. \A fd \in Io!Fds : back.slots[fd] = Io!Top.orig[fd]  BY <1>1, <1>3, <1>4
  <1>6. back.slots \in Streams  BY <1>4 DEF FileSystem
  <1>7. back.slots = Io!Top.orig  BY <1>1, <1>5, <1>6 DEF Streams
  <1> QED BY <1>3, <1>4, <1>7 DEF TopRestored, back, fs

(* A stage ends: what it wrote is what the next one reads.                 *)
LEMMA EndStageInv == ASSUME IoInv, StreamConstants, Io!EndStage PROVE IoKeeps
  <1> DEFINE f == Io!Top
             c == [f EXCEPT !.phase = "next", !.stage = f.stage + 1, !.touched = {}, !.in = Io!None,
                            !.out = Io!None, !.read = f.wrote, !.wrote = <<>>]
  <1>0. constructs # <<>>  BY DEF Io!EndStage, Io!In
  <1>a. Len(constructs) \in Nat /\ Len(constructs) \in 1..Len(constructs)  BY <1>0, InnermostIs
  <1> PICK n \in Nat \ {0} : n = Len(constructs)  BY <1>a
  <1>1. /\ f.kind = "pipe" /\ f.phase = "run" /\ Io!SetTop(c)
        /\ slots' = f.orig /\ names' = names /\ content' = content
    BY <1>0, RestoreTop DEF Io!EndStage, Io!In, Io!Becomes, TopRestored
  <1>2. /\ f = constructs[n] /\ f \in Construct /\ Shape(f, n) /\ f.orig \in Streams
        /\ Owned(f.orig, n - 1, constructs)
    BY <1>0, InnermostIs
  <1>3. /\ OneName(names) /\ constructs \in Seq(Construct)
        /\ names \in [Io!Ids -> Files] /\ content \in [Files -> Seq(Tokens)]
    BY FilesNow
  <1> HIDE DEF f
  <1>4. /\ c \in Construct /\ c.kind = "pipe" /\ c.phase = "next" /\ c.orig = f.orig
        /\ c.touched = {} /\ c.in = Io!None /\ c.out = Io!None /\ c.docs = f.docs /\ c.id = f.id
        /\ c.stage = f.stage + 1 /\ c.stages = f.stages /\ c.read = f.wrote /\ c.wrote = <<>>
    <2>1. f.stage \in Nat /\ f.stage + 1 \in Nat /\ f.wrote \in Seq(Tokens) /\ <<>> \in Seq(Tokens)
      BY <1>2 DEF Construct
    <2>2. c \in Construct  BY <1>2, <2>1 DEF Construct, Files
    <2>3. DOMAIN f = {"kind", "phase", "id", "stage", "stages", "items", "orig", "touched", "in",
                      "out", "read", "wrote", "docs"}
      BY <1>2 DEF Construct
    <2> QED BY <1>1, <2>2, <2>3
  <1> HIDE DEF c
  <1>5. f.stage \in Nat /\ f.stages \in Nat  BY <1>2 DEF Construct
  <1>6. Shape(c, n)  BY <1>1, <1>2, <1>4, <1>5 DEF Shape
  <1>7. constructs'[n] = c /\ \A i \in 1..n-1 : constructs'[i] = constructs[i]
    BY <1>1, <1>3 DEF Io!SetTop
  <1>8. Owned(slots', n, constructs')
    <2>1. n - 1 \in Nat /\ n \in Nat /\ n - 1 <= n  OBVIOUS
    <2> QED BY <1>1, <1>2, <1>7, <2>1, OwnedStays
  <1>9. IoInv' /\ Len(constructs') = Len(constructs)
    BY <1>0, <1>1, <1>2, <1>3, <1>4, <1>6, <1>8, GoesOnInv DEF f
  <1>10. ASSUME OwnFiles, DataInv PROVE DataInv'
    <2>1. DataOf(f, names, content)  BY <1>a, <1>2, <1>10 DEF DataInv
    <2>2. DataOf(c, names', content')
      <3>1. c.stage \in 1 .. c.stages - 1 => StageIn(c) = StageOut(f) /\ f.stage # f.stages - 1
        BY <1>4, <1>5 DEF StageIn, StageOut, Io!OutOf
      <3>2. c.stage \in 1 .. c.stages - 1 => names[StageIn(c)] # Io!None /\ content[names[StageIn(c)]] = c.read
        BY <1>1, <1>4, <2>1, <3>1 DEF DataOf
      <3>3. c.docs = 0  BY <1>1, <1>2, <1>4 DEF Shape
      <3> QED BY <1>1, <1>4, <3>2, <3>3 DEF DataOf
    <2>3. Elsewhere(names, content, names', content', {}) /\ {} \in SUBSET Own(c)  BY <1>1 DEF Elsewhere
    <2>4. c.kind = Io!Top.kind /\ c.id = Io!Top.id /\ c.docs = Io!Top.docs  BY <1>1, <1>4 DEF f
    <2> QED BY <1>0, <1>1, <1>4, <1>9, <1>10, <2>2, <2>3, <2>4, DataGoesOn
  <1>11. Io!Reverts  BY <1>1 DEF Io!Reverts, f
  <1> QED BY <1>9, <1>10, <1>11 DEF IoKeeps

(* A construct that ends puts the streams back, and removes its own files. *)
LEMMA EndsKeeps ==
  ASSUME IoInv, StreamConstants, constructs # <<>>, Io!Pop, slots' = Io!Top.orig,
         names' \in [Io!Ids -> Files], content' \in [Files -> Seq(Tokens)], OneName(names'),
         NEW own \in SUBSET Own(Io!Top), Elsewhere(names, content, names', content', own)
  PROVE  IoKeeps
  <1>1. IoInv'  BY EndsInv
  <1>2. OwnFiles /\ DataInv => DataInv'  BY DataEnds
  <1> QED BY <1>1, <1>2 DEF IoKeeps, Io!Reverts

(* exec_pipe ends: both files are removed.                                 *)
LEMMA EndPipeInv == ASSUME IoInv, StreamConstants, Io!EndPipe PROVE IoKeeps
  <1> DEFINE f == Io!Top
             one == Io!Unlink(Io!Files, f.id)
             two == Io!Unlink(one, f.id + 1)
  <1>1. /\ constructs # <<>> /\ f.kind = "pipe" /\ f.phase = "next" /\ Io!Pop
        /\ slots' = two.slots /\ names' = two.names /\ content' = two.content
    BY DEF Io!EndPipe, Io!In, Io!Becomes
  <1>2. f \in Construct /\ Shape(f, Len(constructs)) /\ slots = f.orig  BY <1>1, InnermostIs
  <1>3. f.id \in Io!Ids /\ f.id + 1 \in Io!Ids
    BY <1>1, <1>2 DEF Construct, Shape, Io!Ids, StreamConstants
  <1>4. /\ Io!Files \in FileSystem /\ Io!Files.slots = slots /\ Io!Files.names = names
        /\ Io!Files.content = content /\ OneName(names)
    BY FilesNow
  <1> HIDE DEF f
  <1>5. /\ one \in FileSystem /\ one.slots = slots /\ OneName(one.names)
        /\ Elsewhere(names, content, one.names, one.content, {f.id})
    BY <1>3, <1>4, UnlinkRemoves
  <1> HIDE DEF one
  <1>6. /\ two \in FileSystem /\ two.slots = slots /\ OneName(two.names)
        /\ Elsewhere(one.names, one.content, two.names, two.content, {f.id + 1})
    BY <1>3, <1>5, UnlinkRemoves
  <1> HIDE DEF two
  <1>7. Elsewhere(names, content, names', content', {f.id, f.id + 1})
    BY <1>1, <1>5, <1>6 DEF Elsewhere
  <1>8. {f.id, f.id + 1} \in SUBSET Own(f)  BY <1>1, <1>3 DEF Own
  <1>9. names' \in [Io!Ids -> Files] /\ content' \in [Files -> Seq(Tokens)]  BY <1>1, <1>6 DEF FileSystem
  <1> QED BY <1>1, <1>2, <1>6, <1>7, <1>8, <1>9, EndsKeeps DEF f

(* command_subst ends: its file is removed.                                *)
LEMMA EndSubstInv == ASSUME IoInv, StreamConstants, Io!EndSubst PROVE IoKeeps
  <1> DEFINE f == Io!Top
             cut == Io!Unlink(TopRestored, f.id)
  <1>1. /\ constructs # <<>> /\ f.kind = "subst" /\ Io!Pop
        /\ slots' = cut.slots /\ names' = cut.names /\ content' = cut.content
    BY DEF Io!EndSubst, Io!In, Io!Becomes, TopRestored
  <1>2. f \in Construct  BY <1>1, InnermostIs
  <1>3. f.id \in Io!Ids  BY <1>2 DEF Construct
  <1>4. /\ TopRestored \in FileSystem /\ TopRestored.slots = f.orig
        /\ TopRestored.names = names /\ TopRestored.content = content /\ OneName(names)
    BY <1>1, RestoreTop, FilesNow
  <1> HIDE DEF f
  <1>5. /\ cut \in FileSystem /\ cut.slots = f.orig /\ OneName(cut.names)
        /\ Elsewhere(names, content, cut.names, cut.content, {f.id})
    BY <1>3, <1>4, UnlinkRemoves
  <1> HIDE DEF cut
  <1>6. {f.id} \in SUBSET Own(f)  BY <1>1, <1>3 DEF Own
  <1>7. names' \in [Io!Ids -> Files] /\ content' \in [Files -> Seq(Tokens)]  BY <1>1, <1>5 DEF FileSystem
  <1> QED BY <1>1, <1>5, <1>6, <1>7, EndsKeeps DEF f

(* A command with redirections ends: its here-document, if any, is removed.*)
LEMMA CleanedKeeps ==
  ASSUME IoInv, StreamConstants, constructs # <<>>, Io!Pop,
         NEW fs \in FileSystem, fs.slots = Io!Top.orig, OneName(fs.names),
         Elsewhere(names, content, fs.names, fs.content, {}),
         Io!Becomes(Io!Cleaned(fs, Io!Top.docs))
  PROVE  IoKeeps
  <1> DEFINE cut == Io!Unlink(fs, 2)
  <1>1. 2 \in Io!Ids  BY DEF Io!Ids, StreamConstants
  <1>2. /\ cut \in FileSystem /\ cut.slots = fs.slots /\ OneName(cut.names)
        /\ Elsewhere(fs.names, fs.content, cut.names, cut.content, {2})
    BY <1>1, UnlinkRemoves
  <1>3. CASE Io!Top.docs > 0
    <2>1. slots' = cut.slots /\ names' = cut.names /\ content' = cut.content
      BY <1>3 DEF Io!Cleaned, Io!Becomes
    <2> HIDE DEF cut
    <2>2. Elsewhere(names, content, names', content', {2})  BY <1>2, <2>1 DEF Elsewhere
    <2>3. {2} \in SUBSET Own(Io!Top)  BY <1>1, <1>3 DEF Own
    <2>4. names' \in [Io!Ids -> Files] /\ content' \in [Files -> Seq(Tokens)]  BY <1>2, <2>1 DEF FileSystem
    <2> QED BY <1>2, <2>1, <2>2, <2>3, <2>4, EndsKeeps
  <1>4. CASE ~ (Io!Top.docs > 0)
    <2>1. slots' = fs.slots /\ names' = fs.names /\ content' = fs.content
      BY <1>4 DEF Io!Cleaned, Io!Becomes
    <2>2. Elsewhere(names, content, names', content', {})  BY <2>1
    <2>3. {} \in SUBSET Own(Io!Top)  OBVIOUS
    <2>4. names' \in [Io!Ids -> Files] /\ content' \in [Files -> Seq(Tokens)]  BY <2>1 DEF FileSystem
    <2> QED BY <2>1, <2>2, <2>3, <2>4, EndsKeeps
  <1> QED BY <1>3, <1>4

(* redir_end.                                                              *)
LEMMA EndRedirInv == ASSUME IoInv, StreamConstants, Io!EndRedir PROVE IoKeeps
  <1>1. constructs # <<>> /\ Io!Pop /\ Io!Becomes(Io!Cleaned(TopRestored, Io!Top.docs))
    BY DEF Io!EndRedir, Io!In, TopRestored
  <1>2. /\ TopRestored \in FileSystem /\ TopRestored.slots = Io!Top.orig
        /\ TopRestored.names = names /\ TopRestored.content = content /\ OneName(names)
    BY <1>1, RestoreTop, FilesNow
  <1>3. Elsewhere(names, content, TopRestored.names, TopRestored.content, {})  BY <1>2 DEF Elsewhere
  <1> HIDE DEF TopRestored
  <1> QED BY <1>1, <1>2, <1>3, CleanedKeeps

(* command_subst begins: its output goes to an empty file of its own.      *)
LEMMA BeginSubstInv == ASSUME IoInv, StreamConstants, Io!BeginSubst PROVE IoKeeps
  <1> DEFINE id == Io!SubstId
  <1>a. Len(constructs) \in Nat /\ constructs \in Seq(Construct)  BY FilesNow
  <1> PICK n \in Nat \ {0} : n = Len(constructs) + 1  BY <1>a
  <1> DEFINE it == Io!Item("out", 1, id, n)
             items == <<it>>
             fs == Io!Apply(Io!Files, items)
             f == Io!Frame("subst", "run", id)
             c == [f EXCEPT !.touched = fs.touched, !.out = fs.slots[1].ino]
  <1>1. /\ slots' = fs.slots /\ names' = fs.names /\ content' = fs.content /\ Io!Push(c)
        /\ Io!Active("subst") < MaxSubsts
    BY DEF Io!BeginSubst, Io!Becomes
  <1>2. id \in Io!Ids /\ id \in Nat /\ id >= 2 /\ MaxSubsts > 0
    BY <1>1, ActiveCounts DEF Io!SubstId, Io!Ids, StreamConstants
  <1>3. it \in Items /\ it.op = "out" /\ it.fd = 1 /\ it.by = n /\ it.id = id
    BY <1>2 DEF Io!Item, Items, Io!Fds
  <1>4. /\ Io!Files \in FileSystem /\ Io!Files.slots = slots /\ Io!Files.names = names
        /\ Io!Files.content = content /\ Io!Files.touched = {} /\ Io!Files.ok
        /\ slots \in Streams /\ OneName(names) /\ Owned(slots, n - 1, constructs)
    BY FilesNow
  <1>5. /\ f \in Construct /\ f.kind = "subst" /\ f.phase = "run" /\ f.id = id /\ f.orig = slots
        /\ f.touched = {} /\ f.docs = 0 /\ f.stage = 0 /\ f.in = Io!None /\ f.out = Io!None
        /\ f.wrote = <<>>
    BY <1>2, FreshFrame
  <1>b. \A fd \in Io!Fds : Io!Files.slots[fd].by <= n
    BY <1>4 DEF Owned, Streams
  <1> HIDE DEF f, it, id
  <1>6. /\ items \in Seq(Items) /\ items # <<>>
        /\ \A k \in 1..Len(items) : Proper(items[k], n, -3, id) /\ items[k].op \in {"in", "out"}
    <2>1. Proper(it, n, -3, id)  BY <1>3 DEF Proper
    <2>2. Len(items) = 1 /\ items[1] = it /\ items \in Seq(Items) /\ items # <<>>  BY <1>3
    <2> QED BY <2>1, <2>2, <1>3
  <1>7. fs.ok /\ 1 \in fs.touched  BY <1>2, <1>3, <1>4, <1>a, OutSucceeds
  <1> HIDE DEF items
  <1>8. fs \in FileSystem /\ Served(Io!Files, fs, n, -3, id)
    <2>1. n \in Nat /\ -3 \in Int /\ id \in Int \ {-3}  BY <1>2
    <2> QED BY <1>4, <1>6, <1>a, <1>b, <2>1, ApplyServes
  <1>9. OwnOutput(fs, n, id)
    <2>1. n \in Nat /\ id \in Int  BY <1>2
    <2> QED BY <1>4, <1>6, <1>a, <2>1, ApplyOpens
  <1> HIDE DEF fs
  <1>10. /\ OneName(names') /\ names' \in [Io!Ids -> Files] /\ content' \in [Files -> Seq(Tokens)]
         /\ slots' \in Streams /\ fs.touched \in SUBSET Io!Fds /\ fs.slots[1].ino \in Files
    <2>1. OneName(fs.names)  BY <1>4, <1>8 DEF Served
    <2>2. /\ fs.names \in [Io!Ids -> Files] /\ fs.content \in [Files -> Seq(Tokens)]
          /\ fs.slots \in Streams /\ fs.touched \in SUBSET Io!Fds
      BY <1>8 DEF FileSystem
    <2>3. 1 \in Io!Fds  BY DEF Io!Fds
    <2>4. fs.slots[1].ino \in Files  BY <2>2, <2>3 DEF Streams
    <2> QED BY <1>1, <2>1, <2>2, <2>4
  <1>11. /\ c \in Construct /\ c.kind = "subst" /\ c.phase = "run" /\ c.id = id /\ c.orig = slots
         /\ c.touched = fs.touched /\ c.docs = 0 /\ c.stage = 0 /\ c.in = Io!None
         /\ c.out = fs.slots[1].ino /\ c.wrote = <<>>
    <2>1. c \in Construct  BY <1>5, <1>10 DEF Construct
    <2>2. DOMAIN f = {"kind", "phase", "id", "stage", "stages", "items", "orig", "touched", "in",
                      "out", "read", "wrote", "docs"}
      BY <1>5 DEF Construct
    <2> QED BY <1>5, <2>1, <2>2
  <1> HIDE DEF c
  <1>12. c.out = fs.names[id] /\ c.out # Io!None /\ fs.content[c.out] = <<>>
    BY <1>7, <1>9, <1>11 DEF OwnOutput
  <1>13. Shape(c, n)  BY <1>2, <1>11, <1>12 DEF Shape
  <1>14. constructs'[n] = c /\ \A i \in 1..n-1 : constructs'[i] = constructs[i]
    BY <1>1, <1>a DEF Io!Push
  <1>15. Owned(slots', n, constructs')
    <2>1. Owned(Io!Files.slots, n - 1, constructs)  BY <1>4
    <2>2. 1 \in fs.touched /\ id \in Io!Ids => constructs'[n].out = fs.names[id]  BY <1>12, <1>14
    <2>3. Owned(fs.slots, n, constructs')  BY <1>8, <1>14, <2>1, <2>2, ServedOwned
    <2> QED BY <1>1, <2>3
  <1>16. \A fd \in Io!Fds \ c.touched : slots'[fd] = slots[fd]  BY <1>1, <1>4, <1>8, <1>11 DEF Served
  <1>17. IoInv' /\ Len(constructs') = Len(constructs) + 1
    BY <1>1, <1>10, <1>11, <1>13, <1>15, <1>16, BeginsInv
  <1>18. ASSUME OwnFiles, DataInv PROVE DataInv'
    <2>1. Elsewhere(names, content, names', content', {id})  BY <1>1, <1>4, <1>8 DEF Served
    <2>2. {id} \in SUBSET Own(c)  BY <1>2, <1>11 DEF Own
    <2>3. DataOf(c, names', content')  BY <1>1, <1>11, <1>12 DEF DataOf
    <2>4. c.id = Io!SubstId  BY <1>11 DEF id
    <2> QED BY <1>1, <1>11, <1>17, <1>18, <2>1, <2>2, <2>3, <2>4, DataBegins
  <1> QED BY <1>a, <1>17, <1>18 DEF IoKeeps, Io!Reverts

(* redir_begin begins: the list is empty.                                  *)
LEMMA BeginRedirInv == ASSUME IoInv, StreamConstants, Io!BeginRedir PROVE IoKeeps
  <1> DEFINE c == Io!Frame("redir", "build", 2)
  <1>0. Io!Push(c) /\ slots' = slots /\ names' = names /\ content' = content  BY DEF Io!BeginRedir
  <1>1. 2 \in Io!Ids  BY DEF Io!Ids, StreamConstants
  <1>2. /\ c \in Construct /\ c.kind = "redir" /\ c.phase = "build" /\ c.id = 2 /\ c.orig = slots
        /\ c.touched = {} /\ c.docs = 0 /\ c.items = <<>> /\ c.in = Io!None /\ c.out = Io!None
    BY <1>1, FreshFrame
  <1> HIDE DEF c
  <1>3. Len(c.items) = 0  BY <1>2
  <1>4. Shape(c, Len(constructs) + 1)  BY <1>2, <1>3 DEF Shape
  <1>5. Owned(slots', Len(constructs) + 1, constructs')
    <2>1. \A i \in 1..Len(constructs) : constructs'[i] = constructs[i]  BY <1>0, FilesNow DEF Io!Push
    <2>2. Len(constructs) \in Nat /\ Len(constructs) + 1 \in Nat /\ Len(constructs) <= Len(constructs) + 1
          /\ slots' \in Streams /\ Owned(slots', Len(constructs), constructs)
      BY <1>0, FilesNow
    <2> QED BY <2>1, <2>2, OwnedStays
  <1>6. IoInv' /\ Len(constructs') = Len(constructs) + 1
    BY <1>0, <1>2, <1>4, <1>5, FilesNow, BeginsInv
  <1>7. ASSUME OwnFiles, DataInv PROVE DataInv'
    <2>1. Elsewhere(names, content, names', content', {}) /\ {} \in SUBSET Own(c)  BY <1>0 DEF Elsewhere
    <2>2. DataOf(c, names', content')  BY <1>2 DEF DataOf
    <2> QED BY <1>0, <1>2, <1>6, <1>7, <2>1, <2>2, DataBegins
  <1> QED BY <1>6, <1>7, FilesNow DEF IoKeeps, Io!Reverts

(* A redirection's list grows, and the streams stay.                       *)
Grown(f, it, d, r) == [f EXCEPT !.items = Append(f.items, it), !.docs = d, !.read = r]

LEMMA ListGrows ==
  ASSUME IoInv, StreamConstants, Io!Building, NEW it, Proper(it, Len(constructs), 2, -2),
         NEW d \in Nat, NEW r \in Seq(Tokens), d > 0 => MaxDocs > 0,
         slots' = slots, names' \in [Io!Ids -> Files], content' \in [Files -> Seq(Tokens)],
         OneName(names'),
         NEW c, c = Grown(Io!Top, it, d, r), Io!SetTop(c)
  PROVE  /\ IoInv' /\ Len(constructs') = Len(constructs)
         /\ c \in Construct /\ c.kind = "redir" /\ c.phase = "build" /\ c.id = Io!Top.id
         /\ c.docs = d /\ c.read = r /\ c.in = Io!None
  <1> DEFINE f == Io!Top
  <1>0. constructs # <<>> /\ f.kind = "redir" /\ f.phase = "build"  BY DEF Io!Building, Io!In
  <1>a. Len(constructs) \in Nat /\ Len(constructs) \in 1..Len(constructs)  BY <1>0, InnermostIs
  <1> PICK n \in Nat \ {0} : n = Len(constructs)  BY <1>a
  <1>1. /\ f = constructs[n] /\ f \in Construct /\ Shape(f, n) /\ f.orig \in Streams /\ slots = f.orig
    BY <1>0, InnermostIs
  <1>2. slots \in Streams /\ constructs \in Seq(Construct) /\ Owned(slots, n, constructs)  BY FilesNow
  <1>b. c = [f EXCEPT !.items = Append(f.items, it), !.docs = d, !.read = r]  BY DEF Grown
  <1> HIDE DEF f
  <1>3. it \in Items /\ f.items \in Seq(Items)  BY <1>1 DEF Proper, Construct
  <1>4. /\ c \in Construct /\ c.kind = "redir" /\ c.phase = "build" /\ c.id = f.id /\ c.orig = f.orig
        /\ c.touched = f.touched /\ c.items = Append(f.items, it) /\ c.in = f.in /\ c.out = f.out
        /\ c.docs = d /\ c.read = r
    <2>1. Append(f.items, it) \in Seq(Items)  BY <1>3
    <2>2. c \in Construct  BY <1>b, <1>1, <2>1 DEF Construct
    <2>3. DOMAIN f = {"kind", "phase", "id", "stage", "stages", "items", "orig", "touched", "in",
                      "out", "read", "wrote", "docs"}
      BY <1>1 DEF Construct
    <2> QED BY <1>0, <1>1, <1>b, <2>2, <2>3 DEF f
  <1>5. \A k \in 1..Len(c.items) : Proper(c.items[k], n, 2, -2)
    <2> DEFINE s == f.items
    <2>1. /\ Len(c.items) = Len(s) + 1 /\ c.items[Len(s) + 1] = it
          /\ \A k \in 1..Len(s) : c.items[k] = s[k]
      BY <1>3, <1>4
    <2>2. \A k \in 1..Len(s) : Proper(s[k], n, 2, -2)  BY <1>0, <1>1 DEF Shape, f
    <2>3. Len(s) \in Nat  BY <1>3
    <2> HIDE DEF s
    <2>4. ASSUME NEW k \in 1..Len(c.items) PROVE Proper(c.items[k], n, 2, -2)
      <3>1. CASE k = Len(s) + 1  BY <2>1, <3>1
      <3>2. CASE k # Len(s) + 1
        <4>1. k \in 1..Len(s)  BY <2>1, <2>3, <3>2
        <4> QED BY <2>1, <2>2, <4>1
      <3> QED BY <3>1, <3>2
    <2> QED BY <2>4
  <1>6. f.touched = {} /\ f.out = Io!None /\ f.in = Io!None  BY <1>0, <1>1 DEF Shape, f
  <1>7. Shape(c, n)  BY <1>4, <1>5, <1>6 DEF Shape
  <1>8. Owned(slots', n, constructs')
    <2>1. \A i \in 1..n : constructs'[i] = constructs[i] \/ constructs'[i].out = constructs[i].out
      BY <1>1, <1>2, <1>4 DEF Io!SetTop
    <2>2. n \in Nat /\ n <= n  OBVIOUS
    <2> QED BY <1>2, <2>1, <2>2, OwnedStays
  <1>9. \A fd \in Io!Fds \ c.touched : slots'[fd] = c.orig[fd]  BY <1>1, <1>4
  <1>10. c.orig = Io!Top.orig  BY <1>4 DEF f
  <1>11. IoInv' /\ Len(constructs') = Len(constructs)
    BY <1>0, <1>2, <1>4, <1>7, <1>8, <1>9, <1>10, GoesOnInv
  <1> QED BY <1>4, <1>6, <1>11 DEF f

(* With one here-document at a time, no other construct has one.           *)
LEMMA OneDocument ==
  ASSUME IoInv, OwnFiles, StreamConstants, Io!Docs < MaxDocs
  PROVE  \A i \in 1..Len(constructs) : constructs[i].docs = 0
  <1> DEFINE D == {i \in DOMAIN constructs : constructs[i].docs > 0}
  <1>1. constructs \in Seq(Construct) /\ Len(constructs) \in Nat  BY FilesNow
  <1>2. IsFiniteSet(D)
    <2>1. DOMAIN constructs = 1..Len(constructs)  BY <1>1
    <2>2. IsFiniteSet(1..Len(constructs))  BY <1>1, FS_Interval
    <2> QED BY <2>1, <2>2, FS_Subset
  <1>3. Io!Docs = Cardinality(D) /\ Cardinality(D) \in Nat
    BY <1>2, SameCount, FS_CardinalityType DEF Io!Docs
  <1>4. Cardinality(D) = 0  BY <1>3 DEF OwnFiles, StreamConstants
  <1>5. D = {}  BY <1>2, <1>4, FS_EmptySet
  <1>6. ASSUME NEW i \in 1..Len(constructs) PROVE constructs[i].docs = 0
    <2>1. i \in DOMAIN constructs /\ constructs[i] \in Construct  BY <1>1
    <2>2. constructs[i].docs \in Nat  BY <2>1 DEF Construct
    <2> QED BY <1>5, <2>1, <2>2
  <1> QED BY <1>6

(* A here-document is written to file 2, which no other construct uses.    *)
LEMMA BuildDocInv == ASSUME IoInv, StreamConstants, Io!BuildDoc PROVE IoKeeps
  <1> DEFINE f == Io!Top
             made == Io!Create(Io!Files, 2)
             k == made.names[2]
             it == Io!Item("in", 0, 2, Len(constructs))
             d == f.docs + 1
  <1>0. constructs # <<>> /\ Io!Building /\ f.kind = "redir" /\ f.phase = "build"
        /\ (f.docs = 0 => Io!Docs < MaxDocs)
    BY DEF Io!BuildDoc, Io!Building, Io!In
  <1>1. PICK t \in Tokens :
          /\ Io!Becomes([made EXCEPT !.content[k] = <<t>>])
          /\ Io!SetTop([f EXCEPT !.items = Append(@, it), !.docs = d, !.read = <<t>>])
    BY DEF Io!BuildDoc
  <1> DEFINE c == [f EXCEPT !.items = Append(@, it), !.docs = d, !.read = <<t>>]
  <1>2. Len(constructs) \in Nat /\ f \in Construct /\ Shape(f, Len(constructs))
    BY <1>0, InnermostIs
  <1>3. /\ Io!Files \in FileSystem /\ Io!Files.slots = slots /\ Io!Files.names = names
        /\ Io!Files.content = content /\ OneName(names) /\ constructs \in Seq(Construct)
    BY FilesNow
  <1>4. 2 \in Io!Ids  BY DEF Io!Ids, StreamConstants
  <1>5. /\ made \in FileSystem /\ k \in Inodes /\ made.slots = slots
        /\ OneName(made.names) /\ Elsewhere(names, content, made.names, made.content, {2})
    BY <1>3, <1>4, CreateMakes
  <1>6. Proper(it, Len(constructs), 2, -2)
    BY <1>2 DEF Proper, Io!Item, Items, Io!Fds
  <1>7. f.docs \in Nat /\ d \in Nat /\ d > 0 /\ MaxDocs > 0
    <2>1. f.docs \in Nat  BY <1>2 DEF Construct
    <2>2. CASE f.docs = 0
      <3>1. Io!Docs \in Nat /\ Io!Docs < MaxDocs
        <4> DEFINE D == {i \in DOMAIN constructs : constructs[i].docs > 0}
        <4>1. DOMAIN constructs = 1..Len(constructs)  BY <1>3
        <4>2. IsFiniteSet(1..Len(constructs))  BY <1>2, FS_Interval
        <4>3. IsFiniteSet(D)  BY <4>1, <4>2, FS_Subset
        <4> QED BY <1>0, <2>2, <4>3, SameCount, FS_CardinalityType DEF Io!Docs
      <3> QED BY <2>1, <2>2, <3>1 DEF StreamConstants
    <2>3. CASE f.docs # 0  BY <1>2, <2>1, <2>3 DEF Shape
    <2> QED BY <2>1, <2>2, <2>3
  <1> HIDE DEF made, k, it, d
  <1>8. slots' = slots /\ names' = made.names /\ content' = [made.content EXCEPT ![k] = <<t>>]
    BY <1>1, <1>5 DEF Io!Becomes, FileSystem
  <1>9. /\ OneName(names') /\ names' \in [Io!Ids -> Files] /\ content' \in [Files -> Seq(Tokens)]
        /\ <<t>> \in Seq(Tokens) /\ k \in Files /\ names'[2] = k /\ k # Io!None /\ content'[k] = <<t>>
    <2>1. <<t>> \in Seq(Tokens) /\ k \in Files  BY <1>5 DEF Files
    <2>2. made.names \in [Io!Ids -> Files] /\ made.content \in [Files -> Seq(Tokens)]
      BY <1>5 DEF FileSystem
    <2>3. k # Io!None  BY <1>5 DEF StreamConstants
    <2> QED BY <1>5, <1>8, <2>1, <2>2, <2>3 DEF k
  <1>10. Elsewhere(names, content, names', content', {2})
    <2>1. \A id \in Io!Ids \ {2} : names'[id] # Io!None => names'[id] # k  BY <1>4, <1>9 DEF OneName
    <2>2. made.content \in [Files -> Seq(Tokens)] /\ made.names \in [Io!Ids -> Files]
      BY <1>5 DEF FileSystem
    <2>3. \A id \in Io!Ids \ {2} : names'[id] # Io!None => content'[names'[id]] = made.content[names'[id]]
      BY <1>8, <2>1, <2>2
    <2> QED BY <1>5, <1>8, <2>3 DEF Elsewhere
  <1> HIDE DEF c
  <1>11. /\ IoInv' /\ Len(constructs') = Len(constructs)
         /\ c \in Construct /\ c.kind = "redir" /\ c.phase = "build" /\ c.id = Io!Top.id
         /\ c.docs = d /\ c.read = <<t>> /\ c.in = Io!None
    <2> DEFINE r == <<t>>
    <2>1. c = Grown(Io!Top, it, d, r)  BY DEF c, Grown
    <2>2. r \in Seq(Tokens) /\ Io!SetTop(c)  BY <1>1, <1>9 DEF c
    <2>3. c.read = r => c.read = <<t>>  OBVIOUS
    <2> HIDE DEF f, r
    <2> QED BY <1>0, <1>6, <1>7, <1>8, <1>9, <2>1, <2>2, <2>3, ListGrows
  <1>12. ASSUME OwnFiles, DataInv PROVE DataInv'
    <2>1. DataOf(c, names', content')  BY <1>9, <1>11 DEF DataOf
    <2>2. {2} \in SUBSET Own(c)  BY <1>4, <1>7, <1>11 DEF Own
    <2>3. \A i \in 1..Len(constructs) - 1 : constructs[i].docs = 0
      <3>1. CASE f.docs = 0
        <4>1. \A i \in 1..Len(constructs) : constructs[i].docs = 0  BY <1>0, <1>12, <3>1, OneDocument
        <4> QED BY <1>2, <4>1
      <3>2. CASE f.docs # 0
        <4>1. /\ Len(constructs) \in 1..Len(constructs) /\ f = constructs[Len(constructs)]
          BY <1>0, InnermostIs
        <4>2. \A i \in 1..Len(constructs) - 1 : i \in 1..Len(constructs) /\ i # Len(constructs)
          BY <1>2
        <4> QED BY <1>12, <3>2, <4>1, <4>2 DEF DataInv, Ordered
      <3> QED BY <3>1, <3>2
    <2>4. c.kind = Io!Top.kind /\ Io!SetTop(c)  BY <1>0, <1>1, <1>11 DEF c
    <2> QED BY <1>0, <1>10, <1>11, <1>12, <2>1, <2>2, <2>3, <2>4, DataGoesOn
  <1>13. Io!Reverts  BY <1>0, <1>2, <1>11 DEF Io!Reverts, Io!In
  <1> QED BY <1>11, <1>12, <1>13 DEF IoKeeps

(* Another redirection joins the list.                                     *)
LEMMA BuildItemInv == ASSUME IoInv, StreamConstants, Io!BuildItem PROVE IoKeeps
  <1> DEFINE f == Io!Top
             n == Len(constructs)
  <1>0. constructs # <<>> /\ Io!Building /\ f.kind = "redir" /\ f.phase = "build"
        /\ slots' = slots /\ names' = names /\ content' = content
    BY DEF Io!BuildItem, Io!Building, Io!In
  <1>1. PICK it \in {Io!Item("dup", 2, 1, n), Io!Item("dup", 1, 2, n), Io!Item("dup", 1, 9, n),
                     Io!Item("close", 0, Io!None, n), Io!Item("in", 0, -1, n)} :
          Io!SetTop([f EXCEPT !.items = Append(@, it)])
    BY DEF Io!BuildItem
  <1>2. Len(constructs) \in Nat /\ f \in Construct /\ Shape(f, Len(constructs))
    BY <1>0, InnermostIs
  <1>3. Proper(it, Len(constructs), 2, -2)
    BY <1>2 DEF Proper, Io!Item, Items, Io!Fds, Io!None
  <1>4. f.docs \in Nat /\ f.read \in Seq(Tokens) /\ (f.docs > 0 => MaxDocs > 0)
    BY <1>2 DEF Construct, Shape
  <1> DEFINE d == f.docs
             r == f.read
             c == [f EXCEPT !.items = Append(@, it), !.docs = d, !.read = r]
  <1>5. c = [f EXCEPT !.items = Append(@, it)]  BY <1>2 DEF Construct
  <1>6. Io!SetTop(c)  BY <1>1, <1>5
  <1>7. c = Grown(Io!Top, it, d, r)  BY DEF Grown
  <1>8. d = f.docs /\ r = f.read  OBVIOUS
  <1> HIDE DEF c, d, r
  <1>9. OneName(names') /\ names' \in [Io!Ids -> Files] /\ content' \in [Files -> Seq(Tokens)]
    BY <1>0, FilesNow
  <1>10. d \in Nat /\ r \in Seq(Tokens) /\ (d > 0 => MaxDocs > 0)  BY <1>4, <1>8
  <1>11. /\ IoInv' /\ Len(constructs') = Len(constructs)
         /\ c \in Construct /\ c.kind = "redir" /\ c.phase = "build" /\ c.id = Io!Top.id
         /\ c.docs = d /\ c.read = r /\ c.in = Io!None
    <2> HIDE DEF f, n
    <2> QED BY <1>0, <1>3, <1>6, <1>7, <1>9, <1>10, ListGrows
  <1>12. ASSUME OwnFiles, DataInv PROVE DataInv'
    <2>1. DataOf(f, names, content)
      <3>1. Len(constructs) \in 1..Len(constructs) /\ f = constructs[Len(constructs)]
        BY <1>0, InnermostIs
      <3> QED BY <1>12, <3>1 DEF DataInv
    <2>2. DataOf(c, names', content')  BY <1>0, <1>8, <1>11, <2>1 DEF DataOf
    <2>3. {} \in SUBSET Own(c) /\ Elsewhere(names, content, names', content', {})  BY <1>0 DEF Elsewhere
    <2>4. c.kind = Io!Top.kind /\ c.docs = Io!Top.docs  BY <1>0, <1>8, <1>11
    <2> QED BY <1>0, <1>6, <1>11, <1>12, <2>2, <2>3, <2>4, DataGoesOn
  <1>13. Io!Reverts  BY <1>0, <1>2, <1>11 DEF Io!Reverts, Io!In
  <1> QED BY <1>11, <1>12, <1>13 DEF IoKeeps

(* The list is applied, or all of it is undone and the command not run.    *)
LEMMA ApplyRedirInv == ASSUME IoInv, StreamConstants, Io!ApplyRedir PROVE IoKeeps
  <1> DEFINE f == Io!Top
             items == f.items
             fs == Io!Apply(Io!Files, items)
  <1>0. constructs # <<>> /\ f.kind = "redir" /\ f.phase = "build" /\ items # <<>>
    BY DEF Io!ApplyRedir, Io!In
  <1>a. Len(constructs) \in Nat /\ Len(constructs) \in 1..Len(constructs)  BY <1>0, InnermostIs
  <1> PICK n \in Nat \ {0} : n = Len(constructs)  BY <1>a
  <1>1. /\ f = constructs[n] /\ f \in Construct /\ Shape(f, n) /\ f.orig \in Streams
        /\ Owned(slots, n - 1, constructs) /\ slots = f.orig
    BY <1>0, InnermostIs
  <1>2. /\ Io!Files \in FileSystem /\ Io!Files.slots = slots /\ Io!Files.names = names
        /\ Io!Files.content = content /\ Io!Files.touched = {} /\ Io!Files.ok
        /\ slots \in Streams /\ OneName(names) /\ constructs \in Seq(Construct)
        /\ Owned(slots, n, constructs)
    BY FilesNow
  <1>3. \A fd \in Io!Fds : Io!Files.slots[fd].by <= n  BY <1>2 DEF Owned
  <1>4. items \in Seq(Items) /\ \A k \in 1..Len(items) : Proper(items[k], n, 2, -2)
    BY <1>0, <1>1 DEF Construct, Shape
  <1>b. \/ /\ fs.ok /\ Io!Becomes(fs)
           /\ Io!SetTop([f EXCEPT !.phase = "run", !.orig = slots, !.touched = fs.touched,
                          !.in = IF f.docs > 0 /\ 0 \in fs.touched THEN fs.slots[0].ino ELSE Io!None])
        \/ ~ fs.ok /\ Io!Becomes(Io!Cleaned(fs, f.docs)) /\ Io!Pop
    BY DEF Io!ApplyRedir
  <1> HIDE DEF f, items
  <1>5. /\ fs \in FileSystem /\ Served(Io!Files, fs, n, 2, -2)
        /\ ~ fs.ok => fs.slots = slots
    <2> DEFINE src == 2
               dst == -2
    <2>0. n \in Nat  OBVIOUS
    <2>1. src \in Int /\ dst \in Int \ {src} /\ items \in Seq(Items)
          /\ \A k \in 1..Len(items) : Proper(items[k], n, src, dst)
      BY <1>4
    <2> HIDE DEF src, dst
    <2>2. /\ fs \in FileSystem /\ Served(Io!Files, fs, n, src, dst)
          /\ ~ fs.ok => fs.slots = Io!Files.slots
          /\ fs.ok /\ items # <<>> => items[Len(items)].fd \in fs.touched
      BY <1>2, <1>3, <2>0, <2>1, ApplyServes
    <2> QED BY <1>2, <2>2 DEF src, dst
  <1> HIDE DEF fs
  <1>6. -2 \notin Io!Ids  BY DEF Io!Ids
  <1>7. OneName(fs.names) /\ Elsewhere(names, content, fs.names, fs.content, {})
    BY <1>2, <1>5, <1>6 DEF Served, Elsewhere
  <1>8. CASE fs.ok
    <2> DEFINE a == IF f.docs > 0 /\ 0 \in fs.touched THEN fs.slots[0].ino ELSE Io!None
               c == [f EXCEPT !.phase = "run", !.orig = slots, !.touched = fs.touched, !.in = a]
    <2>1. slots' = fs.slots /\ names' = fs.names /\ content' = fs.content /\ Io!SetTop(c)
      BY <1>8, <1>b DEF Io!Becomes
    <2>2. /\ names' \in [Io!Ids -> Files] /\ content' \in [Files -> Seq(Tokens)] /\ slots' \in Streams
          /\ fs.touched \in SUBSET Io!Fds
      BY <1>5, <2>1 DEF FileSystem
    <2>3. a \in Files  BY <2>1, <2>2 DEF Streams, Files, Io!Fds
    <2>4. a # Io!None => f.docs > 0 /\ a = fs.names[2]  BY <1>5 DEF Served
    <2> HIDE DEF a
    <2>5. /\ c \in Construct /\ c.kind = "redir" /\ c.phase = "run" /\ c.orig = slots
          /\ c.touched = fs.touched /\ c.in = a /\ c.out = f.out /\ c.docs = f.docs /\ c.id = f.id
          /\ c.items = f.items /\ c.read = f.read
      <3>1. c \in Construct  BY <1>1, <1>2, <2>2, <2>3 DEF Construct
      <3>2. DOMAIN f = {"kind", "phase", "id", "stage", "stages", "items", "orig", "touched", "in",
                        "out", "read", "wrote", "docs"}
        BY <1>1 DEF Construct
      <3> QED BY <1>0, <3>1, <3>2
    <2> HIDE DEF c
    <2>6. Shape(c, n)  BY <1>0, <1>1, <2>5 DEF Shape
    <2>7. constructs'[n] = c /\ \A i \in 1..n-1 : constructs'[i] = constructs[i]
      BY <2>1, <1>2 DEF Io!SetTop
    <2>8. Owned(slots', n, constructs')
      <3>1. Owned(Io!Files.slots, n - 1, constructs)  BY <1>1, <1>2
      <3>2. 1 \in fs.touched /\ -2 \in Io!Ids => constructs'[n].out = fs.names[-2]  BY <1>6
      <3>3. Owned(fs.slots, n, constructs')  BY <1>5, <2>7, <3>1, <3>2, ServedOwned
      <3> QED BY <2>1, <3>3
    <2>9. \A fd \in Io!Fds \ c.touched : slots'[fd] = c.orig[fd]  BY <1>2, <1>5, <2>1, <2>5 DEF Served
    <2>10. IoInv' /\ Len(constructs') = Len(constructs)
      <3>1. c.orig = Io!Top.orig /\ OneName(names')  BY <1>1, <1>7, <2>1, <2>5 DEF f
      <3> QED BY <1>0, <2>1, <2>2, <2>5, <2>6, <2>8, <2>9, <3>1, GoesOnInv
    <2>11. ASSUME OwnFiles, DataInv PROVE DataInv'
      <3>1. DataOf(f, names, content)  BY <1>a, <1>1, <2>11 DEF DataInv
      <3>2. 2 \in Io!Ids  BY DEF Io!Ids, StreamConstants
      <3>3. f.docs > 0 => names'[2] # Io!None /\ content'[names'[2]] = f.read
        BY <1>7, <2>1, <3>1, <3>2 DEF DataOf, Elsewhere
      <3>4. DataOf(c, names', content')  BY <2>1, <2>4, <2>5, <3>3 DEF DataOf
      <3>5. {} \in SUBSET Own(c) /\ Elsewhere(names, content, names', content', {})  BY <1>7, <2>1
      <3>6. c.kind = Io!Top.kind /\ c.id = Io!Top.id /\ c.docs = Io!Top.docs  BY <1>0, <2>5 DEF f
      <3> QED BY <1>0, <2>1, <2>5, <2>10, <2>11, <3>4, <3>5, <3>6, DataGoesOn
    <2>12. Io!Reverts  BY <1>0, <1>a, <2>10 DEF Io!Reverts, Io!In, f
    <2> QED BY <2>10, <2>11, <2>12 DEF IoKeeps
  <1>9. CASE ~ fs.ok
    <2>1. Io!Becomes(Io!Cleaned(fs, Io!Top.docs)) /\ Io!Pop  BY <1>9, <1>b DEF f
    <2>2. fs.slots = Io!Top.orig  BY <1>1, <1>5, <1>9 DEF f
    <2> QED BY <1>0, <1>5, <1>7, <2>1, <2>2, CleanedKeeps
  <1> QED BY <1>8, <1>9

(* The file a construct writes to is one of its own, and not the one it    *)
(* reads.                                                                  *)
LEMMA OutIsOwn ==
  ASSUME StreamConstants, NEW c \in Construct, NEW i, Shape(c, i), DataOf(c, names, content),
         OneName(names), c.out # Io!None
  PROVE  /\ \E o \in Own(c) : names[o] = c.out
         /\ content[c.out] = c.wrote /\ (c.kind = "pipe" => c.in # c.out) /\ c.docs = 0
         /\ c.kind = "subst" \/ (c.kind = "pipe" /\ c.phase = "run")
  <1>1. c.id \in Nat /\ c.id \in Io!Ids /\ c.stage \in Nat /\ c.docs \in Nat
        /\ c.kind \in {"pipe", "subst", "redir"}
    BY DEF Construct, Io!Ids
  <1>2. CASE c.kind = "subst"
    <2>1. c.id \in Own(c)  BY <1>1, <1>2 DEF Own
    <2> QED BY <1>2, <2>1 DEF Shape, DataOf
  <1>3. CASE c.kind = "pipe"
    <2>1. c.phase = "run" /\ c.docs = 0 /\ c.id + 1 \in Io!Ids
      BY <1>1, <1>3 DEF Shape, Io!Ids, StreamConstants
    <2>2. StageOut(c) \in Own(c) /\ StageOut(c) \in Io!Ids /\ StageIn(c) # StageOut(c)
          /\ (c.stage # 0 => StageIn(c) \in Io!Ids)
      BY <1>1, <1>3, <2>1 DEF Own, StageOut, StageIn, Io!OutOf
    <2>3. names[StageOut(c)] = c.out /\ content[c.out] = c.wrote  BY <1>3, <2>1 DEF DataOf
    <2>4. c.in # Io!None => c.stage # 0 /\ names[StageIn(c)] = c.in  BY <1>3, <2>1 DEF DataOf
    <2>5. c.in # c.out  BY <2>2, <2>3, <2>4 DEF OneName
    <2> QED BY <1>3, <2>1, <2>2, <2>3, <2>5
  <1>4. CASE c.kind = "redir"  BY <1>4 DEF Shape
  <1> QED BY <1>1, <1>2, <1>3, <1>4

(* A word goes to the file of the construct the stream belongs to.         *)
LEMMA WriteInv == ASSUME IoInv, StreamConstants, Io!Write PROVE IoKeeps
  <1> DEFINE s == slots[1]
  <1>1. /\ constructs # <<>> => Io!Top.phase = "run"
        /\ s.ino # Io!None /\ slots' = slots /\ names' = names
    BY DEF Io!Write, Io!Executes
  <1>2. PICK t \in Tokens :
          /\ content' = [content EXCEPT ![s.ino] = Append(@, t)]
          /\ constructs' = [constructs EXCEPT ![s.by].wrote = Append(@, t)]
    BY DEF Io!Write
  <1>a. Len(constructs) \in Nat  BY FilesNow
  <1> PICK n \in Nat : n = Len(constructs)  BY <1>a
  <1>3. /\ slots \in Streams /\ OneName(names) /\ constructs \in Seq(Construct)
        /\ names \in [Io!Ids -> Files] /\ content \in [Files -> Seq(Tokens)]
        /\ Owned(slots, n, constructs)
    BY FilesNow
  <1> DEFINE j == s.by
             f == constructs[j]
             w == Append(f.wrote, t)
             d == [f EXCEPT !.wrote = w]
  <1>4. 1 \in Io!Fds  BY DEF Io!Fds
  <1>5. j \in 1..n /\ f.out = s.ino  BY <1>1, <1>3, <1>4 DEF Owned
  <1>6. s.ino \in Files  BY <1>3, <1>4 DEF Streams
  <1>7. f \in Construct /\ Shape(f, j)  BY <1>3, <1>5 DEF IoInv
  <1>8. constructs' = [constructs EXCEPT ![j] = d]  BY <1>2, <1>3, <1>5
  <1>9. w \in Seq(Tokens)  BY <1>7 DEF Construct
  <1> HIDE DEF j, f, w, s
  <1>10. /\ d \in Construct /\ d.kind = f.kind /\ d.phase = f.phase /\ d.id = f.id /\ d.orig = f.orig
         /\ d.touched = f.touched /\ d.in = f.in /\ d.out = f.out /\ d.docs = f.docs
         /\ d.items = f.items /\ d.stage = f.stage /\ d.stages = f.stages /\ d.read = f.read
         /\ d.wrote = w
    <2>1. d \in Construct  BY <1>7, <1>9 DEF Construct
    <2>2. DOMAIN f = {"kind", "phase", "id", "stage", "stages", "items", "orig", "touched", "in",
                      "out", "read", "wrote", "docs"}
      BY <1>7 DEF Construct
    <2> QED BY <2>1, <2>2
  <1> HIDE DEF d
  <1>11. /\ constructs' \in Seq(Construct) /\ Len(constructs') = n /\ constructs'[j] = d
         /\ \A i \in 1..n : i # j => constructs'[i] = constructs[i]
    BY <1>3, <1>5, <1>8, <1>10
  <1>12. \A i \in 1..n : /\ constructs'[i].kind = constructs[i].kind /\ constructs'[i].id = constructs[i].id
                         /\ constructs'[i].docs = constructs[i].docs /\ constructs'[i].out = constructs[i].out
                         /\ constructs'[i].orig = constructs[i].orig
                         /\ constructs'[i].touched = constructs[i].touched
    <2> SUFFICES ASSUME NEW i \in 1..n
                 PROVE  /\ constructs'[i].kind = constructs[i].kind /\ constructs'[i].id = constructs[i].id
                        /\ constructs'[i].docs = constructs[i].docs /\ constructs'[i].out = constructs[i].out
                        /\ constructs'[i].orig = constructs[i].orig
                        /\ constructs'[i].touched = constructs[i].touched
      OBVIOUS
    <2>1. CASE i = j  BY <1>10, <1>11, <2>1 DEF f
    <2>2. CASE i # j  BY <1>11, <2>2
    <2> QED BY <2>1, <2>2
  <1>13. content' \in [Files -> Seq(Tokens)]
    <2> DEFINE x == Append(content[s.ino], t)
    <2>1. content[s.ino] \in Seq(Tokens)  BY <1>3, <1>6
    <2>2. x \in Seq(Tokens)  BY <2>1
    <2>3. content' = [content EXCEPT ![s.ino] = x]  BY <1>2
    <2> HIDE DEF x
    <2> QED BY <1>3, <2>2, <2>3
  <1>14. IoTypes' /\ OneName(names')  BY <1>1, <1>3, <1>11, <1>13 DEF IoTypes
  <1>15. \A i \in 0..n : Level(slots', constructs', i) = Level(slots, constructs, i)
    <2> SUFFICES ASSUME NEW i \in 0..n PROVE Level(slots', constructs', i) = Level(slots, constructs, i)
      OBVIOUS
    <2>1. CASE i = n  BY <1>1, <1>11, <2>1 DEF Level
    <2>2. CASE i # n
      <3>1. i + 1 \in 1..n  BY <2>2
      <3> QED BY <1>11, <1>12, <2>2, <3>1 DEF Level
    <2> QED BY <2>1, <2>2
  <1>16. ASSUME NEW i \in 0..n PROVE Owned(Level(slots', constructs', i), i, constructs')
    <2>1. Owned(Level(slots, constructs, i), i, constructs)  BY DEF IoInv
    <2>2. \A k \in 1..i : constructs'[k].out = constructs[k].out  BY <1>12
    <2> QED BY <1>15, <2>1, <2>2 DEF Owned
  <1>17. f.kind = "subst" \/ (f.kind = "pipe" /\ f.phase = "run")
    <2>1. f.kind \in {"pipe", "subst", "redir"}  BY <1>7 DEF Construct
    <2> QED BY <1>1, <1>5, <1>7, <2>1 DEF Shape
  <1>18. Shape(d, j)  BY <1>7, <1>10, <1>17 DEF Shape
  <1>19. ASSUME NEW i \in 1..n
         PROVE  /\ Shape(constructs'[i], i)
                /\ \A fd \in Io!Fds \ constructs'[i].touched :
                     Level(slots', constructs', i)[fd] = constructs'[i].orig[fd]
    <2>1. /\ Shape(constructs[i], i)
          /\ \A fd \in Io!Fds \ constructs[i].touched : Level(slots, constructs, i)[fd] = constructs[i].orig[fd]
      BY DEF IoInv
    <2>2. Shape(constructs'[i], i)
      <3>1. CASE i = j  BY <1>11, <1>18, <3>1
      <3>2. CASE i # j  BY <1>11, <2>1, <3>2
      <3> QED BY <3>1, <3>2
    <2>3. i \in 0..n  OBVIOUS
    <2> QED BY <1>12, <1>15, <2>1, <2>2, <2>3
  <1>20. IoInv'  BY <1>11, <1>14, <1>16, <1>19 DEF IoInv
  <1>21. ASSUME OwnFiles, DataInv PROVE DataInv'
    <2>1. \A i \in 1..n : DataOf(constructs[i], names, content)  BY <1>21 DEF DataInv
    <2>2. Ordered(constructs')
      <3>1. \/ \A i \in 1..n : constructs'[i].docs = constructs[i].docs
            \/ \A i \in 1..n-1 : constructs'[i].docs = 0
        BY <1>12
      <3>2. \A i \in 1..n : constructs'[i].kind = constructs[i].kind /\ constructs'[i].id = constructs[i].id
        BY <1>12
      <3> QED BY <1>11, <1>21, <3>1, <3>2, OrderedGoesOn DEF DataInv
    <2>3. DataOf(f, names, content)  BY <1>5, <2>1 DEF f
    <2>4. /\ \E o \in Own(f) : names[o] = f.out
          /\ content[f.out] = f.wrote /\ (f.kind = "pipe" => f.in # f.out) /\ f.docs = 0
      BY <1>1, <1>3, <1>5, <1>7, <2>3, OutIsOwn
    <2>5. content'[f.out] = w /\ \A k \in Files : k # f.out => content'[k] = content[k]
      BY <1>2, <1>3, <1>5, <1>6, <2>4 DEF w
    <2>6. DataOf(d, names', content')
      <3>1. StageOut(d) = StageOut(f) /\ StageIn(d) = StageIn(f)
        BY <1>10 DEF StageOut, StageIn, Io!OutOf
      <3>2. f.in \in Files /\ f.out \in Files /\ d.docs = 0  BY <1>7, <1>10, <2>4 DEF Construct
      <3>3. CASE f.kind = "subst"
        BY <1>1, <1>10, <2>3, <2>5, <3>2, <3>3 DEF DataOf
      <3>4. CASE f.kind = "pipe" /\ f.phase = "run"
        <4>1. names[StageOut(f)] = f.out  BY <1>1, <1>5, <2>3, <3>4 DEF DataOf
        <4>2. f.in # Io!None => f.stage # 0 /\ names[StageIn(f)] = f.in /\ content'[f.in] = f.read
          BY <2>3, <2>4, <2>5, <3>2, <3>4 DEF DataOf
        <4>3. f.stage # f.stages - 1 => f.out # Io!None  BY <2>3, <3>4 DEF DataOf
        <4> QED BY <1>1, <1>10, <2>5, <3>1, <3>2, <3>4, <4>1, <4>2, <4>3 DEF DataOf
      <3> QED BY <1>17, <3>3, <3>4
    <2>7. Elsewhere(names, content, names', content', Own(f))
      <3> SUFFICES ASSUME NEW id \in Io!Ids \ Own(f), names[id] # Io!None
                   PROVE  content'[names[id]] = content[names[id]]
        BY <1>1 DEF Elsewhere
      <3>1. PICK o \in Own(f) : names[o] = f.out  BY <2>4
      <3>2. o \in Io!Ids /\ o # id  BY DEF Own
      <3>3. names[id] # f.out  BY <1>3, <3>1, <3>2 DEF OneName
      <3>4. names[id] \in Files  BY <1>3
      <3> QED BY <2>5, <3>3, <3>4
    <2>8. ASSUME NEW i \in 1..n PROVE DataOf(constructs'[i], names', content')
      <3>1. CASE i = j  BY <1>11, <2>6, <3>1
      <3>2. CASE i # j
        <4>1. Shaped(constructs) /\ Ordered(constructs)  BY <1>21, ShapedNow DEF DataInv
        <4>2. Own(f) \cap Own(constructs[i]) = {}  BY <1>5, <1>21, <3>2, <4>1, Separate DEF f
        <4>3. constructs[i] \in Construct /\ Shape(constructs[i], i)  BY <4>1 DEF Shaped
        <4>4. DataOf(constructs[i], names', content')  BY <2>1, <2>7, <4>2, <4>3, DataStays
        <4> QED BY <1>11, <3>2, <4>4
      <3> QED BY <3>1, <3>2
    <2> QED BY <1>11, <2>2, <2>8 DEF DataInv
  <1>22. Io!Reverts
    <2>1. ~ (constructs # <<>> /\ Io!Top.phase = "run" /\ Io!Top'.phase = "next")
      <3>1. SUFFICES ASSUME constructs # <<>>, Io!Top.phase = "run" PROVE Io!Top'.phase = "run"
        OBVIOUS
      <3>2. n \in 1..n /\ Io!Top = constructs[n] /\ Io!Top' = constructs'[n]
        BY <1>3, <1>11, <3>1 DEF Io!Top
      <3>3. CASE n = j  BY <1>10, <1>11, <3>1, <3>2, <3>3 DEF f
      <3>4. CASE n # j  BY <1>11, <3>1, <3>2, <3>4
      <3> QED BY <3>3, <3>4
    <2> QED BY <1>11, <2>1 DEF Io!Reverts, Io!In
  <1> QED BY <1>20, <1>21, <1>22 DEF IoKeeps

(* At first the streams are the console's.                                 *)
LEMMA IoStarts == ASSUME StreamConstants, Io!Init PROVE IoInv /\ DataInv
  <1>1. /\ slots = [fd \in Io!Fds |-> Io!Console] /\ constructs = <<>>
        /\ names = [id \in Io!Ids |-> Io!None] /\ content = [k \in Inodes \cup {Io!None} |-> <<>>]
    BY DEF Io!Init
  <1>2. slots \in Streams /\ \A fd \in Io!Fds : slots[fd].by = 0 /\ slots[fd].ino = Io!None
    BY <1>1 DEF Streams, Io!Console, Files
  <1>3. IoTypes /\ OneName(names)
    <2>1. names \in [Io!Ids -> Files] /\ content \in [Files -> Seq(Tokens)]
      BY <1>1 DEF Files
    <2>2. constructs \in Seq(Construct)  BY <1>1
    <2>3. OneName(names)  BY <1>1 DEF OneName
    <2> QED BY <1>2, <2>1, <2>2, <2>3 DEF IoTypes
  <1>4. Len(constructs) = 0  BY <1>1
  <1>5. Owned(slots, 0, constructs)
    <2>1. {1, 2} \in SUBSET Io!Fds  BY DEF Io!Fds
    <2> QED BY <1>2, <2>1 DEF Owned
  <1>6. IoInv
    <2>1. \A i \in 0..Len(constructs) : i = 0 /\ Level(slots, constructs, i) = slots  BY <1>4 DEF Level
    <2> QED BY <1>3, <1>4, <1>5, <2>1 DEF IoInv
  <1>7. DataInv  BY <1>4 DEF DataInv, Ordered
  <1> QED BY <1>6, <1>7

(* Every step.                                                             *)
LEMMA IoStep == ASSUME IoInv, StreamConstants, [Io!Next]_(Io!vars) PROVE IoKeeps
  <1>1. CASE Io!Next
    BY <1>1, WriteInv, BeginPipeInv, StartStageInv, EndStageInv, EndPipeInv, BeginSubstInv, EndSubstInv,
       BeginRedirInv, BuildDocInv, BuildItemInv, ApplyRedirInv, EndRedirInv
    DEF Io!Next
  <1>2. CASE UNCHANGED Io!vars
    <2>1. slots' = slots /\ names' = names /\ content' = content /\ constructs' = constructs
      BY <1>2 DEF Io!vars
    <2>2. IoInv'
      BY <2>1 DEF IoInv, IoTypes, OneName, Level, Owned, Shape
    <2>3. DataInv => DataInv'
      BY <2>1 DEF DataInv, Ordered, Before, DataOf
    <2>4. Io!Reverts
      <3>1. constructs # <<>> => Io!Top' = Io!Top  BY <2>1 DEF Io!Top
      <3>2. Len(constructs) \in Nat  BY FilesNow
      <3> QED BY <2>1, <3>1, <3>2 DEF Io!Reverts, Io!In
    <2> QED BY <2>2, <2>3, <2>4 DEF IoKeeps
  <1> QED BY <1>1, <1>2

(* What the invariant says of the streams in use, and of the data.         *)
LEMMA StreamsFine == ASSUME IoInv PROVE Io!TypeOK /\ Io!StreamsOpen
  <1>1. IoTypes /\ Owned(slots, Len(constructs), constructs)  BY FilesNow DEF IoInv
  <1>2. Io!TypeOK  BY <1>1 DEF Io!TypeOK, IoTypes, Streams, Files
  <1>3. Io!StreamsOpen  BY <1>1 DEF Io!StreamsOpen, Owned
  <1> QED BY <1>2, <1>3

(* The data the construct's files should hold are there.                   *)
LEMMA DataFine == ASSUME IoInv, DataInv PROVE Io!DataArrives
  <1> SUFFICES ASSUME NEW i \in DOMAIN constructs PROVE Io!Intact(constructs[i])
    BY DEF Io!DataArrives
  <1> DEFINE f == constructs[i]
  <1>1. i \in 1..Len(constructs) /\ f \in Construct  BY FilesNow
  <1>2. DataOf(f, names, content) /\ Shape(f, i)  BY <1>1 DEF DataInv, IoInv
  <1>3. f.kind \in {"pipe", "subst", "redir"} /\ f.phase \in {"next", "run", "build"}
        /\ f.docs \in Nat /\ f.stage \in Nat /\ f.stages \in Nat
    BY <1>1 DEF Construct
  <1> SUFFICES Io!Intact(f)  OBVIOUS
  <1> HIDE DEF f
  <1>4. CASE f.kind = "subst"  BY <1>2, <1>4 DEF Io!Intact, DataOf
  <1>5. CASE f.kind = "pipe"
    <2>1. f.stage # 0 => StageIn(f) = Io!OutOf(f, f.stage - 1)  BY DEF StageIn
    <2>2. CASE f.phase = "run"
      <3>1. /\ f.out # Io!None => names[Io!OutOf(f, f.stage)] = f.out /\ content[f.out] = f.wrote
            /\ f.in # Io!None => content[f.in] = f.read
        BY <1>2, <1>5, <2>2 DEF DataOf, StageOut
      <3> QED BY <1>5, <2>2, <3>1 DEF Io!Intact
    <2>3. CASE f.phase = "next" /\ f.stage \in 1 .. f.stages - 1
      BY <1>2, <1>5, <2>1, <2>3 DEF Io!Intact, DataOf
    <2>4. CASE f.phase = "next" /\ f.stage \notin 1 .. f.stages - 1
      BY <1>5, <2>4 DEF Io!Intact
    <2>5. f.phase \in {"next", "run"}  BY <1>2, <1>5 DEF Shape
    <2> QED BY <2>2, <2>3, <2>4, <2>5
  <1>6. CASE f.kind = "redir"
    <2>1. f.docs > 0 => names[2] # Io!None /\ content[names[2]] = f.read  BY <1>2 DEF DataOf
    <2>2. f.in # Io!None => f.docs > 0 /\ names[2] = f.in  BY <1>2, <1>6 DEF DataOf
    <2>3. CASE f.in # Io!None  BY <1>6, <2>1, <2>2, <2>3 DEF Io!Intact
    <2>4. CASE f.in = Io!None /\ f.docs > 0  BY <1>6, <2>1, <2>4 DEF Io!Intact
    <2>5. CASE f.in = Io!None /\ ~ (f.docs > 0)  BY <1>6, <2>5 DEF Io!Intact
    <2> QED BY <2>3, <2>4, <2>5
  <1> QED BY <1>3, <1>4, <1>5, <1>6

(* The streams, the directory and the files keep their types, for any      *)
(* nesting of pipelines, substitutions and commands with redirections.     *)
THEOREM StreamTypes == ASSUME StreamConstants PROVE Io!Spec => []Io!TypeOK
  <1>1. Io!Init => IoInv  BY IoStarts
  <1>2. IoInv /\ [Io!Next]_(Io!vars) => IoInv'  BY IoStep DEF IoKeeps
  <1>3. IoInv => Io!TypeOK  BY StreamsFine
  <1> QED BY <1>1, <1>2, <1>3, PTL DEF Io!Spec

(* No stream in use belongs to a construct that has ended: sh_redir_restore*)
(* puts back what a construct redirected before its files are closed.      *)
THEOREM StreamsNeverClosed == ASSUME StreamConstants PROVE Io!Spec => []Io!StreamsOpen
  <1>1. Io!Init => IoInv  BY IoStarts
  <1>2. IoInv /\ [Io!Next]_(Io!vars) => IoInv'  BY IoStep DEF IoKeeps
  <1>3. IoInv => Io!StreamsOpen  BY StreamsFine
  <1> QED BY <1>1, <1>2, <1>3, PTL DEF Io!Spec

(* Every way out of a construct, a stage of a pipeline and a redirection that*)
(* fails half-way included, leaves stdin, stdout and stderr as they were   *)
(* before it (redir_end, exec_pipe, command_subst), at any depth.          *)
THEOREM StreamsComeBack == ASSUME StreamConstants PROVE Io!Spec => Io!StreamsRestored
  <1>1. Io!Init => IoInv  BY IoStarts
  <1>2. IoInv /\ [Io!Next]_(Io!vars) => IoInv'  BY IoStep DEF IoKeeps
  <1>3. IoInv /\ [Io!Next]_(Io!vars) => [Io!Reverts]_(Io!vars)  BY IoStep DEF IoKeeps
  <1> QED BY <1>1, <1>2, <1>3, PTL DEF Io!Spec, Io!StreamsRestored

(* A stage reads what the stage before it wrote, a substitution returns what*)
(* its commands wrote and a command reads its own here-document, as long as*)
(* the numbers of their temporary files do not meet (OwnFiles).            *)
THEOREM DataArrivesAlways == ASSUME StreamConstants, OwnFiles PROVE Io!Spec => []Io!DataArrives
  <1>1. Io!Init => IoInv /\ DataInv  BY IoStarts
  <1>2. IoInv /\ DataInv /\ [Io!Next]_(Io!vars) => (IoInv /\ DataInv)'  BY IoStep DEF IoKeeps
  <1>3. IoInv /\ DataInv => Io!DataArrives  BY DataFine
  <1> QED BY <1>1, <1>2, <1>3, PTL DEF Io!Spec
=============================================================================
