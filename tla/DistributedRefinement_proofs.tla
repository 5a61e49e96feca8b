--------------------- MODULE DistributedRefinement_proofs ---------------------
(***************************************************************************)
(* What the workers of the distributed runtime execute, for any number of  *)
(* workers, any user program that uses only handles it holds, and any of   *)
(* the faults: the invariant HistoryInv of PipelineInvariant is inductive. *)
(* It says that the queues of every worker hold one and the same history   *)
(* of commands, each with its effect on the pools, and it implies that no  *)
(* pool lookup fails.                                                      *)
(*                                                                         *)
(* Without faults, and for a client that makes no call the controller      *)
(* would refuse, the controller survives, every call is served, and the    *)
(* distributed runtime is, for every worker, the sequential runtime: for   *)
(* any number of workers and any program.                                  *)
(***************************************************************************)
EXTENDS DistributedRuntime_proofs, DistributedRefinement, WellFoundedInduction

-----------------------------------------------------------------------------
(* Queues in a row. Moving an item from one to the next changes nothing.   *)

(* The head of t becomes the last item of s.                               *)
LEMMA MoveToLast ==
  ASSUME NEW a \in Seq(Command), NEW s \in Seq(Command), NEW t \in Seq(Command), t # <<>>
  PROVE  (a \o Append(s, Head(t))) \o Tail(t) = (a \o s) \o t
<1> DEFINE x == Head(t)
<1>0. x \in Command /\ Tail(t) \in Seq(Command) /\ <<x>> \in Seq(Command)
  BY PopType
<1>1. t = <<x>> \o Tail(t)
  OBVIOUS
<1>2. Append(s, x) = s \o <<x>>
  BY <1>0, AppendIsConcat
<1> HIDE DEF x
<1>3. a \o (s \o <<x>>) = (a \o s) \o <<x>>
  BY <1>0, ConcatAssociative
<1>4. a \o s \in Seq(Command)
  OBVIOUS
<1>5. ((a \o s) \o <<x>>) \o Tail(t) = (a \o s) \o (<<x>> \o Tail(t))
  BY <1>0, <1>4, ConcatAssociative
<1> QED BY <1>1, <1>2, <1>3, <1>5 DEF x

(* The same, with nothing in s.                                            *)
LEMMA MoveToEmpty ==
  ASSUME NEW S, NEW a \in Seq(S), NEW t \in Seq(S), t # <<>>
  PROVE  (a \o <<Head(t)>>) \o Tail(t) = (a \o <<>>) \o t
<1> DEFINE x == Head(t)
<1>0. x \in S /\ Tail(t) \in Seq(S) /\ <<x>> \in Seq(S)
  BY PopType
<1>1. t = <<x>> \o Tail(t) /\ a \o <<>> = a
  OBVIOUS
<1> HIDE DEF x
<1>2. (a \o <<x>>) \o Tail(t) = a \o (<<x>> \o Tail(t))
  BY <1>0, ConcatAssociative
<1> QED BY <1>1, <1>2 DEF x

(* The first of two queues in a row, if it has an item, holds the first.   *)
LEMMA TailOfConcat ==
  ASSUME NEW S, NEW s \in Seq(S), NEW t \in Seq(S), s # <<>>
  PROVE  /\ s \o t \in Seq(S) /\ s \o t # <<>>
         /\ Tail(s \o t) = Tail(s) \o t /\ (s \o t)[1] = s[1]
<1>0. /\ s \o t \in Seq(S) /\ Len(s \o t) = Len(s) + Len(t) /\ Len(s) \in Nat \ {0}
      /\ Len(t) \in Nat
      /\ \A i \in 1..(Len(s) + Len(t)) : (s \o t)[i] = IF i <= Len(s) THEN s[i] ELSE t[i - Len(s)]
  BY ConcatProperties
<1>1. /\ Tail(s) \in Seq(S) /\ Len(Tail(s)) = Len(s) - 1
      /\ \A i \in 1..(Len(s) - 1) : Tail(s)[i] = s[i + 1]
  BY <1>0
<1>2. /\ Tail(s) \o t \in Seq(S) /\ Len(Tail(s) \o t) = Len(s) - 1 + Len(t)
      /\ \A i \in 1..(Len(s) - 1 + Len(t)) :
           (Tail(s) \o t)[i] = IF i <= Len(s) - 1 THEN Tail(s)[i] ELSE t[i - (Len(s) - 1)]
  BY <1>0, <1>1, ConcatProperties
<1> DEFINE u == s \o t
           v == Tail(s) \o t
<1>3. /\ u \in Seq(S) /\ u # <<>> /\ v \in Seq(S) /\ Len(u) = Len(s) + Len(t)
      /\ Len(v) = Len(s) - 1 + Len(t)
      /\ \A i \in 1..(Len(s) - 1 + Len(t)) : v[i] = u[i + 1]
  <2>1. \A i \in 1..(Len(s) - 1 + Len(t)) : v[i] = u[i + 1]
    <3> SUFFICES ASSUME NEW i \in 1..(Len(s) - 1 + Len(t)) PROVE v[i] = u[i + 1]
      OBVIOUS
    <3>1. i + 1 \in 1..(Len(s) + Len(t)) /\ i \in Nat
      BY <1>0
    <3>2. u[i + 1] = IF i + 1 <= Len(s) THEN s[i + 1] ELSE t[i + 1 - Len(s)]
      BY <1>0, <3>1
    <3>3. v[i] = IF i <= Len(s) - 1 THEN Tail(s)[i] ELSE t[i - (Len(s) - 1)]
      BY <1>2
    <3> HIDE DEF u, v
    <3>4. CASE i <= Len(s) - 1
      BY <1>0, <1>1, <3>1, <3>2, <3>3, <3>4
    <3>5. CASE ~(i <= Len(s) - 1)
      BY <1>0, <3>1, <3>2, <3>3, <3>5
    <3> QED BY <3>4, <3>5
  <2> QED BY <1>0, <1>2, <2>1
<1>4. u[1] = s[1]
  BY <1>0
<1> HIDE DEF u, v
<1>5. Tail(u) \in Seq(S) /\ Len(Tail(u)) = Len(v) /\ \A i \in 1..Len(v) : Tail(u)[i] = v[i]
  BY <1>0, <1>3
<1>6. Tail(u) = v
  BY <1>3, <1>5, SeqEqual
<1> QED BY <1>3, <1>4, <1>6 DEF u, v

(* The last of two queues in a row takes the newest item.                  *)
LEMMA AppendToConcat ==
  ASSUME NEW S, NEW s \in Seq(S), NEW t \in Seq(S), NEW x \in S
  PROVE  s \o Append(t, x) = Append(s \o t, x)
<1>1. /\ Append(t, x) = t \o <<x>> /\ s \o t \in Seq(S) /\ <<x>> \in Seq(S)
  BY AppendIsConcat
<1>2. Append(s \o t, x) = (s \o t) \o <<x>>
  BY <1>1, AppendIsConcat
<1> QED BY <1>1, <1>2, ConcatAssociative

-----------------------------------------------------------------------------
(* A worker on its way through a history.                                  *)

(* It executes the next command, whose handles are all in its pools.       *)
LEMMA ExecutesNext ==
  ASSUME NEW w \in Workers, NEW C \in Seq(Command), NEW H \in Seq(Pools), IsHistory(C, H),
         NEW read \in Nat, NEW replies \in Seq(Response), NEW todo \in Seq(Command), NEW p,
         OnTheWay(w, C, H, read, replies, todo, p), todo # <<>>,
         Respond(w, p, todo[1]) \in Response
  PROVE  /\ ~PoolMiss(p, todo[1])
         /\ OnTheWay(w, C, H, read, Append(replies, Respond(w, p, todo[1])), Tail(todo),
                     Execute(p, todo[1]))
<1> DEFINE n == read + Len(replies)
           x == todo[1]
           longer == Append(replies, Respond(w, p, x))
           rest == Tail(todo)
<1>1. /\ n \in Nat /\ Len(replies) \in Nat /\ Len(todo) \in Nat \ {0} /\ Len(C) \in Nat
      /\ n + Len(todo) = Len(C) /\ p = H[n + 1]
      /\ \A i \in 1..Len(todo) : todo[i] = C[n + i]
      /\ \A i \in 1..Len(replies) : replies[i] = Respond(w, H[read + i], C[read + i])
  BY DEF OnTheWay
<1>2. /\ Len(rest) = Len(todo) - 1 /\ Len(longer) = Len(replies) + 1
      /\ \A i \in 1..Len(rest) : rest[i] = todo[i + 1]
      /\ \A i \in 1..Len(replies) : longer[i] = replies[i]
      /\ longer[Len(replies) + 1] = Respond(w, p, x)
  BY <1>1, AppendProperties
<1>3. x = C[n + 1] /\ n + 1 \in 1..Len(C)
  BY <1>1
<1>4. ~PoolMiss(p, x) /\ Execute(p, x) = H[n + 1 + 1]
  BY <1>1, <1>3 DEF IsHistory
<1>5. read + Len(longer) = n + 1
  BY <1>1, <1>2
<1> HIDE DEF x, longer, rest
<1>6. \A i \in 1..Len(rest) : rest[i] = C[n + 1 + i]
  <2> SUFFICES ASSUME NEW i \in 1..Len(rest) PROVE rest[i] = C[n + 1 + i]
    OBVIOUS
  <2>1. i + 1 \in 1..Len(todo) /\ n + (i + 1) = n + 1 + i
    BY <1>1, <1>2
  <2> QED BY <1>1, <1>2, <2>1
<1>7. \A i \in 1..Len(longer) : longer[i] = Respond(w, H[read + i], C[read + i])
  <2> SUFFICES ASSUME NEW i \in 1..Len(longer)
               PROVE  longer[i] = Respond(w, H[read + i], C[read + i])
    OBVIOUS
  <2>1. CASE i \in 1..Len(replies)
    BY <1>1, <1>2, <2>1
  <2>2. CASE i = Len(replies) + 1
    <3>1. read + i = n + 1
      BY <1>1, <2>2
    <3> QED BY <1>1, <1>2, <1>3, <2>2, <3>1
  <2>3. Len(longer) = Len(replies) + 1 /\ Len(replies) \in Nat
    BY <1>1, <1>2
  <2> QED BY <2>1, <2>2, <2>3
<1>8. n + 1 + Len(rest) = Len(C)
  <2>1. /\ n \in Nat /\ Len(todo) \in Nat /\ n + Len(todo) = Len(C)
        /\ Len(rest) = Len(todo) - 1
    BY <1>1, <1>2
  <2> DEFINE k == Len(todo)
             m == Len(rest)
             l == Len(C)
  <2>2. n \in Nat /\ k \in Nat /\ n + k = l /\ m = k - 1
    BY <2>1
  <2>3. n + 1 + m = l
    <3> HIDE DEF n, k, m, l
    <3> QED BY <2>2
  <2> QED BY <2>3
<1>9. OnTheWay(w, C, H, read, longer, rest, Execute(p, x))
  <2> HIDE DEF n
  <2> QED BY <1>4, <1>5, <1>6, <1>7, <1>8 DEF OnTheWay
<1> QED BY <1>4, <1>9 DEF x, longer, rest

(* The controller reads its answer to the first command.                   *)
LEMMA ReadsFirst ==
  ASSUME NEW w \in Workers, NEW C \in Seq(Command), NEW H \in Seq(Pools),
         NEW replies \in Seq(Response), NEW todo \in Seq(Command), NEW p,
         OnTheWay(w, C, H, 0, replies, todo, p), replies # <<>>
  PROVE  /\ OnTheWay(w, C, H, 1, Tail(replies), todo, p)
         /\ replies[1] = Respond(w, H[1], C[1])
<1> DEFINE rest == Tail(replies)
<1>1. /\ Len(replies) \in Nat \ {0} /\ Len(todo) \in Nat
      /\ Len(replies) + Len(todo) = Len(C) /\ p = H[Len(replies) + 1]
      /\ \A i \in 1..Len(todo) : todo[i] = C[Len(replies) + i]
      /\ \A i \in 1..Len(replies) : replies[i] = Respond(w, H[i], C[i])
  BY DEF OnTheWay
<1>2. /\ Len(rest) = Len(replies) - 1
      /\ \A i \in 1..Len(rest) : rest[i] = replies[i + 1]
  BY <1>1
<1> HIDE DEF rest
<1>3. 1 + Len(rest) = Len(replies)
  BY <1>1, <1>2
<1>4. \A i \in 1..Len(rest) : rest[i] = Respond(w, H[1 + i], C[1 + i])
  <2> SUFFICES ASSUME NEW i \in 1..Len(rest) PROVE rest[i] = Respond(w, H[1 + i], C[1 + i])
    OBVIOUS
  <2>1. i + 1 \in 1..Len(replies) /\ i + 1 = 1 + i
    BY <1>1, <1>2
  <2> QED BY <1>1, <1>2, <2>1
<1>5. OnTheWay(w, C, H, 1, rest, todo, p)
  BY <1>1, <1>3, <1>4 DEF OnTheWay
<1>6. replies[1] = Respond(w, H[1], C[1])
  BY <1>1
<1> QED BY <1>5, <1>6 DEF rest

(* The first command, answered by every worker, leaves the history.        *)
LEMMA ForgetsFirst ==
  ASSUME NEW C \in Seq(Command), NEW H \in Seq(Pools), C # <<>>, IsHistory(C, H)
  PROVE  /\ IsHistory(Tail(C), Tail(H)) /\ Tail(C) \in Seq(Command) /\ Tail(H) \in Seq(Pools)
         /\ Len(Tail(C)) = Len(C) - 1 /\ Tail(H)[Len(Tail(H))] = H[Len(H)]
         /\ Tail(C) # <<>> => Tail(C)[Len(Tail(C))] = C[Len(C)]
         /\ \A w \in Workers, replies \in Seq(Response), todo \in Seq(Command) : \A p :
              OnTheWay(w, C, H, 1, replies, todo, p) =>
                OnTheWay(w, Tail(C), Tail(H), 0, replies, todo, p)
<1> DEFINE D == Tail(C)
           G == Tail(H)
<1>1. /\ Len(C) \in Nat \ {0} /\ Len(H) = Len(C) + 1 /\ H # <<>>
      /\ \A i \in 1..Len(C) : ~PoolMiss(H[i], C[i]) /\ H[i + 1] = Execute(H[i], C[i])
  BY DEF IsHistory
<1>2. /\ D \in Seq(Command) /\ G \in Seq(Pools) /\ Len(D) = Len(C) - 1 /\ Len(G) = Len(C)
      /\ \A i \in 1..Len(D) : D[i] = C[i + 1]
      /\ \A i \in 1..Len(G) : G[i] = H[i + 1]
  BY <1>1
<1> HIDE DEF D, G
<1>3. IsHistory(D, G)
  <2>1. Len(G) = Len(D) + 1
    BY <1>1, <1>2
  <2>2. ASSUME NEW i \in 1..Len(D)
        PROVE  ~PoolMiss(G[i], D[i]) /\ G[i + 1] = Execute(G[i], D[i])
    <3>1. i + 1 \in 1..Len(C) /\ i \in 1..Len(G) /\ i + 1 \in 1..Len(G)
      BY <1>1, <1>2
    <3>2. G[i] = H[i + 1] /\ D[i] = C[i + 1] /\ G[i + 1] = H[i + 1 + 1]
      BY <1>2, <3>1
    <3> QED BY <1>1, <3>1, <3>2
  <2> QED BY <2>1, <2>2 DEF IsHistory
<1>4. G[Len(G)] = H[Len(H)]
  BY <1>1, <1>2
<1>5. D # <<>> => D[Len(D)] = C[Len(C)]
  BY <1>1, <1>2
<1>6. ASSUME NEW w \in Workers, NEW replies \in Seq(Response), NEW todo \in Seq(Command), NEW p,
             OnTheWay(w, C, H, 1, replies, todo, p)
      PROVE  OnTheWay(w, D, G, 0, replies, todo, p)
  <2>1. /\ Len(replies) \in Nat /\ Len(todo) \in Nat
        /\ 1 + Len(replies) + Len(todo) = Len(C) /\ p = H[1 + Len(replies) + 1]
        /\ \A i \in 1..Len(todo) : todo[i] = C[1 + Len(replies) + i]
        /\ \A i \in 1..Len(replies) : replies[i] = Respond(w, H[1 + i], C[1 + i])
    BY <1>6 DEF OnTheWay
  <2>2. Len(replies) + Len(todo) = Len(D)
    <3>1. /\ Len(D) = Len(C) - 1 /\ Len(replies) \in Nat /\ Len(todo) \in Nat
          /\ 1 + Len(replies) + Len(todo) = Len(C)
      BY <1>2, <2>1
    <3> QED BY <3>1
  <2>3. p = G[Len(replies) + 1]
    <3>1. Len(replies) + 1 \in 1..Len(G) /\ 1 + Len(replies) + 1 = Len(replies) + 1 + 1
      BY <1>1, <1>2, <2>1
    <3> QED BY <1>2, <2>1, <3>1
  <2>4. ASSUME NEW i \in 1..Len(todo) PROVE todo[i] = D[Len(replies) + i]
    <3>1. Len(replies) + i \in 1..Len(D) /\ 1 + Len(replies) + i = Len(replies) + i + 1
      BY <2>1, <2>2
    <3> QED BY <1>2, <2>1, <3>1
  <2>5. ASSUME NEW i \in 1..Len(replies) PROVE replies[i] = Respond(w, G[i], D[i])
    <3>1. i \in 1..Len(D) /\ i \in 1..Len(G) /\ 1 + i = i + 1
      BY <1>1, <1>2, <2>1, <2>2
    <3> QED BY <1>2, <2>1, <3>1
  <2> QED BY <2>1, <2>2, <2>3, <2>4, <2>5 DEF OnTheWay
<1> QED BY <1>2, <1>3, <1>4, <1>5, <1>6 DEF D, G

(* A new command that finds its handles in the last pools continues it.    *)
LEMMA Continues ==
  ASSUME NEW C \in Seq(Command), NEW H \in Seq(Pools), IsHistory(C, H),
         NEW c \in Command, ~PoolMiss(H[Len(H)], c), NEW q \in Pools, q = Execute(H[Len(H)], c)
  PROVE  /\ IsHistory(Append(C, c), Append(H, q))
         /\ Append(C, c) \in Seq(Command) /\ Append(H, q) \in Seq(Pools)
         /\ Len(Append(C, c)) = Len(C) + 1 /\ Len(Append(H, q)) = Len(H) + 1
         /\ Append(C, c)[Len(C) + 1] = c /\ Append(H, q)[Len(H) + 1] = q
         /\ C # <<>> => Append(C, c)[1] = C[1]
         /\ Append(H, q)[1] = H[1]
         /\ \A w \in Workers, read \in Nat, replies \in Seq(Response), todo \in Seq(Command) :
            \A p : OnTheWay(w, C, H, read, replies, todo, p) =>
                     OnTheWay(w, Append(C, c), Append(H, q), read, replies, Append(todo, c), p)
<1> DEFINE D == Append(C, c)
           G == Append(H, q)
<1>1. /\ Len(C) \in Nat /\ Len(H) = Len(C) + 1
      /\ \A i \in 1..Len(C) : ~PoolMiss(H[i], C[i]) /\ H[i + 1] = Execute(H[i], C[i])
  BY DEF IsHistory
<1>2. /\ D \in Seq(Command) /\ G \in Seq(Pools) /\ Len(D) = Len(C) + 1 /\ Len(G) = Len(H) + 1
      /\ (\A i \in 1..Len(C) : D[i] = C[i]) /\ D[Len(C) + 1] = c
      /\ (\A i \in 1..Len(H) : G[i] = H[i]) /\ G[Len(H) + 1] = q
  BY <1>1, AppendProperties
<1> HIDE DEF D, G
<1>3. IsHistory(D, G)
  <2>1. Len(G) = Len(D) + 1
    BY <1>1, <1>2
  <2>2. ASSUME NEW i \in 1..Len(D)
        PROVE  ~PoolMiss(G[i], D[i]) /\ G[i + 1] = Execute(G[i], D[i])
    <3>1. CASE i \in 1..Len(C)
      <4>1. i \in 1..Len(H) /\ i + 1 \in 1..Len(H)
        BY <1>1, <3>1
      <4>2. G[i] = H[i] /\ G[i + 1] = H[i + 1] /\ D[i] = C[i]
        BY <1>2, <3>1, <4>1
      <4> QED BY <1>1, <3>1, <4>2
    <3>2. CASE i = Len(C) + 1
      <4>1. i = Len(H) /\ i \in 1..Len(H) /\ i + 1 = Len(H) + 1
        BY <1>1, <3>2
      <4>2. G[i] = H[Len(H)] /\ G[i + 1] = q /\ D[i] = c
        BY <1>2, <3>2, <4>1
      <4> QED BY <4>2
    <3> QED BY <1>1, <1>2, <3>1, <3>2
  <2> QED BY <2>1, <2>2 DEF IsHistory
<1>4. (C # <<>> => D[1] = C[1]) /\ G[1] = H[1]
  BY <1>1, <1>2
<1>5. ASSUME NEW w \in Workers, NEW read \in Nat, NEW replies \in Seq(Response),
             NEW todo \in Seq(Command), NEW p, OnTheWay(w, C, H, read, replies, todo, p)
      PROVE  OnTheWay(w, D, G, read, replies, Append(todo, c), p)
  <2> DEFINE n == read + Len(replies)
             longer == Append(todo, c)
  <2>1. /\ n \in Nat /\ Len(todo) \in Nat /\ Len(replies) \in Nat
        /\ n + Len(todo) = Len(C) /\ p = H[n + 1]
        /\ \A i \in 1..Len(todo) : todo[i] = C[n + i]
        /\ \A i \in 1..Len(replies) : replies[i] = Respond(w, H[read + i], C[read + i])
    BY <1>5 DEF OnTheWay
  <2>2. /\ Len(longer) = Len(todo) + 1 /\ longer[Len(todo) + 1] = c
        /\ \A i \in 1..Len(todo) : longer[i] = todo[i]
    BY AppendProperties
  <2> HIDE DEF longer
  <2>3. n + Len(longer) = Len(D)
    BY <1>1, <1>2, <2>1, <2>2
  <2>4. p = G[n + 1]
    <3>1. n + 1 \in 1..Len(H)
      BY <1>1, <2>1
    <3> QED BY <1>2, <2>1, <3>1
  <2>5. ASSUME NEW i \in 1..Len(longer) PROVE longer[i] = D[n + i]
    <3>1. CASE i \in 1..Len(todo)
      <4>1. n + i \in 1..Len(C)
        BY <2>1, <3>1
      <4> QED BY <1>2, <2>1, <2>2, <3>1, <4>1
    <3>2. CASE i = Len(todo) + 1
      <4>1. n \in Nat /\ Len(todo) \in Nat /\ n + Len(todo) = Len(C)
        BY <2>1
      <4>2. n + i = Len(C) + 1
        <5> HIDE DEF n
        <5> QED BY <3>2, <4>1
      <4> QED BY <1>2, <2>2, <3>2, <4>2
    <3> QED BY <2>1, <2>2, <3>1, <3>2
  <2>6. ASSUME NEW i \in 1..Len(replies)
        PROVE  replies[i] = Respond(w, G[read + i], D[read + i])
    <3>1. read + i \in 1..Len(C) /\ read + i \in 1..Len(H)
      BY <1>1, <2>1
    <3> QED BY <1>2, <2>1, <3>1
  <2>7. OnTheWay(w, D, G, read, replies, longer, p)
    BY <2>3, <2>4, <2>5, <2>6 DEF OnTheWay
  <2> QED BY <2>7 DEF longer
<1> QED BY <1>2, <1>3, <1>4, <1>5 DEF D, G

-----------------------------------------------------------------------------
(* The queues of a worker, in a row.                                       *)

(* The commands in the hands of the dispatcher for w, and of the client.   *)
InDispatch(w) == IF w \in unwritten THEN dispatching ELSE <<>>
InClient == IF clientPc = "push" THEN <<clientCommand>> ELSE <<>>

(* What is in flight, stage by stage.                                      *)
LEMMA FlightTypes ==
  ASSUME TypeOK, NEW w \in Workers
  PROVE  /\ executing[w] \in Seq(Command) /\ workerQueue[w] \in Seq(Command)
         /\ toWorker[w] \in Seq(Command) /\ InDispatch(w) \in Seq(Command)
         /\ commandQueue \in Seq(Command) /\ InClient \in Seq(Command)
         /\ toController[w] \in Seq(Response) /\ sending[w] \in Seq(Response)
         /\ responseQueue[w] \in Seq(Response)
         /\ InFlight(w) = ((((executing[w] \o workerQueue[w]) \o toWorker[w]) \o InDispatch(w))
                             \o commandQueue) \o InClient
         /\ Replies(w) = (toController[w] \o sending[w]) \o responseQueue[w]
         /\ InFlight(w) \in Seq(Command) /\ Replies(w) \in Seq(Response)
<1>1. /\ executing[w] \in Seq(Command) /\ workerQueue[w] \in Seq(Command)
      /\ toWorker[w] \in Seq(Command) /\ commandQueue \in Seq(Command)
      /\ dispatching \in Seq(Command) /\ clientCommand \in Command
      /\ toController[w] \in Seq(Response) /\ sending[w] \in Seq(Response)
      /\ responseQueue[w] \in Seq(Response)
  BY DEF TypeOK, SocketsTypeOK, ExecutorTypeOK, ControllerTypeOK
<1>2. InDispatch(w) \in Seq(Command) /\ InClient \in Seq(Command)
  BY <1>1 DEF InDispatch, InClient
<1>3. InFlight(w) = ((((executing[w] \o workerQueue[w]) \o toWorker[w]) \o InDispatch(w))
                             \o commandQueue) \o InClient
  BY DEF InFlight, InDispatch, InClient
<1>4. Replies(w) = (toController[w] \o sending[w]) \o responseQueue[w]
  BY DEF Replies
<1>5. executing[w] \o workerQueue[w] \in Seq(Command)
  BY <1>1, ConcatProperties
<1>6. (executing[w] \o workerQueue[w]) \o toWorker[w] \in Seq(Command)
  BY <1>1, <1>5, ConcatProperties
<1>7. ((executing[w] \o workerQueue[w]) \o toWorker[w]) \o InDispatch(w) \in Seq(Command)
  BY <1>2, <1>6, ConcatProperties
<1>8. (((executing[w] \o workerQueue[w]) \o toWorker[w]) \o InDispatch(w)) \o commandQueue
        \in Seq(Command)
  BY <1>1, <1>7, ConcatProperties
<1>9. InFlight(w) \in Seq(Command)
  BY <1>2, <1>3, <1>8, ConcatProperties
<1>10. toController[w] \o sending[w] \in Seq(Response)
  BY <1>1, ConcatProperties
<1>11. Replies(w) \in Seq(Response)
  BY <1>1, <1>4, <1>10, ConcatProperties
<1> QED BY <1>1, <1>2, <1>3, <1>4, <1>9, <1>11

(* What worker w has in its process, a, followed by what it has not.       *)
Upstream(w, a) == (((a \o toWorker[w]) \o InDispatch(w)) \o commandQueue) \o InClient

(* The first of a is the first of all.                                     *)
LEMMA FirstInProcess ==
  ASSUME TypeOK, NEW w \in Workers, NEW a \in Seq(Command), a # <<>>
  PROVE  /\ Upstream(w, a) # <<>> /\ Upstream(w, a)[1] = a[1]
         /\ Tail(Upstream(w, a)) = Upstream(w, Tail(a))
<1> DEFINE b == a \o toWorker[w]
           f == b \o InDispatch(w)
           g == f \o commandQueue
<1>1. /\ toWorker[w] \in Seq(Command) /\ InDispatch(w) \in Seq(Command)
      /\ commandQueue \in Seq(Command) /\ InClient \in Seq(Command)
  BY FlightTypes
<1>2. b \in Seq(Command) /\ b # <<>> /\ b[1] = a[1] /\ Tail(b) = Tail(a) \o toWorker[w]
  BY SMTT(30), <1>1, TailOfConcat
<1>b. b \in Seq(Command) /\ b # <<>>
  BY <1>2
<1> HIDE DEF b
<1>3. f \in Seq(Command) /\ f # <<>> /\ f[1] = b[1] /\ Tail(f) = Tail(b) \o InDispatch(w)
  BY <1>1, <1>b, TailOfConcat
<1>f. f \in Seq(Command) /\ f # <<>>
  BY <1>3
<1> HIDE DEF f
<1>4. g \in Seq(Command) /\ g # <<>> /\ g[1] = f[1] /\ Tail(g) = Tail(f) \o commandQueue
  BY <1>1, <1>f, TailOfConcat
<1>g. g \in Seq(Command) /\ g # <<>>
  BY <1>4
<1> HIDE DEF g
<1>5. /\ g \o InClient # <<>> /\ (g \o InClient)[1] = g[1]
      /\ Tail(g \o InClient) = Tail(g) \o InClient
  BY <1>1, <1>g, TailOfConcat
<1> QED BY <1>2, <1>3, <1>4, <1>5 DEF b, f, g, Upstream

(* The first of all commands is the one in execution.                      *)
LEMMA FirstInFlight ==
  ASSUME TypeOK, NEW w \in Workers, executing[w] # <<>>
  PROVE  /\ InFlight(w) # <<>> /\ InFlight(w)[1] = executing[w][1]
         /\ Tail(InFlight(w)) = Upstream(w, Tail(executing[w]) \o workerQueue[w])
<1>1. executing[w] \in Seq(Command) /\ workerQueue[w] \in Seq(Command)
  BY FlightTypes
<1> DEFINE a == executing[w] \o workerQueue[w]
<1>2. InFlight(w) = Upstream(w, a)
  BY FlightTypes DEF Upstream
<1>3. /\ a \in Seq(Command) /\ a # <<>> /\ a[1] = executing[w][1]
      /\ Tail(a) = Tail(executing[w]) \o workerQueue[w]
  BY ZenonT(40), <1>1, TailOfConcat
<1> HIDE DEF a
<1>4. /\ Upstream(w, a) # <<>> /\ Upstream(w, a)[1] = a[1]
      /\ Tail(Upstream(w, a)) = Upstream(w, Tail(a))
  BY <1>3, FirstInProcess
<1> QED BY <1>2, <1>3, <1>4

(* ... or, if there is none, the next in the queue of the worker.          *)
LEMMA FirstInQueue ==
  ASSUME TypeOK, NEW w \in Workers, executing[w] = <<>>, workerQueue[w] # <<>>
  PROVE  InFlight(w) # <<>> /\ InFlight(w)[1] = Head(workerQueue[w])
<1> DEFINE a == workerQueue[w]
<1>1. a \in Seq(Command) /\ a # <<>> /\ Head(a) = a[1] /\ <<>> \o a = a
  <2>1. a \in Seq(Command) /\ a # <<>>
    BY FlightTypes
  <2> HIDE DEF a
  <2> QED BY <2>1
<1>2. InFlight(w) = Upstream(w, a)
  <2>1. InFlight(w) = Upstream(w, executing[w] \o workerQueue[w])
    BY FlightTypes DEF Upstream
  <2> QED BY <1>1, <2>1
<1> HIDE DEF a
<1>3. Upstream(w, a) # <<>> /\ Upstream(w, a)[1] = a[1]
  BY <1>1, FirstInProcess
<1>4. InFlight(w) # <<>> /\ InFlight(w)[1] = Head(a)
  BY <1>1, <1>2, <1>3
<1> QED BY <1>4 DEF a

(* The first of all responses is the first in the socket.                  *)
LEMMA FirstOfReplies ==
  ASSUME NEW t \in Seq(Response), NEW s \in Seq(Response), NEW q \in Seq(Response), t # <<>>
  PROVE  /\ (t \o s) \o q # <<>> /\ ((t \o s) \o q)[1] = t[1]
         /\ Tail((t \o s) \o q) = (Tail(t) \o s) \o q
<1>1. /\ t \o s \in Seq(Response) /\ t \o s # <<>> /\ (t \o s)[1] = t[1]
      /\ Tail(t \o s) = Tail(t) \o s
  BY TailOfConcat
<1> DEFINE a == t \o s
<1>2. a \o q # <<>> /\ (a \o q)[1] = a[1] /\ Tail(a \o q) = Tail(a) \o q
  BY <1>1, TailOfConcat
<1> QED BY <1>1, <1>2

(* A hand that holds one item.                                             *)
LEMMA OneItem ==
  ASSUME NEW S, NEW s \in Seq(S), Len(s) = 1
  PROVE  s # <<>> /\ s[1] \in S /\ Head(s) = s[1] /\ Tail(s) = <<>> /\ s = <<s[1]>>
<1>1. s # <<>> /\ s[1] \in S /\ Head(s) = s[1]
  OBVIOUS
<1>2. Tail(s) \in Seq(S) /\ Len(Tail(s)) = 0
  OBVIOUS
<1>3. Tail(s) = <<>>
  BY <1>2, EmptySeq
<1>4. <<s[1]>> \in Seq(S) /\ Len(<<s[1]>>) = 1 /\ <<s[1]>>[1] = s[1]
  BY <1>1
<1>5. s = <<s[1]>>
  BY <1>4, SeqEqual
<1> QED BY <1>1, <1>3, <1>5

(* Its item is put at the end of a queue.                                  *)
LEMMA HandToQueue ==
  ASSUME NEW S, NEW t \in Seq(S), NEW s \in Seq(S), Len(s) = 1
  PROVE  Append(t, s[1]) \o <<>> = t \o s
<1>1. s = <<s[1]>> /\ s[1] \in S
  BY OneItem
<1>2. Append(t, s[1]) = t \o <<s[1]>> /\ Append(t, s[1]) \in Seq(S)
  BY <1>1, AppendIsConcat
<1>3. Append(t, s[1]) \o <<>> = Append(t, s[1])
  BY <1>2
<1> QED BY <1>1, <1>2, <1>3

-----------------------------------------------------------------------------
(* A worker follows a history if a step changes nothing that it shows.     *)
LEMMA KeepsFollows ==
  ASSUME NEW w \in Workers, NEW C, NEW H, Follows(w, C, H),
         Live(w)' => Live(w), ReadFrom(w)' = ReadFrom(w), Replies(w)' = Replies(w),
         InFlight(w)' = InFlight(w), pools'[w] = pools[w],
         (handling' # <<>> /\ responseBuffers'[w] # <<>>) =>
           handling # <<>> /\ responseBuffers'[w] = responseBuffers[w]
  PROVE  Follows(w, C, H)'
<1> SUFFICES ASSUME Live(w)'
             PROVE  /\ OnTheWay(w, C, H, ReadFrom(w)', Replies(w)', InFlight(w)', pools'[w])
                    /\ (handling' # <<>> /\ responseBuffers'[w] # <<>>) =>
                         responseBuffers'[w][1] = Respond(w, H[1], C[1])
  BY DEF Follows, OnTheWay
<1> QED BY DEF Follows

(* The same for a whole history.                                           *)
LEMMA KeepsHistory ==
  ASSUME NEW C, NEW H, HistoryOf(C, H), Len(Pending)' = Len(Pending), held' = held,
         (clientPc' = "push" \/ Waiting') => (clientPc = "push" \/ Waiting),
         clientCommand' = clientCommand, Fresh' => Fresh,
         \A w \in Workers : Follows(w, C, H)'
  PROVE  HistoryOf(C, H)'
BY DEF HistoryOf, HoldsOnly, IsHistory

-----------------------------------------------------------------------------
(* The steps of a worker.                                                  *)

(* It executes a command.                                                  *)
LEMMA ExecutionFollows ==
  ASSUME TypeOK, NEW w \in Workers, NEW C \in Seq(Command), NEW H \in Seq(Pools),
         IsHistory(C, H), Follows(w, C, H), Running(w), Len(executing[w]) = 1,
         UNCHANGED controllerVars, workerQueue'[w] = workerQueue[w], toWorker'[w] = toWorker[w],
         toController'[w] = toController[w], sending'[w] = sending[w],
         executing'[w] = <<>>, pools'[w] = Execute(pools[w], executing[w][1]),
         responseQueue'[w] = Append(responseQueue[w], Respond(w, pools[w], executing[w][1]))
  PROVE  Follows(w, C, H)'
<1> DEFINE c == executing[w][1]
           r == Respond(w, pools[w], c)
<1>1. c \in Command /\ executing[w] # <<>> /\ Tail(executing[w]) = <<>> /\ r \in Response
  <2>1. executing[w] \in Seq(Command) /\ pools[w] \in Pools
    BY FlightTypes DEF TypeOK, ExecutorTypeOK
  <2>2. c \in Command /\ executing[w] # <<>> /\ Tail(executing[w]) = <<>>
    BY <2>1, OneItem
  <2> QED BY <2>1, <2>2, RespondType
<1>2. UNCHANGED <<unwritten, dispatching, commandQueue, clientPc, clientCommand, handling,
                  unread, responseBuffers>>
  BY DEF controllerVars, clientVars, dispatcherVars, handlerVars
<1>3. ReadFrom(w)' = ReadFrom(w) /\ ReadFrom(w) \in Nat
  BY <1>2 DEF ReadFrom
<1>4. Replies(w)' = Append(Replies(w), r)
  <2>1. Replies(w)' = (toController[w] \o sending[w]) \o Append(responseQueue[w], r)
    BY DEF Replies
  <2>2. /\ toController[w] \o sending[w] \in Seq(Response) /\ responseQueue[w] \in Seq(Response)
        /\ Replies(w) = (toController[w] \o sending[w]) \o responseQueue[w]
    BY FlightTypes, ConcatProperties
  <2>3. r \in Response
    BY <1>1
  <2> HIDE DEF r
  <2> DEFINE a == toController[w] \o sending[w]
             q == responseQueue[w]
  <2>4. a \in Seq(Response) /\ q \in Seq(Response)
    BY <2>2
  <2>5. a \o Append(q, r) = Append(a \o q, r)
    <3> HIDE DEF a, q
    <3> QED BY <2>3, <2>4, AppendToConcat
  <2> QED BY <2>1, <2>2, <2>5
<1>5. InFlight(w) # <<>> /\ InFlight(w)[1] = c /\ InFlight(w)' = Tail(InFlight(w))
  <2>1. InFlight(w)' = Upstream(w, <<>> \o workerQueue[w])
    BY <1>2 DEF InFlight, InDispatch, InClient, Upstream
  <2>2. /\ InFlight(w) # <<>> /\ InFlight(w)[1] = c
        /\ Tail(InFlight(w)) = Upstream(w, Tail(executing[w]) \o workerQueue[w])
    BY <1>1, FirstInFlight
  <2> QED BY <1>1, <2>1, <2>2
<1> DEFINE read == ReadFrom(w)
           replies == Replies(w)
           todo == InFlight(w)
           p == pools[w]
<1>6. OnTheWay(w, C, H, read, replies, todo, p)
  BY DEF Follows, Live
<1>7. replies \in Seq(Response) /\ todo \in Seq(Command)
  BY FlightTypes
<1>8. OnTheWay(w, C, H, read, Append(replies, r), Tail(todo), Execute(p, c))
  <2> HIDE DEF read, replies, todo, p
  <2>1. /\ read \in Nat /\ todo # <<>> /\ todo[1] = c /\ r = Respond(w, p, todo[1])
        /\ Respond(w, p, todo[1]) \in Response
    BY <1>1, <1>3, <1>5 DEF read, todo, p
  <2> HIDE DEF c, r
  <2>2. OnTheWay(w, C, H, read, Append(replies, Respond(w, p, todo[1])), Tail(todo),
                 Execute(p, todo[1]))
    BY <1>6, <1>7, <2>1, ExecutesNext
  <2> QED BY <2>1, <2>2
<1>9. OnTheWay(w, C, H, ReadFrom(w)', Replies(w)', InFlight(w)', pools'[w])
  BY <1>3, <1>4, <1>5, <1>8
<1>10. (handling' # <<>> /\ responseBuffers'[w] # <<>>) =>
         responseBuffers'[w][1] = Respond(w, H[1], C[1])
  BY <1>2 DEF Follows, Live
<1> QED BY <1>9, <1>10 DEF Follows, OnTheWay

(* Shutdown leaves the pools alone.                                        *)
LEMMA ShutdownExecutesNothing ==
  ASSUME NEW p, NEW c, c.type = "Shutdown"
  PROVE  Execute(p, c) = p
BY DEF Execute, NewDevice, NewLayout, NewTensor

(* A worker connects while there is no history yet.                        *)
LEMMA ConnectionFollows ==
  ASSUME ShutdownInv, NEW w \in Workers, Connect(w), UNCHANGED controllerVars,
         NEW C \in Seq(Command), NEW H \in Seq(Pools), HistoryOf(C, H)
  PROVE  Follows(w, C, H)'
<1>a. TypeOK /\ LaunchOK
  BY DEF ShutdownInv, IInv
<1>1. clientPc = "accepting"
  BY <1>a DEF Connect, ControllerClosed, LaunchOK
<1>2. Pending = <<>> /\ commandQueue = <<>> /\ unwritten = {} /\ Fresh
  BY <1>a, <1>1 DEF LaunchOK, Fresh
<1>3. Len(C) = 0 /\ H[1] = EmptyPools
  BY <1>2 DEF HistoryOf
<1>4. handling = <<>>
  BY <1>a, <1>2 DEF Pending, TypeOK, ControllerTypeOK
<1>5. UNCHANGED <<unwritten, dispatching, commandQueue, clientPc, clientCommand, handling,
                  unread, responseBuffers>>
  BY DEF controllerVars, clientVars, dispatcherVars, handlerVars
<1>6. /\ executing'[w] = <<>> /\ workerQueue'[w] = <<>> /\ toWorker'[w] = <<>>
      /\ toController'[w] = <<>> /\ sending'[w] = <<>> /\ responseQueue'[w] = <<>>
      /\ pools'[w] = EmptyPools
  BY <1>a DEF Connect, TypeOK, SocketsTypeOK, ExecutorTypeOK
<1>7. <<>> \o <<>> = <<>>
  OBVIOUS
<1>8. InFlight(w)' = <<>>
  BY <1>1, <1>2, <1>5, <1>6, <1>7 DEF InFlight
<1>9. Replies(w)' = <<>> /\ ReadFrom(w)' = 0
  BY <1>4, <1>5, <1>6, <1>7 DEF Replies, ReadFrom
<1>10. OnTheWay(w, C, H, 0, <<>>, <<>>, EmptyPools)
  BY <1>3 DEF OnTheWay
<1>11. OnTheWay(w, C, H, ReadFrom(w)', Replies(w)', InFlight(w)', pools'[w])
  BY <1>6, <1>8, <1>9, <1>10
<1> QED BY <1>4, <1>5, <1>11 DEF Follows, OnTheWay

(* Any step of worker w, seen by w.                                        *)
LEMMA WorkerFollows ==
  ASSUME ShutdownInv, NEW w \in Workers, WorkerNext(w), UNCHANGED controllerVars,
         NEW C \in Seq(Command), NEW H \in Seq(Pools), HistoryOf(C, H)
  PROVE  Follows(w, C, H)'
<1> USE DEF socketVars, workerVars
<1>a. TypeOK /\ HandsOK
  BY DEF ShutdownInv, IInv
<1>b. IsHistory(C, H) /\ Follows(w, C, H)
  BY DEF HistoryOf
<1>c. /\ UNCHANGED <<unwritten, dispatching, commandQueue, clientPc, clientCommand, handling,
                     unread, responseBuffers>>
      /\ ReadFrom(w)' = ReadFrom(w)
      /\ InDispatch(w)' = InDispatch(w) /\ InClient' = InClient
  BY DEF controllerVars, clientVars, dispatcherVars, handlerVars, ReadFrom, InDispatch, InClient
<1>f. /\ DOMAIN workerProc = Workers /\ DOMAIN executing = Workers
      /\ DOMAIN sending = Workers
      /\ DOMAIN toController = Workers /\ DOMAIN responseQueue = Workers
      /\ DOMAIN workerQueue = Workers /\ DOMAIN toWorker = Workers
      /\ DOMAIN pools = Workers
  BY <1>a DEF TypeOK, SocketsTypeOK, ExecutorTypeOK
<1>g. ASSUME Live(w)' => Live(w), Replies(w)' = Replies(w), InFlight(w)' = InFlight(w),
             pools'[w] = pools[w]
      PROVE  Follows(w, C, H)'
  BY <1>b, <1>c, <1>g, KeepsFollows
<1>h. ASSUME UNCHANGED <<toController, sending, responseQueue>> PROVE Replies(w)' = Replies(w)
  BY <1>h DEF Replies
<1>i. ASSUME UNCHANGED <<executing, workerQueue, toWorker>> PROVE InFlight(w)' = InFlight(w)
  BY <1>c, <1>i DEF InFlight
<1>1. CASE Connect(w)
  BY <1>1, ConnectionFollows
<1>2. CASE ConnectFails(w) \/ ReceiveEof(w) \/ ExecuteThrows(w) \/ WriteResponseFails(w) \/ Crash(w)
  <2>1. workerProc'[w] = "crashed"
    BY <1>f, <1>2 DEF ConnectFails, ReceiveEof, ExecuteThrows, WriteResponseFails, Crash, WorkerDies
  <2> QED BY <2>1 DEF Follows, Live, Running
<1>3. CASE ReceiveCommand(w)
  <2>1. /\ executing'[w] = executing[w] /\ toWorker[w] # <<>>
        /\ workerQueue'[w] = Append(workerQueue[w], Head(toWorker[w]))
        /\ toWorker'[w] = Tail(toWorker[w]) /\ pools'[w] = pools[w]
        /\ UNCHANGED <<toController, sending, responseQueue, workerProc, connected>>
    BY <1>f, <1>3 DEF ReceiveCommand
  <2>2. (executing[w] \o Append(workerQueue[w], Head(toWorker[w]))) \o Tail(toWorker[w])
          = (executing[w] \o workerQueue[w]) \o toWorker[w]
    <3>1. /\ executing[w] \in Seq(Command) /\ workerQueue[w] \in Seq(Command)
          /\ toWorker[w] \in Seq(Command) /\ toWorker[w] # <<>>
      BY <1>a, <2>1, FlightTypes
    <3> DEFINE e == executing[w]
               q == workerQueue[w]
               t == toWorker[w]
    <3>2. e \in Seq(Command) /\ q \in Seq(Command) /\ t \in Seq(Command) /\ t # <<>>
      BY <3>1
    <3>3. (e \o Append(q, Head(t))) \o Tail(t) = (e \o q) \o t
      <4> HIDE DEF e, q, t
      <4> QED BY <3>2, MoveToLast, Zenon
    <3> QED BY <3>3
  <2>3. InFlight(w)' = InFlight(w)
    BY <1>c, <2>1, <2>2 DEF InFlight
  <2> QED BY <1>g, <1>h, <2>1, <2>3 DEF Live, Running
<1>4. CASE PopWorkerCommand(w)
  <2>1. /\ executing'[w] = <<Head(workerQueue[w])>> /\ workerQueue[w] # <<>>
        /\ workerQueue'[w] = Tail(workerQueue[w]) /\ executorPc[w] = "loop"
        /\ UNCHANGED <<toController, sending, responseQueue, workerProc, connected, pools, toWorker>>
    BY <1>f, <1>4 DEF PopWorkerCommand
  <2>2. executing[w] = <<>> /\ workerQueue[w] \in Seq(Command)
    <3>1. Len(executing[w]) = 0
      BY <1>a, <2>1 DEF HandsOK
    <3> QED BY <1>a, <3>1, FlightTypes, EmptySeq
  <2>3. <<Head(workerQueue[w])>> \o Tail(workerQueue[w]) = <<>> \o workerQueue[w]
    BY <2>1, <2>2
  <2>4. InFlight(w)' = InFlight(w)
    BY <1>c, <2>1, <2>2, <2>3 DEF InFlight
  <2> QED BY <1>g, <1>h, <2>1, <2>4 DEF Live, Running
<1>5. CASE ExecuteCommand(w)
  <2>1. Running(w) /\ Len(executing[w]) = 1
    BY <1>a, <1>5 DEF ExecuteCommand, HandsOK
  <2>2. /\ workerQueue'[w] = workerQueue[w] /\ toWorker'[w] = toWorker[w]
        /\ toController'[w] = toController[w] /\ sending'[w] = sending[w]
        /\ executing'[w] = <<>> /\ pools'[w] = Execute(pools[w], executing[w][1])
        /\ responseQueue'[w] = Append(responseQueue[w], Respond(w, pools[w], executing[w][1]))
    BY <1>f, <1>5 DEF ExecuteCommand
  <2> QED BY <1>a, <1>b, <2>1, <2>2, ExecutionFollows
<1>6. CASE ExecuteShutdown(w)
  <2>1. Running(w) /\ Len(executing[w]) = 1
    BY <1>a, <1>6 DEF ExecuteShutdown, HandsOK
  <2>2. /\ workerQueue'[w] = workerQueue[w] /\ toWorker'[w] = toWorker[w]
        /\ toController'[w] = toController[w] /\ sending'[w] = sending[w]
        /\ executing'[w] = <<>> /\ pools'[w] = pools[w] /\ executing[w][1].type = "Shutdown"
        /\ responseQueue'[w] = Append(responseQueue[w], Respond(w, pools[w], executing[w][1]))
    BY <1>f, <1>6 DEF ExecuteShutdown
  <2>3. Execute(pools[w], executing[w][1]) = pools[w]
    BY <2>2, ShutdownExecutesNothing
  <2> QED BY <1>a, <1>b, <2>1, <2>2, <2>3, ExecutionFollows
<1>7. CASE WorkerExits(w)
  <2>1. Running(w) /\ UNCHANGED <<toController, sending, responseQueue, executing, workerQueue,
                                  toWorker, pools>>
    BY <1>7 DEF WorkerExits
  <2> QED BY <1>g, <1>h, <1>i, <2>1 DEF Live
<1>8. CASE PopResponse(w)
  <2>1. /\ toController'[w] = toController[w] /\ sending'[w] = <<Head(responseQueue[w])>>
        /\ responseQueue[w] # <<>> /\ responseQueue'[w] = Tail(responseQueue[w])
        /\ senderPc[w] # "write"
        /\ UNCHANGED <<executing, workerQueue, toWorker, workerProc, connected, pools>>
    BY <1>f, <1>8 DEF PopResponse
  <2>2. sending[w] = <<>>
    <3>1. Len(sending[w]) = 0
      BY <1>a, <2>1 DEF HandsOK
    <3> QED BY <1>a, <3>1, FlightTypes, EmptySeq
  <2>3. (toController[w] \o <<Head(responseQueue[w])>>) \o Tail(responseQueue[w])
          = (toController[w] \o <<>>) \o responseQueue[w]
    <3>1. toController[w] \in Seq(Response) /\ responseQueue[w] \in Seq(Response)
      BY <1>a, FlightTypes
    <3> QED BY <2>1, <3>1, MoveToEmpty
  <2>4. Replies(w)' = Replies(w)
    BY <2>1, <2>2, <2>3 DEF Replies
  <2> QED BY <1>g, <1>i, <2>1, <2>4 DEF Live, Running
<1>9. CASE WriteResponse(w)
  <2>1. /\ toController'[w] = Append(toController[w], sending[w][1]) /\ sending'[w] = <<>>
        /\ responseQueue'[w] = responseQueue[w] /\ senderPc[w] = "write"
        /\ UNCHANGED <<executing, workerQueue, toWorker, workerProc, connected, pools>>
    BY <1>f, <1>9 DEF WriteResponse
  <2>2. sending[w] \in Seq(Response) /\ toController[w] \in Seq(Response)
    BY <1>a, FlightTypes
  <2>3. Len(sending[w]) = 1
    BY <1>a, <2>1 DEF HandsOK
  <2>4. Append(toController[w], sending[w][1]) \o <<>> = toController[w] \o sending[w]
    BY <2>2, <2>3, HandToQueue
  <2>5. Replies(w)' = Replies(w)
    BY <2>1, <2>4 DEF Replies
  <2> QED BY <1>g, <1>i, <2>1, <2>5 DEF Live, Running
<1>10. CASE ReceiverExits(w) \/ RequestShutdown(w) \/ JoinReceiver(w) \/ SenderSeesShutdown(w)
              \/ SenderChecksEmpty(w) \/ Hang(w)
  <2>1. UNCHANGED <<toController, sending, responseQueue, executing, workerQueue, toWorker, pools,
                    workerProc, connected>>
    BY <1>10 DEF ReceiverExits, RequestShutdown, JoinReceiver, SenderSeesShutdown,
                 SenderChecksEmpty, Hang
  <2> QED BY <1>g, <1>h, <1>i, <2>1 DEF Live, Running
<1> QED BY <1>1, <1>2, <1>3, <1>4, <1>5, <1>6, <1>7, <1>8, <1>9, <1>10
        DEF WorkerNext, Starting, Receiver, Executor, Sender

(* ... and by all.                                                         *)
LEMMA WorkerKeepsHistory ==
  ASSUME ShutdownInv, NEW w \in Workers, WorkerNext(w), UNCHANGED controllerVars,
         NEW C \in Seq(Command), NEW H \in Seq(Pools), HistoryOf(C, H)
  PROVE  HistoryOf(C, H)'
<1>a. TypeOK
  BY DEF ShutdownInv, IInv
<1>b. UNCHANGED <<unwritten, dispatching, commandQueue, clientPc, clientCommand, handling,
                  awaitingResponseQueue, unread, responseBuffers, held, promise, launched>>
  BY DEF controllerVars, clientVars, dispatcherVars, handlerVars
<1>c. connected' = connected
  BY DEF WorkerNext, Starting, Receiver, Executor, Sender, Connect, ConnectFails, ReceiveCommand,
         ReceiveEof, ReceiverExits, PopWorkerCommand, ExecuteCommand, ExecuteThrows,
         ExecuteShutdown, RequestShutdown, JoinReceiver, WorkerExits, PopResponse, WriteResponse,
         WriteResponseFails, SenderSeesShutdown, SenderChecksEmpty, Hang, Crash, WorkerDies,
         socketVars
<1>1. Follows(w, C, H)'
  BY WorkerFollows
<1>2. ASSUME NEW v \in Workers \ {w} PROVE Follows(v, C, H)'
  <2>1. /\ toController'[v] = toController[v] /\ sending'[v] = sending[v]
        /\ responseQueue'[v] = responseQueue[v] /\ executing'[v] = executing[v]
        /\ workerQueue'[v] = workerQueue[v] /\ toWorker'[v] = toWorker[v]
        /\ workerProc'[v] = workerProc[v] /\ pools'[v] = pools[v]
    BY <1>a, OtherWorkers
  <2>2. (Live(v)' => Live(v)) /\ ReadFrom(v)' = ReadFrom(v)
    BY <1>b, <1>c, <2>1 DEF Live, Running, ReadFrom
  <2>3. Replies(v)' = Replies(v) /\ InFlight(v)' = InFlight(v)
    BY <1>b, <2>1 DEF Replies, InFlight
  <2>4. Follows(v, C, H)
    BY DEF HistoryOf
  <2> QED BY <1>b, <2>1, <2>2, <2>3, <2>4, KeepsFollows
<1>3. \A v \in Workers : Follows(v, C, H)'
  BY <1>1, <1>2
<1> QED BY <1>b, <1>3, KeepsHistory DEF Pending, Waiting, Fresh

(* The next command of a worker that follows a history finds its handles.  *)
LEMMA NextHasNoMiss ==
  ASSUME TypeOK, NEW w \in Workers, Live(w), NEW C \in Seq(Command), NEW H \in Seq(Pools),
         IsHistory(C, H), Follows(w, C, H), InFlight(w) # <<>>
  PROVE  ~PoolMiss(pools[w], InFlight(w)[1])
<1> DEFINE read == ReadFrom(w)
           replies == Replies(w)
           todo == InFlight(w)
           p == pools[w]
<1>1. replies \in Seq(Response) /\ todo \in Seq(Command) /\ read \in Nat /\ p \in Pools
  BY FlightTypes DEF ReadFrom, TypeOK, ExecutorTypeOK
<1>2. OnTheWay(w, C, H, read, replies, todo, p) /\ todo # <<>>
  BY DEF Follows
<1> HIDE DEF read, replies, todo, p
<1>3. Respond(w, p, todo[1]) \in Response
  BY <1>1, <1>2, RespondType
<1>4. ~PoolMiss(p, todo[1])
  BY <1>1, <1>2, <1>3, ExecutesNext
<1> QED BY <1>4 DEF p, todo

(* A step of a worker keeps every pool lookup successful.                  *)
LEMMA WorkerKeepsNoMiss ==
  ASSUME ShutdownInv, NoPoolMiss, NEW w \in Workers, WorkerNext(w), UNCHANGED controllerVars,
         NEW C \in Seq(Command), NEW H \in Seq(Pools), HistoryOf(C, H)
  PROVE  NoPoolMiss'
<1> USE DEF socketVars, workerVars
<1>a. TypeOK /\ HandsOK
  BY DEF ShutdownInv, IInv
<1>f. /\ DOMAIN executing = Workers /\ DOMAIN pools = Workers
  BY <1>a DEF TypeOK, ExecutorTypeOK
<1>1. ASSUME NEW v \in Workers \ {w}, executing'[v] # <<>>
      PROVE  ~PoolMiss(pools'[v], executing'[v][1])
  BY <1>a, <1>1, OtherWorkers DEF NoPoolMiss
<1>2. ASSUME executing'[w] # <<>>
      PROVE  ~PoolMiss(pools'[w], executing'[w][1])
  <2>1. CASE PopWorkerCommand(w)
    <3>1. /\ Live(w) /\ workerQueue[w] # <<>> /\ executorPc[w] = "loop"
          /\ executing'[w] = <<Head(workerQueue[w])>> /\ pools'[w] = pools[w]
      BY <1>f, <2>1 DEF PopWorkerCommand, Live
    <3>2. IsHistory(C, H) /\ Follows(w, C, H)
      BY DEF HistoryOf
    <3>3. executing[w] = <<>>
      <4>1. Len(executing[w]) = 0
        BY <1>a, <3>1 DEF HandsOK
      <4> QED BY <1>a, <4>1, FlightTypes, EmptySeq
    <3>4. InFlight(w) # <<>> /\ InFlight(w)[1] = Head(workerQueue[w])
      BY <1>a, <3>1, <3>3, FirstInQueue
    <3>5. ~PoolMiss(pools[w], InFlight(w)[1])
      BY <1>a, <3>1, <3>2, <3>4, NextHasNoMiss
    <3> QED BY <3>1, <3>4, <3>5
  <2>2. CASE ~PopWorkerCommand(w)
    <3>1. executing'[w] = <<>> \/ (executing'[w] = executing[w] /\ pools'[w] = pools[w])
      <4>1. CASE Starting(w)
        BY <1>f, <4>1 DEF Starting, Connect, ConnectFails
      <4>2. CASE Receiver(w)
        BY <4>2 DEF Receiver, ReceiveCommand, ReceiveEof, ReceiverExits
      <4>3. CASE Executor(w)
        BY <1>f, <2>2, <4>3 DEF Executor, ExecuteCommand, ExecuteThrows, ExecuteShutdown,
                 RequestShutdown, JoinReceiver, WorkerExits
      <4>4. CASE Sender(w) \/ Hang(w) \/ Crash(w)
        BY <4>4 DEF Sender, PopResponse, WriteResponse, WriteResponseFails,
                    SenderSeesShutdown, SenderChecksEmpty, Hang, Crash
      <4> QED BY <4>1, <4>2, <4>3, <4>4 DEF WorkerNext
    <3> QED BY <1>2, <3>1 DEF NoPoolMiss
  <2> QED BY <2>1, <2>2
<1> QED BY <1>1, <1>2 DEF NoPoolMiss

-----------------------------------------------------------------------------
(* The steps of the dispatcher move a command on.                          *)
LEMMA DispatcherKeepsHistory ==
  ASSUME ShutdownInv, Dispatcher, UNCHANGED workerVars,
         NEW C \in Seq(Command), NEW H \in Seq(Pools), HistoryOf(C, H)
  PROVE  HistoryOf(C, H)'
<1> USE DEF socketVars, workerVars
<1>a. TypeOK /\ HandsOK /\ \A w \in Workers : StoppingOK(w)
  BY DEF ShutdownInv, IInv
<1>b. /\ UNCHANGED <<clientPc, clientCommand, held, promise, launched, handling,
                     awaitingResponseQueue, unread, responseBuffers, toController, connected,
                     workerProc, sending, responseQueue, executing, workerQueue, pools>>
  BY DEF Dispatcher, PopCommand, WriteCommand, DispatchDone, WriteFatal, DispatcherSeesShutdown,
         DispatcherChecksEmpty, clientVars, handlerVars, controllerVars
<1>c. ASSUME \A w \in Workers : Live(w) => InFlight(w)' = InFlight(w)
      PROVE  HistoryOf(C, H)'
  <2>1. ASSUME NEW w \in Workers PROVE Follows(w, C, H)'
    <3>1. CASE Live(w)
      <4>1. /\ ReadFrom(w)' = ReadFrom(w) /\ Replies(w)' = Replies(w)
            /\ InFlight(w)' = InFlight(w) /\ Follows(w, C, H)
        BY <1>b, <1>c, <3>1 DEF ReadFrom, Replies, HistoryOf
      <4> QED BY <1>b, <3>1, <4>1, KeepsFollows
    <3>2. CASE ~Live(w)
      BY <1>b, <3>2 DEF Follows, Live, Running
    <3> QED BY <3>1, <3>2
  <2> QED BY <1>b, <2>1, KeepsHistory DEF Pending, Waiting, Fresh
<1>1. CASE PopCommand
  <2>1. /\ dispatching' = <<Head(commandQueue)>> /\ commandQueue' = Tail(commandQueue)
        /\ unwritten' = Workers /\ commandQueue # <<>> /\ dispatcherPc # "write"
        /\ toWorker' = toWorker
    BY <1>1 DEF PopCommand
  <2>2. unwritten = {}
    BY <1>a, <2>1 DEF HandsOK
  <2>3. ASSUME NEW w \in Workers PROVE InFlight(w)' = InFlight(w)
    <3> DEFINE a == (executing[w] \o workerQueue[w]) \o toWorker[w]
               q == commandQueue
    <3>1. a \in Seq(Command) /\ q \in Seq(Command) /\ q # <<>>
      BY <1>a, <2>1, FlightTypes, ConcatProperties
    <3>2. (a \o <<Head(q)>>) \o Tail(q) = (a \o <<>>) \o q
      <4> HIDE DEF a, q
      <4> QED BY <3>1, MoveToEmpty
    <3> QED BY <1>b, <2>1, <2>2, <3>2 DEF InFlight
  <2> QED BY <1>c, <2>3
<1>2. CASE \E v \in Workers : WriteCommand(v)
  <2>1. PICK v \in Workers : WriteCommand(v)
    BY <1>2
  <2>2. /\ v \in unwritten /\ unwritten' = unwritten \ {v} /\ dispatcherPc = "write"
        /\ UNCHANGED <<dispatching, commandQueue>>
        /\ toWorker' = IF Gone(v) THEN toWorker
                                  ELSE [toWorker EXCEPT ![v] = Append(@, dispatching[1])]
    BY <2>1 DEF WriteCommand
  <2>3. dispatching \in Seq(Command) /\ Len(dispatching) = 1 /\ DOMAIN toWorker = Workers
    BY <1>a, <2>2 DEF HandsOK, TypeOK, SocketsTypeOK, ControllerTypeOK
  <2>4. ASSUME NEW w \in Workers \ {v} PROVE InFlight(w)' = InFlight(w)
    <3>1. toWorker'[w] = toWorker[w] /\ (w \in unwritten' <=> w \in unwritten)
      BY <2>2, <2>3
    <3> QED BY <1>b, <2>2, <3>1 DEF InFlight
  <2>5. ASSUME Live(v) PROVE InFlight(v)' = InFlight(v)
    <3>1. ~Gone(v)
      BY <1>a, <2>2, <2>5 DEF StoppingOK, Live, Running, Gone
    <3>2. toWorker'[v] = Append(toWorker[v], dispatching[1]) /\ v \notin unwritten'
      BY <2>2, <2>3, <3>1
    <3> DEFINE a == executing[v] \o workerQueue[v]
               t == toWorker[v]
    <3>3. a \in Seq(Command) /\ t \in Seq(Command)
      BY <1>a, FlightTypes, ConcatProperties
    <3>4. (a \o Append(t, dispatching[1])) \o <<>> = (a \o t) \o dispatching
      <4>1. dispatching # <<>> /\ Head(dispatching) = dispatching[1] /\ Tail(dispatching) = <<>>
        BY <2>3, OneItem
      <4>2. (a \o Append(t, Head(dispatching))) \o Tail(dispatching) = (a \o t) \o dispatching
        <5> HIDE DEF a, t
        <5> QED BY <2>3, <3>3, <4>1, MoveToLast, Zenon
      <4> QED BY <4>1, <4>2
    <3> QED BY <1>b, <2>2, <3>2, <3>4 DEF InFlight
  <2> QED BY <1>c, <2>4, <2>5
<1>3. CASE DispatchDone
  <2>1. UNCHANGED <<commandQueue, toWorker, unwritten>> /\ unwritten = {}
    BY <1>3 DEF DispatchDone
  <2> QED BY <1>b, <1>c, <2>1 DEF InFlight
<1>4. CASE WriteFatal \/ DispatcherSeesShutdown \/ DispatcherChecksEmpty
  <2>1. UNCHANGED <<commandQueue, toWorker, dispatching, unwritten>>
    BY <1>4 DEF WriteFatal, DispatcherSeesShutdown, DispatcherChecksEmpty, controllerVars,
                dispatcherVars
  <2> QED BY <1>b, <1>c, <2>1 DEF InFlight
<1> QED BY <1>1, <1>2, <1>3, <1>4 DEF Dispatcher

-----------------------------------------------------------------------------
(* The steps of the response handler.                                      *)

(* A worker that has ended has answered every command, so the end of file  *)
(* is never read instead of a response from a worker that is not crashed.  *)
LEMMA NoEarlyEof ==
  ASSUME ShutdownInv, NEW C \in Seq(Command), NEW H \in Seq(Pools), HistoryOf(C, H),
         NEW w \in Workers, handlerPc = "read", w \in unread, EofFrom(w)
  PROVE  ~Live(w)
<1> SUFFICES ASSUME Live(w) PROVE FALSE
  OBVIOUS
<1>a. TypeOK /\ HandsOK /\ PromiseOK /\ ThreadsOK /\ StoppingOK(w)
  BY DEF ShutdownInv, IInv
<1>1. workerProc[w] = "exited" /\ toController[w] = <<>>
  BY DEF EofFrom, Gone, Live, Running
<1>2. /\ NothingToSend /\ w \notin unwritten /\ toWorker[w] = <<>> /\ workerQueue[w] = <<>>
      /\ senderPc[w] = "done" /\ responseQueue[w] = <<>> /\ Stopping(w)
  BY <1>a, <1>1 DEF StoppingOK
<1>3. executing[w] = <<>> /\ sending[w] = <<>>
  <2>1. Len(executing[w]) = 0 /\ Len(sending[w]) = 0
    BY <1>a, <1>2 DEF HandsOK, Stopping
  <2> QED BY <1>a, <2>1, FlightTypes, EmptySeq
<1>4. handling # <<>> /\ Pending # <<>>
  <2>1. Len(handling) = 1
    BY <1>a DEF HandsOK
  <2>2. handling \in Seq(AwaitingEntry) /\ Len(Pending) = Len(handling) + Len(awaitingResponseQueue)
        /\ Len(awaitingResponseQueue) \in Nat
    BY <1>a, PendingType DEF TypeOK, ControllerTypeOK
  <2>3. Len(Pending) # 0
    BY <2>1, <2>2
  <2> QED BY <2>1, <2>2, <2>3, OneItem
<1>5. commandQueue = <<>> /\ clientPc # "push"
  <2>1. clientPc # "join"
    BY <1>a, <1>4 DEF PromiseOK
  <2>2. dispatcherPc \notin {"none", "done"}
    BY <1>a, <2>1 DEF ThreadsOK
  <2> QED BY <1>2, <2>2 DEF NothingToSend
<1>6. <<>> \o <<>> = <<>>
  OBVIOUS
<1>7. InFlight(w) = <<>>
  BY <1>2, <1>3, <1>5, <1>6 DEF InFlight
<1>8. Replies(w) = <<>> /\ ReadFrom(w) = 0
  BY <1>1, <1>2, <1>3, <1>6 DEF Replies, ReadFrom
<1>9. OnTheWay(w, C, H, 0, <<>>, <<>>, pools[w])
  BY <1>7, <1>8 DEF HistoryOf, Follows
<1>10. Len(C) = 0
  BY <1>9 DEF OnTheWay
<1>11. Len(Pending) = 0 /\ Pending \in Seq(AwaitingEntry)
  BY <1>a, <1>10, PendingType DEF HistoryOf
<1> QED BY <1>4, <1>11, EmptySeq

(* One response is read.                                                   *)
LEMMA ReadKeepsHistory ==
  ASSUME ShutdownInv, NEW C \in Seq(Command), NEW H \in Seq(Pools), HistoryOf(C, H),
         NEW w \in Workers, ReadResponse(w), UNCHANGED workerVars
  PROVE  HistoryOf(C, H)'
<1> USE DEF socketVars, workerVars
<1>a. TypeOK /\ HandsOK
  BY DEF ShutdownInv, IInv
<1>b. UNCHANGED <<clientPc, clientCommand, held, promise, launched, handling, connected,
                  awaitingResponseQueue, workerProc, sending, responseQueue, executing,
                  workerQueue, pools, commandQueue, unwritten, dispatching, toWorker>>
  BY DEF ReadResponse, clientVars, dispatcherVars
<1>c. handling # <<>> /\ w \in unread /\ unread' = unread \ {w}
  <2>1. Len(handling) = 1
    BY <1>a DEF ReadResponse, HandsOK
  <2>2. handling \in Seq(AwaitingEntry)
    BY <1>a DEF TypeOK, ControllerTypeOK
  <2> QED BY <2>1, <2>2, OneItem DEF ReadResponse
<1>d. \A v \in Workers : InFlight(v)' = InFlight(v) /\ (Live(v)' <=> Live(v))
  BY <1>b DEF InFlight, Live, Running
<1>f. DOMAIN toController = Workers /\ DOMAIN responseBuffers = Workers
  BY <1>a DEF TypeOK, SocketsTypeOK, ControllerTypeOK
<1>1. ASSUME NEW v \in Workers \ {w} PROVE Follows(v, C, H)'
  <2>1. toController'[v] = toController[v] /\ responseBuffers'[v] = responseBuffers[v]
    BY <1>f DEF ReadResponse
  <2>2. /\ ReadFrom(v)' = ReadFrom(v) /\ Replies(v)' = Replies(v) /\ InFlight(v)' = InFlight(v)
        /\ Follows(v, C, H)
    BY <1>b, <1>c, <1>d, <2>1 DEF ReadFrom, Replies, HistoryOf
  <2> QED BY <1>b, <1>d, <2>1, <2>2, KeepsFollows
<1>2. Follows(w, C, H)'
  <2> SUFFICES ASSUME Live(w) PROVE Follows(w, C, H)'
    BY <1>d DEF Follows
  <2>1. ~EofFrom(w)
    BY NoEarlyEof DEF ReadResponse
  <2>2. /\ toController[w] # <<>> /\ responseBuffers'[w] = <<Head(toController[w])>>
        /\ toController'[w] = Tail(toController[w])
    BY <1>f, <2>1 DEF ReadResponse
  <2> DEFINE replies == Replies(w)
             todo == InFlight(w)
             p == pools[w]
  <2>3. replies \in Seq(Response) /\ todo \in Seq(Command)
    BY <1>a, FlightTypes
  <2>4. ReadFrom(w) = 0 /\ ReadFrom(w)' = 1
    BY <1>b, <1>c DEF ReadFrom
  <2>5. OnTheWay(w, C, H, 0, replies, todo, p)
    BY <2>4 DEF HistoryOf, Follows
  <2>6. /\ replies # <<>> /\ replies[1] = Head(toController[w])
        /\ Replies(w)' = Tail(replies)
    <3> DEFINE t == toController[w]
               s == sending[w]
               q == responseQueue[w]
    <3>1. /\ t \in Seq(Response) /\ s \in Seq(Response) /\ q \in Seq(Response) /\ t # <<>>
          /\ replies = (t \o s) \o q
      BY <1>a, <2>2, FlightTypes
    <3>2. Replies(w)' = (Tail(t) \o s) \o q
      BY <1>b, <2>2 DEF Replies
    <3> HIDE DEF t, s, q, replies
    <3>3. /\ (t \o s) \o q # <<>> /\ ((t \o s) \o q)[1] = t[1]
          /\ Tail((t \o s) \o q) = (Tail(t) \o s) \o q
      BY ZenonT(40), <3>1, FirstOfReplies
    <3>4. t[1] = Head(t)
      BY <3>1
    <3> QED BY <3>1, <3>2, <3>3, <3>4 DEF t
  <2>7. /\ OnTheWay(w, C, H, 1, Tail(replies), todo, p)
        /\ replies[1] = Respond(w, H[1], C[1])
    <3>1. replies # <<>>
      BY <2>6
    <3> HIDE DEF replies, todo, p
    <3> QED BY <2>3, <2>5, <3>1, ReadsFirst
  <2>8. OnTheWay(w, C, H, ReadFrom(w)', Replies(w)', InFlight(w)', pools'[w])
    BY <1>b, <1>d, <2>4, <2>6, <2>7
  <2>9. responseBuffers'[w][1] = Respond(w, H[1], C[1])
    BY <2>2, <2>6, <2>7
  <2> QED BY <2>8, <2>9 DEF Follows, OnTheWay
<1>3. \A v \in Workers : Follows(v, C, H)'
  BY <1>1, <1>2
<1> QED BY <1>b, <1>3, KeepsHistory DEF Pending, Waiting, Fresh

(* All have answered the first command: it leaves the history.             *)
LEMMA HandleKeepsHistory ==
  ASSUME ShutdownInv, PromiseOK', NEW C \in Seq(Command), NEW H \in Seq(Pools),
         HistoryOf(C, H), HandleResponse, UNCHANGED workerVars
  PROVE  \E D \in Seq(Command), G \in Seq(Pools) : HistoryOf(D, G)'
<1> USE DEF socketVars, workerVars
<1>a. TypeOK /\ HandsOK /\ LaunchOK /\ PromiseOK
  BY DEF ShutdownInv, IInv
<1>b. UNCHANGED <<clientPc, clientCommand, held, launched, connected, unread, toController,
                  awaitingResponseQueue, workerProc, sending, responseQueue, executing,
                  workerQueue, pools, commandQueue, unwritten, dispatching, toWorker>>
  BY DEF HandleResponse, clientVars, dispatcherVars
<1>c. handling # <<>> /\ unread = {} /\ handling' = <<>>
  <2>1. Len(handling) = 1
    BY <1>a DEF HandleResponse, HandsOK
  <2>2. handling \in Seq(AwaitingEntry)
    BY <1>a DEF TypeOK, ControllerTypeOK
  <2> QED BY <2>1, <2>2, OneItem DEF HandleResponse
<1>d. promise' = promise \/ promise'
  BY DEF HandleResponse
<1>1. /\ Pending \in Seq(AwaitingEntry) /\ Pending # <<>> /\ Pending' = Tail(Pending)
  BY <1>a, <1>c, PendingType, PendingHandled DEF HandleResponse
<1>2. Len(Pending) \in Nat \ {0} /\ Len(Pending') = Len(Pending) - 1
  BY <1>1
<1>3. IsHistory(C, H) /\ Len(C) = Len(Pending) /\ C # <<>>
  BY <1>2 DEF HistoryOf
<1> DEFINE D == Tail(C)
           G == Tail(H)
<1>4. /\ IsHistory(D, G) /\ D \in Seq(Command) /\ G \in Seq(Pools)
      /\ Len(D) = Len(C) - 1 /\ G[Len(G)] = H[Len(H)]
      /\ D # <<>> => D[Len(D)] = C[Len(C)]
      /\ \A w \in Workers, replies \in Seq(Response), todo \in Seq(Command) : \A p :
              OnTheWay(w, C, H, 1, replies, todo, p) => OnTheWay(w, D, G, 0, replies, todo, p)
  BY <1>3, ForgetsFirst
<1> HIDE DEF D, G
<1>5. ~Fresh'
  BY <1>a, <1>b, <1>1 DEF Fresh, LaunchOK
<1>6. (clientPc' = "push" \/ Waiting') => D[Len(D)] = clientCommand'
  <2> SUFFICES ASSUME clientPc' = "push" \/ Waiting' PROVE D[Len(D)] = clientCommand'
    OBVIOUS
  <2>1. clientPc = "push" \/ Waiting
    BY <1>b, <1>d DEF Waiting
  <2>2. C[Len(C)] = clientCommand
    BY <2>1 DEF HistoryOf
  <2>3. Len(Pending') > 0
    BY DEF PromiseOK
  <2>4. D # <<>>
    BY <1>2, <1>3, <1>4, <2>3
  <2> QED BY <1>b, <1>4, <2>2, <2>4
<1>7. ASSUME NEW w \in Workers PROVE Follows(w, D, G)'
  <2> SUFFICES ASSUME Live(w)' PROVE OnTheWay(w, D, G, ReadFrom(w)', Replies(w)', InFlight(w)', pools'[w])
    BY <1>c DEF Follows, OnTheWay
  <2>1. Live(w)
    BY <1>b DEF Live, Running
  <2>2. /\ ReadFrom(w) = 1 /\ ReadFrom(w)' = 0 /\ Replies(w)' = Replies(w)
        /\ InFlight(w)' = InFlight(w) /\ pools'[w] = pools[w]
    BY <1>b, <1>c DEF ReadFrom, Replies, InFlight
  <2>3. OnTheWay(w, C, H, 1, Replies(w), InFlight(w), pools[w])
    BY <2>1, <2>2 DEF HistoryOf, Follows
  <2>4. Replies(w) \in Seq(Response) /\ InFlight(w) \in Seq(Command)
    BY <1>a, FlightTypes
  <2>5. OnTheWay(w, D, G, 0, Replies(w), InFlight(w), pools[w])
    BY <1>4, <2>3, <2>4
  <2> QED BY <2>2, <2>5
<1>8. HoldsOnly(G[Len(G)])'
  BY <1>b, <1>4 DEF HistoryOf, HoldsOnly
<1>9. HistoryOf(D, G)'
  <2>1. IsHistory(D, G)' /\ Len(D) = Len(Pending')
    BY <1>2, <1>3, <1>4 DEF IsHistory
  <2> QED BY <1>5, <1>6, <1>7, <1>8, <2>1 DEF HistoryOf
<1> QED BY <1>4, <1>9

(* The steps of the response handler preserve the history: an answer that  *)
(* is handled takes the first command away.                                *)
LEMMA HandlerKeepsHistory ==
  ASSUME ShutdownInv, PromiseOK', NEW C \in Seq(Command), NEW H \in Seq(Pools),
         HistoryOf(C, H), Handler, UNCHANGED workerVars
  PROVE  \E D \in Seq(Command), G \in Seq(Pools) : HistoryOf(D, G)'
<1> USE DEF socketVars, workerVars
<1>a. TypeOK /\ HandsOK
  BY DEF ShutdownInv, IInv
<1>1. CASE PopAwaiting
  <2>1. /\ UNCHANGED <<clientPc, clientCommand, held, promise, launched, connected, toController,
                  workerProc, sending, responseQueue, executing,
                  workerQueue, pools, commandQueue, unwritten, dispatching, toWorker>>
        /\ unread' = Workers /\ responseBuffers' = [w \in Workers |-> <<>>]
        /\ handlerPc # "read"
    BY <1>1 DEF PopAwaiting, clientVars, dispatcherVars
  <2>2. handling = <<>>
    <3>1. Len(handling) = 0
      BY <1>a, <2>1 DEF HandsOK
    <3> QED BY <1>a, <3>1, EmptySeq DEF TypeOK, ControllerTypeOK
  <2>3. Pending' = Pending
    BY <1>1, <1>a, <2>2, PendingPop DEF PopAwaiting
  <2>4. ASSUME NEW w \in Workers PROVE Follows(w, C, H)'
    <3>1. /\ ReadFrom(w)' = ReadFrom(w) /\ Replies(w)' = Replies(w) /\ InFlight(w)' = InFlight(w)
          /\ responseBuffers'[w] = <<>> /\ (Live(w)' <=> Live(w))
      BY <2>1, <2>2 DEF ReadFrom, Replies, InFlight, Live, Running
    <3>2. Follows(w, C, H)
      BY DEF HistoryOf
    <3> QED BY <2>1, <3>1, <3>2, KeepsFollows
  <2> QED BY <2>1, <2>3, <2>4, KeepsHistory DEF Waiting, Fresh
<1>2. CASE \E w \in Workers : ReadResponse(w)
  BY <1>2, ReadKeepsHistory
<1>3. CASE HandleResponse
  BY <1>3, HandleKeepsHistory
<1>4. CASE ReadTimeout \/ HandleFatal \/ HandlerSeesShutdown \/ HandlerChecksEmpty
  <2>1. /\ UNCHANGED <<clientPc, clientCommand, held, promise, launched, connected, toController,
                  workerProc, sending, responseQueue, executing, awaitingResponseQueue, handling,
                  workerQueue, pools, commandQueue, unwritten, dispatching, toWorker, unread,
                  responseBuffers>>
    BY <1>4 DEF ReadTimeout, HandleFatal, HandlerSeesShutdown, HandlerChecksEmpty, clientVars,
                dispatcherVars, controllerVars, handlerVars
  <2>4. ASSUME NEW w \in Workers PROVE Follows(w, C, H)'
    <3>1. /\ ReadFrom(w)' = ReadFrom(w) /\ Replies(w)' = Replies(w) /\ InFlight(w)' = InFlight(w)
          /\ (Live(w)' <=> Live(w))
      BY <2>1 DEF ReadFrom, Replies, InFlight, Live, Running
    <3>2. Follows(w, C, H)
      BY DEF HistoryOf
    <3> QED BY <2>1, <3>1, <3>2, KeepsFollows
  <2> QED BY <2>1, <2>4, KeepsHistory DEF Waiting, Fresh, Pending
<1> QED BY <1>1, <1>2, <1>3, <1>4 DEF Handler

-----------------------------------------------------------------------------
(* The calls of the client.                                                *)

(* What a command leaves and adds.                                         *)
LEMMA ExecuteKeeps ==
  ASSUME NEW p \in Pools, NEW c \in Command
  PROVE  /\ p.layouts \subseteq Execute(p, c).layouts
         /\ c.type \in NewLayout => c.outputs \subseteq Execute(p, c).layouts
         /\ IF c.type \in {"CloseMeshDevice", "ReleaseSubMeshDevice"}
              THEN p.devices \ c.devices \subseteq Execute(p, c).devices
              ELSE p.devices \subseteq Execute(p, c).devices
         /\ c.type \in NewDevice => c.outputs \subseteq Execute(p, c).devices
         /\ IF c.type = "DeallocateTensor"
              THEN p.tensors \ c.tensors \subseteq Execute(p, c).tensors
              ELSE p.tensors \subseteq Execute(p, c).tensors
         /\ c.type \in NewTensor => c.outputs \subseteq Execute(p, c).tensors
<1> DEFINE q == Execute(p, c)
<1>1. CASE c.type \in NewDevice
  <2>1. q = [p EXCEPT !.devices = @ \cup c.outputs]
    BY <1>1 DEF Execute, NewDevice, NewLayout, NewTensor
  <2> QED BY <1>1, <2>1 DEF Pools, NewDevice, NewLayout, NewTensor
<1>2. CASE c.type \in {"CloseMeshDevice", "ReleaseSubMeshDevice"}
  <2>1. q = [p EXCEPT !.devices = @ \ c.devices]
    BY <1>2 DEF Execute, NewDevice, NewLayout, NewTensor
  <2> QED BY <1>2, <2>1 DEF Pools, NewDevice, NewLayout, NewTensor
<1>3. CASE c.type \in NewLayout
  <2>1. q = [p EXCEPT !.layouts = @ \cup c.outputs]
    BY <1>3 DEF Execute, NewDevice, NewLayout, NewTensor
  <2> QED BY <1>3, <2>1 DEF Pools, NewDevice, NewLayout, NewTensor
<1>4. CASE c.type \in NewTensor
  <2>1. /\ q.tensors = p.tensors \cup c.outputs /\ q.devices = p.devices
        /\ q.layouts = p.layouts
    BY <1>4 DEF Execute, NewDevice, NewLayout, NewTensor, Pools
  <2> QED BY <1>4, <2>1 DEF NewDevice, NewLayout, NewTensor
<1>5. CASE c.type = "SetTensorRetain"
  <2>1. q.tensors = p.tensors /\ q.devices = p.devices /\ q.layouts = p.layouts
    BY <1>5 DEF Execute, NewDevice, NewLayout, NewTensor, Pools
  <2> QED BY <1>5, <2>1 DEF NewDevice, NewLayout, NewTensor
<1>6. CASE c.type = "DeallocateTensor"
  <2>1. q = [p EXCEPT !.tensors = @ \ (c.tensors \ p.retained)]
    BY <1>6 DEF Execute, NewDevice, NewLayout, NewTensor
  <2>2. /\ q.tensors = p.tensors \ (c.tensors \ p.retained) /\ q.devices = p.devices
        /\ q.layouts = p.layouts
    BY <2>1 DEF Pools
  <2> QED BY <1>6, <2>2 DEF NewDevice, NewLayout, NewTensor
<1>7. CASE /\ c.type \notin NewDevice /\ c.type \notin {"CloseMeshDevice", "ReleaseSubMeshDevice"}
           /\ c.type \notin NewLayout /\ c.type \notin NewTensor /\ c.type # "SetTensorRetain"
           /\ c.type # "DeallocateTensor"
  <2>1. q = p
    BY <1>7 DEF Execute
  <2> QED BY <1>7, <2>1
<1> QED BY <1>1, <1>2, <1>3, <1>4, <1>5, <1>6, <1>7

(* A call on pools p, in which all its handles are: what the user holds    *)
(* afterwards is in the pools that the command makes of p.                 *)
CallsOn(p, c) ==
  /\ Issue(c)
  /\ ~PoolMiss(p, c)
  /\ held'.devices \subseteq Execute(p, c).devices
  /\ held'.tensors \subseteq Execute(p, c).tensors
  /\ held'.layouts \subseteq Execute(p, c).layouts
  /\ c.type = "GetNumShards" => c.tensors \subseteq held'.tensors

(* A call uses only handles that the user holds, so that no lookup of it   *)
(* fails in pools that have them all.                                      *)
LEMMA CallContinues ==
  ASSUME TypeOK, ~ReusesHandles, ClientCall \/ Configure \/ ShutdownCall,
         NEW p \in Pools, HoldsOnly(p)
  PROVE  \E c \in Command : CallsOn(p, c)
<1>0. /\ held \in Handles /\ nextCommandId \in Nat
      /\ nextGlobalId \in [device : Nat, tensor : Nat, layout : Nat]
      /\ held.devices \in SUBSET Nat /\ held.tensors \in SUBSET Nat /\ held.layouts \in SUBSET Nat
      /\ {nextGlobalId.device} \in SUBSET Nat /\ {nextGlobalId.tensor} \in SUBSET Nat
      /\ {nextGlobalId.layout} \in SUBSET Nat
  BY DEF TypeOK, ControllerTypeOK, Handles
<1>h. held.devices \subseteq p.devices /\ held.tensors \subseteq p.tensors
      /\ held.layouts \subseteq p.layouts
  BY DEF HoldsOnly
<1>p. nextCommandId \in DOMAIN Program => Program[nextCommandId] \subseteq CommandTypes
  BY ProgramAssumption
<1>x. ASSUME NEW c \in Command, Issue(c), held' = held, ~PoolMiss(p, c),
             c.type \notin {"CloseMeshDevice", "ReleaseSubMeshDevice", "DeallocateTensor"},
             c.type = "GetNumShards" => c.tensors \subseteq held.tensors
      PROVE  CallsOn(p, c)
  <2>1. /\ p.layouts \subseteq Execute(p, c).layouts /\ p.devices \subseteq Execute(p, c).devices
        /\ p.tensors \subseteq Execute(p, c).tensors
    BY <1>x, ExecuteKeeps
  <2> QED BY <1>h, <1>x, <2>1 DEF CallsOn
<1>1. CASE Configure
  <2> DEFINE c == Build(nextCommandId, "ConfigureRuntimeContext")
  <2>1. c \in Command
    BY <1>0, BuildType DEF CommandTypes, Plain
  <2>2. Issue(c) /\ held' = held
    BY <1>1 DEF Configure
  <2>3. c.type = "ConfigureRuntimeContext" /\ ~PoolMiss(p, c)
    BY DEF Build, PoolMiss
  <2> QED BY <1>x, <2>1, <2>2, <2>3
<1>2. CASE ShutdownCall
  <2> DEFINE c == Build(nextCommandId, "Shutdown")
  <2>1. c \in Command
    BY <1>0, BuildType DEF CommandTypes, Plain
  <2>2. Issue(c) /\ held' = held
    BY <1>2 DEF ShutdownCall
  <2>3. c.type = "Shutdown" /\ ~PoolMiss(p, c)
    BY DEF Build, PoolMiss
  <2> QED BY <1>x, <2>1, <2>2, <2>3
<1>3. CASE PlainCall
  <2>1. PICK type \in Program[nextCommandId] \cap Plain, device \in SUBSET held.devices :
           Issue([Build(nextCommandId, type) EXCEPT !.devices = device])
    BY <1>3 DEF PlainCall
  <2> DEFINE c == [Build(nextCommandId, type) EXCEPT !.devices = device]
  <2>2. c \in Command
    BY <1>0, <2>1, BuildWithType DEF CommandTypes
  <2>3. c.type = type /\ c.devices = device /\ c.tensors = {} /\ c.layouts = {}
    BY DEF Build
  <2>4. ~PoolMiss(p, c)
    BY <1>h, <2>1, <2>3 DEF PoolMiss
  <2>5. c.type \notin {"CloseMeshDevice", "ReleaseSubMeshDevice", "DeallocateTensor", "GetNumShards"}
    BY <2>1, <2>3 DEF Plain
  <2>6. Issue(c) /\ held' = held
    BY <1>3, <2>1 DEF PlainCall
  <2> HIDE DEF c
  <2> QED BY <1>x, <2>2, <2>4, <2>5, <2>6
<1>4. CASE NewDeviceCall
  <2>1. PICK type \in Program[nextCommandId] \cap NewDevice, parents \in SUBSET held.devices :
               Issue([Build(nextCommandId, type) EXCEPT !.devices = parents,
                                                !.outputs = {nextGlobalId.device}])
    BY <1>4 DEF NewDeviceCall
  <2> DEFINE c == [Build(nextCommandId, type) EXCEPT !.devices = parents,
                                                     !.outputs = {nextGlobalId.device}]
  <2>2. c \in Command
    BY <1>0, BuildWithType DEF CommandTypes
  <2>3. /\ c.type = type /\ c.devices = parents /\ c.tensors = {} /\ c.layouts = {}
        /\ c.outputs = {nextGlobalId.device}
    BY DEF Build
  <2>4. ~PoolMiss(p, c)
    BY <1>h, <2>1, <2>3 DEF PoolMiss
  <2>5. /\ held'.devices = held.devices \cup {nextGlobalId.device}
        /\ held'.tensors = held.tensors /\ held'.layouts = held.layouts
    BY <1>0, <1>4 DEF NewDeviceCall, Handles
  <2>6. /\ c.type \in NewDevice
        /\ c.type \notin {"CloseMeshDevice", "ReleaseSubMeshDevice", "DeallocateTensor",
                          "GetNumShards"}
    BY <2>1, <2>3 DEF NewDevice
  <2>7. Issue(c)
    BY <2>1
  <2> HIDE DEF c
  <2>8. /\ p.layouts \subseteq Execute(p, c).layouts /\ p.devices \subseteq Execute(p, c).devices
        /\ p.tensors \subseteq Execute(p, c).tensors /\ c.outputs \subseteq Execute(p, c).devices
    BY <2>2, <2>6, ExecuteKeeps
  <2>9. CallsOn(p, c)
    BY <1>h, <2>3, <2>4, <2>5, <2>6, <2>7, <2>8 DEF CallsOn
  <2> QED BY <2>2, <2>9
<1>5. CASE DeviceCall
  <2>1. PICK type \in Program[nextCommandId] \cap OnDevice, d \in held.devices :
           /\ Issue([Build(nextCommandId, type) EXCEPT !.devices = {d}])
           /\ held' = IF type \in {"CloseMeshDevice", "ReleaseSubMeshDevice"} /\ ~ReusesHandles
                        THEN [held EXCEPT !.devices = @ \ {d}]
                        ELSE held
    BY <1>5 DEF DeviceCall
  <2> DEFINE c == [Build(nextCommandId, type) EXCEPT !.devices = {d}]
  <2>2. c \in Command
    BY <1>0, BuildWithType DEF CommandTypes
  <2>3. c.type = type /\ c.devices = {d} /\ c.tensors = {} /\ c.layouts = {}
    BY DEF Build
  <2>4. ~PoolMiss(p, c)
    BY <1>h, <2>1, <2>3 DEF PoolMiss
  <2>5. c.type \notin {"DeallocateTensor", "GetNumShards"}
    BY <2>1, <2>3 DEF OnDevice
  <2>6. Issue(c)
    BY <2>1
  <2>7. IF c.type \in {"CloseMeshDevice", "ReleaseSubMeshDevice"}
          THEN /\ held'.devices = held.devices \ {d}
               /\ held'.tensors = held.tensors /\ held'.layouts = held.layouts
          ELSE held' = held
    BY <1>0, <2>1, <2>3 DEF Handles
  <2> HIDE DEF c
  <2>8. CASE c.type \in {"CloseMeshDevice", "ReleaseSubMeshDevice"}
    <3>1. /\ p.layouts \subseteq Execute(p, c).layouts
          /\ p.devices \ c.devices \subseteq Execute(p, c).devices
          /\ p.tensors \subseteq Execute(p, c).tensors
      BY <2>2, <2>5, <2>8, ExecuteKeeps
    <3>2. CallsOn(p, c)
      BY <1>h, <2>3, <2>4, <2>5, <2>6, <2>7, <2>8, <3>1 DEF CallsOn
    <3> QED BY <2>2, <3>2
  <2>9. CASE c.type \notin {"CloseMeshDevice", "ReleaseSubMeshDevice"}
    BY <1>x, <2>2, <2>4, <2>5, <2>6, <2>7, <2>9
  <2> QED BY <2>8, <2>9
<1>6. CASE NewLayoutCall
  <2>1. PICK type \in Program[nextCommandId] \cap NewLayout :
           Issue([Build(nextCommandId, type) EXCEPT !.outputs = {nextGlobalId.layout}])
    BY <1>6 DEF NewLayoutCall
  <2> DEFINE c == [Build(nextCommandId, type) EXCEPT !.outputs = {nextGlobalId.layout}]
  <2>2. c \in Command
    BY <1>0, BuildWithType DEF CommandTypes
  <2>3. /\ c.type = type /\ c.devices = {} /\ c.tensors = {} /\ c.layouts = {}
        /\ c.outputs = {nextGlobalId.layout}
    BY DEF Build
  <2>4. ~PoolMiss(p, c)
    BY <2>3 DEF PoolMiss
  <2>5. /\ held'.layouts = held.layouts \cup {nextGlobalId.layout}
        /\ held'.tensors = held.tensors /\ held'.devices = held.devices
    BY <1>0, <1>6 DEF NewLayoutCall, Handles
  <2>6. /\ c.type \in NewLayout
        /\ c.type \notin {"CloseMeshDevice", "ReleaseSubMeshDevice", "DeallocateTensor",
                          "GetNumShards"}
    BY <2>1, <2>3 DEF NewLayout
  <2>7. Issue(c)
    BY <2>1
  <2> HIDE DEF c
  <2>8. /\ p.layouts \subseteq Execute(p, c).layouts /\ p.devices \subseteq Execute(p, c).devices
        /\ p.tensors \subseteq Execute(p, c).tensors /\ c.outputs \subseteq Execute(p, c).layouts
    BY <2>2, <2>6, ExecuteKeeps
  <2>9. CallsOn(p, c)
    BY <1>h, <2>3, <2>4, <2>5, <2>6, <2>7, <2>8 DEF CallsOn
  <2> QED BY <2>2, <2>9
<1>7. CASE NewTensorCall
  <2>0. PICK type \in Program[nextCommandId] \cap (NewTensor \ {"ToHost"}) :
          \E src \in TensorSources(type), retain \in SUBSET BOOLEAN :
            Issue([Build(nextCommandId, type) EXCEPT
                     !.devices = src[1], !.tensors = src[2], !.layouts = src[3],
                     !.outputs = {nextGlobalId.tensor}, !.retain = retain])
    BY <1>7, RetainOptionsType DEF NewTensorCall
  <2>1. PICK src \in TensorSources(type), retain \in SUBSET BOOLEAN :
               Issue([Build(nextCommandId, type) EXCEPT
                        !.devices = src[1], !.tensors = src[2], !.layouts = src[3],
                        !.outputs = {nextGlobalId.tensor}, !.retain = retain])
    BY <2>0
  <2>2. /\ src[1] \in SUBSET held.devices /\ src[2] \in SUBSET held.tensors
        /\ src[3] \in SUBSET held.layouts
    BY <2>0, <2>1 DEF TensorSources, NewTensor
  <2> DEFINE c == [Build(nextCommandId, type) EXCEPT
                     !.devices = src[1], !.tensors = src[2], !.layouts = src[3],
                     !.outputs = {nextGlobalId.tensor}, !.retain = retain]
  <2>3. c \in Command
    <3>1. type \in CommandTypes
      BY <2>0 DEF CommandTypes
    <3>2. src[1] \in SUBSET Nat /\ src[2] \in SUBSET Nat /\ src[3] \in SUBSET Nat
      BY <1>0, <2>2
    <3> QED BY <1>0, <2>1, <3>1, <3>2, BuildRetainType, Zenon
  <2>4. /\ c.type = type /\ c.devices = src[1] /\ c.tensors = src[2] /\ c.layouts = src[3]
        /\ c.outputs = {nextGlobalId.tensor}
    BY DEF Build
  <2>5. /\ held'.tensors = held.tensors \cup {nextGlobalId.tensor}
        /\ held'.layouts = held.layouts /\ held'.devices = held.devices
    BY <1>0, <1>7 DEF NewTensorCall, Handles
  <2>6. /\ c.type \in NewTensor
        /\ c.type \notin {"CloseMeshDevice", "ReleaseSubMeshDevice", "DeallocateTensor",
                          "GetNumShards"}
    BY <2>0, <2>4 DEF NewTensor
  <2>7. Issue(c)
    BY <2>1
  <2> HIDE DEF c
  <2>8. ~PoolMiss(p, c)
    BY <1>h, <2>2, <2>4 DEF PoolMiss
  <2>9. /\ p.layouts \subseteq Execute(p, c).layouts /\ p.devices \subseteq Execute(p, c).devices
        /\ p.tensors \subseteq Execute(p, c).tensors /\ c.outputs \subseteq Execute(p, c).tensors
    BY <2>3, <2>6, ExecuteKeeps
  <2>10. CallsOn(p, c)
    BY <1>h, <2>4, <2>5, <2>6, <2>7, <2>8, <2>9 DEF CallsOn
  <2> QED BY <2>3, <2>10
<1>8. CASE TensorCall
  <2>a. PICK type \in Program[nextCommandId] \cap OnTensor :
     \E t \in IF type = "IsTensorAllocated" THEN 0..(nextGlobalId.tensor - 1)
                                             ELSE held.tensors :
     \E layouts \in IF type = "HasLayout" THEN {{l} : l \in held.layouts} ELSE {{}} :
     \E dst \in IF type = "Memcpy" THEN held.tensors ELSE {t} :
     \E retain \in SUBSET BOOLEAN :
           /\ Issue([Build(nextCommandId, type) EXCEPT
                       !.tensors = {t, dst}, !.layouts = layouts, !.retain = retain])
           /\ held' = IF type = "DeallocateTensor" /\ ~ReusesHandles
                        THEN [held EXCEPT !.tensors = @ \ {t}]
                        ELSE held
    BY ZenonT(40), <1>8, RetainOptionsType DEF TensorCall
  <2>b. PICK t \in IF type = "IsTensorAllocated" THEN 0..(nextGlobalId.tensor - 1)
                                             ELSE held.tensors :
     \E layouts \in IF type = "HasLayout" THEN {{l} : l \in held.layouts} ELSE {{}} :
     \E dst \in IF type = "Memcpy" THEN held.tensors ELSE {t} :
     \E retain \in SUBSET BOOLEAN :
           /\ Issue([Build(nextCommandId, type) EXCEPT
                       !.tensors = {t, dst}, !.layouts = layouts, !.retain = retain])
           /\ held' = IF type = "DeallocateTensor" /\ ~ReusesHandles
                        THEN [held EXCEPT !.tensors = @ \ {t}]
                        ELSE held
    BY <2>a, Zenon
  <2>1. PICK layouts \in IF type = "HasLayout" THEN {{l} : l \in held.layouts} ELSE {{}},
             dst \in IF type = "Memcpy" THEN held.tensors ELSE {t},
             retain \in SUBSET BOOLEAN :
           /\ Issue([Build(nextCommandId, type) EXCEPT
                       !.tensors = {t, dst}, !.layouts = layouts, !.retain = retain])
           /\ held' = IF type = "DeallocateTensor" /\ ~ReusesHandles
                        THEN [held EXCEPT !.tensors = @ \ {t}]
                        ELSE held
    BY <2>b, Zenon
  <2> DEFINE c == [Build(nextCommandId, type) EXCEPT
                     !.tensors = {t, dst}, !.layouts = layouts, !.retain = retain]
  <2>2. /\ layouts \in SUBSET held.layouts
        /\ type # "IsTensorAllocated" => {t, dst} \in SUBSET held.tensors
        /\ {t, dst} \in SUBSET Nat
        /\ type = "DeallocateTensor" => {t, dst} = {t}
    BY <1>0, <2>b, <2>1
  <2>3. c \in Command
    <3>1. type \in CommandTypes /\ layouts \in SUBSET Nat /\ {t, dst} \in SUBSET Nat
      BY <1>0, <2>a, <2>2 DEF CommandTypes
    <3> QED BY <1>0, <2>1, <3>1, BuildRetainType, Zenon
  <2>4. c.type = type /\ c.devices = {} /\ c.tensors = {t, dst} /\ c.layouts = layouts
    BY DEF Build
  <2>5. c.type \notin {"CloseMeshDevice", "ReleaseSubMeshDevice"}
    BY <2>a, <2>4 DEF OnTensor
  <2>6. Issue(c)
    BY <2>1
  <2>7. IF c.type = "DeallocateTensor"
          THEN /\ held'.tensors = held.tensors \ {t}
               /\ held'.devices = held.devices /\ held'.layouts = held.layouts
          ELSE held' = held
    BY <1>0, <2>1, <2>4 DEF Handles
  <2> HIDE DEF c
  <2>8. ~PoolMiss(p, c)
    BY <1>h, <2>2, <2>4 DEF PoolMiss
  <2>9. CASE c.type = "DeallocateTensor"
    <3>1. /\ p.layouts \subseteq Execute(p, c).layouts
          /\ p.devices \subseteq Execute(p, c).devices
          /\ p.tensors \ c.tensors \subseteq Execute(p, c).tensors
      BY <2>3, <2>5, <2>9, ExecuteKeeps
    <3>2. CallsOn(p, c)
      BY <1>h, <2>2, <2>4, <2>6, <2>7, <2>8, <2>9, <3>1 DEF CallsOn
    <3> QED BY <2>3, <3>2
  <2>10. CASE c.type # "DeallocateTensor"
    <3>1. c.type = "GetNumShards" => c.tensors \subseteq held.tensors
      BY <2>2, <2>4
    <3>2. CallsOn(p, c)
      BY <1>x, <2>3, <2>5, <2>6, <2>7, <2>8, <2>10, <3>1
    <3> QED BY <2>3, <3>2
  <2> QED BY <2>9, <2>10
<1> QED BY <1>1, <1>2, <1>3, <1>4, <1>5, <1>6, <1>7, <1>8 DEF ClientCall

(* toHost, in its second half, still holds the tensor.                     *)
LEMMA NumShardsContinues ==
  ASSUME TypeOK, PromiseOK, ReturnNumShards, clientCommand.tensors \subseteq held.tensors,
         NEW p \in Pools, HoldsOnly(p)
  PROVE  \E c \in Command : CallsOn(p, c)
<1>0. /\ held \in Handles /\ nextCommandId \in Nat
      /\ nextGlobalId \in [device : Nat, tensor : Nat, layout : Nat]
      /\ clientCommand.tensors \in SUBSET Nat
  BY DEF TypeOK, ControllerTypeOK, Command
<1>h. held.devices \subseteq p.devices /\ held.tensors \subseteq p.tensors
      /\ held.layouts \subseteq p.layouts
  BY DEF HoldsOnly
<1>1. result \in Nat
  BY DEF PromiseOK, ReturnNumShards
<1> DEFINE shards == nextGlobalId.tensor..(nextGlobalId.tensor + result - 1)
           c == [Build(nextCommandId, "ToHost") EXCEPT !.tensors = clientCommand.tensors,
                                                       !.outputs = shards]
<1>2. shards \in SUBSET Nat
  BY <1>0, <1>1
<1>3. c \in Command
  <2>1. "ToHost" \in CommandTypes
    BY DEF CommandTypes, NewTensor
  <2> HIDE DEF shards
  <2> QED BY <1>0, <1>2, <2>1, BuildWithType
<1>4. Issue(c) /\ held' = [held EXCEPT !.tensors = @ \cup shards]
  BY DEF ReturnNumShards, ToHost
<1> HIDE DEF shards
<1>5. /\ held'.tensors = held.tensors \cup shards /\ held'.devices = held.devices
      /\ held'.layouts = held.layouts
  BY <1>0, <1>4 DEF Handles
<1>6. /\ c.type = "ToHost" /\ c.tensors = clientCommand.tensors /\ c.devices = {} /\ c.layouts = {}
      /\ c.outputs = shards
  BY DEF Build
<1> HIDE DEF c
<1>7. ~PoolMiss(p, c)
  BY <1>h, <1>6 DEF PoolMiss
<1>8. c.type \in NewTensor
  BY <1>6 DEF NewTensor
<1>9. /\ p.layouts \subseteq Execute(p, c).layouts /\ p.devices \subseteq Execute(p, c).devices
      /\ p.tensors \subseteq Execute(p, c).tensors /\ c.outputs \subseteq Execute(p, c).tensors
  BY <1>3, <1>6, <1>8, ExecuteKeeps
<1>10. CallsOn(p, c)
  BY <1>h, <1>4, <1>5, <1>6, <1>7, <1>9 DEF CallsOn
<1> QED BY <1>3, <1>10

(* A history has pools for the next command.                               *)
LEMMA LastPools ==
  ASSUME NEW C \in Seq(Command), NEW H \in Seq(Pools), IsHistory(C, H)
  PROVE  H[Len(H)] \in Pools /\ Len(H) = Len(C) + 1 /\ Len(C) \in Nat
BY DEF IsHistory

(* A new call continues the history.                                       *)
LEMMA IssueKeepsHistory ==
  ASSUME ShutdownInv, NEW C \in Seq(Command), NEW H \in Seq(Pools), HistoryOf(C, H),
         NEW c \in Command, CallsOn(H[Len(H)], c), clientPc # "push", launched,
         UNCHANGED workerVars
  PROVE  \E D \in Seq(Command), G \in Seq(Pools) :
           HistoryOf(D, G)' /\ G[Len(G)] = Execute(H[Len(H)], c)
<1> USE DEF socketVars, workerVars
<1>a. TypeOK /\ IsHistory(C, H) /\ Len(C) = Len(Pending)
  BY DEF ShutdownInv, IInv, HistoryOf
<1>b. /\ UNCHANGED <<launched, connected, toController, workerProc, sending, responseQueue,
                     executing, workerQueue, pools, commandQueue, unwritten, dispatching,
                     toWorker, handling, unread, responseBuffers>>
      /\ clientPc' = "push" /\ clientCommand' = c
  BY DEF CallsOn, Issue, dispatcherVars, handlerVars
<1> DEFINE p == H[Len(H)]
           q == Execute(p, c)
           D == Append(C, c)
           G == Append(H, q)
<1>1. p \in Pools /\ Len(H) = Len(C) + 1 /\ Len(C) \in Nat
  BY <1>a, LastPools
<1>2. q \in Pools /\ ~PoolMiss(p, c)
  BY <1>1, ExecuteType DEF CallsOn
<1>3. /\ IsHistory(D, G) /\ D \in Seq(Command) /\ G \in Seq(Pools)
      /\ Len(D) = Len(C) + 1 /\ Len(G) = Len(H) + 1
      /\ D[Len(C) + 1] = c /\ G[Len(H) + 1] = q
      /\ C # <<>> => D[1] = C[1]
      /\ G[1] = H[1]
      /\ \A w \in Workers, read \in Nat, replies \in Seq(Response), todo \in Seq(Command) :
         \A r : OnTheWay(w, C, H, read, replies, todo, r) =>
                  OnTheWay(w, D, G, read, replies, Append(todo, c), r)
  <2> HIDE DEF q
  <2> QED BY <1>a, <1>2, Continues DEF q
<1> HIDE DEF D, G
<1>4. Len(Pending') = Len(Pending) + 1
  <2>1. Pending' = Append(Pending, Awaiting(c))
    BY <1>a, PendingIssue DEF CallsOn
  <2>2. Pending \in Seq(AwaitingEntry) /\ Awaiting(c) \in AwaitingEntry
    BY <1>a, PendingType, AwaitingType
  <2> QED BY <2>1, <2>2
<1>5. IsHistory(D, G)' /\ Len(D) = Len(Pending')
  BY <1>a, <1>3, <1>4 DEF IsHistory
<1>6. HoldsOnly(G[Len(G)])'
  <2>1. G[Len(G)] = q
    BY <1>3
  <2> QED BY <2>1 DEF HoldsOnly, CallsOn
<1>7. D[Len(D)] = clientCommand'
  BY <1>b, <1>3
<1>8. ~Fresh'
  BY <1>b DEF Fresh
<1>9. ASSUME NEW w \in Workers PROVE Follows(w, D, G)'
  <2> SUFFICES ASSUME Live(w)'
               PROVE  /\ OnTheWay(w, D, G, ReadFrom(w)', Replies(w)', InFlight(w)', pools'[w])
                      /\ (handling' # <<>> /\ responseBuffers'[w] # <<>>) =>
                           responseBuffers'[w][1] = Respond(w, G[1], D[1])
    BY DEF Follows, OnTheWay
  <2>1. Live(w)
    BY <1>b DEF Live, Running
  <2>2. /\ ReadFrom(w)' = ReadFrom(w) /\ ReadFrom(w) \in Nat /\ Replies(w)' = Replies(w)
        /\ pools'[w] = pools[w]
    BY <1>b DEF ReadFrom, Replies
  <2>3. InFlight(w)' = Append(InFlight(w), c)
    <3> DEFINE a == (((executing[w] \o workerQueue[w]) \o toWorker[w]) \o InDispatch(w))
                      \o commandQueue
    <3>1. InFlight(w) = a \o <<>>
      BY DEF InFlight, InDispatch
    <3>2. InFlight(w)' = a \o <<c>>
      BY <1>b DEF InFlight, InDispatch
    <3>3. a \in Seq(Command)
      BY <1>a, FlightTypes, ConcatProperties
    <3> HIDE DEF a
    <3>4. a \o <<c>> = Append(a, c) /\ a \o <<>> = a
      BY <3>3, AppendIsConcat
    <3> QED BY <3>1, <3>2, <3>4
  <2>4. Replies(w) \in Seq(Response) /\ InFlight(w) \in Seq(Command)
    BY <1>a, FlightTypes
  <2>5. OnTheWay(w, C, H, ReadFrom(w), Replies(w), InFlight(w), pools[w])
    BY <2>1 DEF HistoryOf, Follows
  <2>6. OnTheWay(w, D, G, ReadFrom(w), Replies(w), Append(InFlight(w), c), pools[w])
    BY <1>3, <2>2, <2>4, <2>5
  <2>7. ASSUME handling' # <<>>, responseBuffers'[w] # <<>>
        PROVE  responseBuffers'[w][1] = Respond(w, G[1], D[1])
    <3>1. handling # <<>> /\ responseBuffers[w] # <<>>
      BY <1>b, <2>7
    <3>2. C # <<>>
      <4>1. handling \in Seq(AwaitingEntry) /\ awaitingResponseQueue \in Seq(AwaitingEntry)
        BY <1>a DEF TypeOK, ControllerTypeOK
      <4>2. Len(handling) # 0
        BY <3>1, <4>1, EmptySeq
      <4>3. Len(Pending) # 0
        BY <1>a, <4>1, <4>2, PendingType
      <4> QED BY <1>a, <4>3
    <3>3. responseBuffers[w][1] = Respond(w, H[1], C[1])
      BY <2>1, <3>1 DEF HistoryOf, Follows
    <3> QED BY <1>b, <1>3, <3>2, <3>3
  <2> QED BY <2>2, <2>3, <2>6, <2>7
<1>10. HistoryOf(D, G)'
  BY <1>5, <1>6, <1>7, <1>8, <1>9 DEF HistoryOf
<1>11. G[Len(G)] = Execute(H[Len(H)], c)
  BY <1>3
<1> QED BY <1>3, <1>10, <1>11

(* A shutdown continues it too, also when the process exits.               *)
LEMMA ShutdownContinues ==
  ASSUME TypeOK, Issue(Build(nextCommandId, "Shutdown")), held' = held, NEW p \in Pools, HoldsOnly(p)
  PROVE  \E c \in Command : CallsOn(p, c)
<1> DEFINE c == Build(nextCommandId, "Shutdown")
<1>1. c \in Command /\ c.type = "Shutdown"
  BY BuildType DEF TypeOK, ControllerTypeOK, CommandTypes, Plain, Build
<1>2. Issue(c) /\ ~PoolMiss(p, c)
  BY DEF Build, PoolMiss
<1> HIDE DEF c
<1>3. Execute(p, c) = p
  BY <1>1, ShutdownExecutesNothing
<1> QED BY <1>1, <1>2, <1>3 DEF CallsOn, HoldsOnly

(* The command that is pushed was in flight before.                        *)
LEMMA PushKeepsFlight ==
  ASSUME TypeOK, PushCommand, UNCHANGED workerVars, NEW w \in Workers
  PROVE  InFlight(w)' = InFlight(w)
<1>0. /\ UNCHANGED <<clientCommand, unwritten, dispatching, toWorker, executing, workerQueue>>
      /\ clientPc = "push" /\ clientPc' \in {"await", "user"}
      /\ commandQueue' = Append(commandQueue, clientCommand)
  BY DEF PushCommand, socketVars, dispatcherVars, workerVars
<1> DEFINE a == ((executing[w] \o workerQueue[w]) \o toWorker[w]) \o InDispatch(w)
           s == commandQueue
           t == <<clientCommand>>
<1>1. a \in Seq(Command) /\ s \in Seq(Command) /\ t \in Seq(Command) /\ t # <<>>
      /\ Head(t) = clientCommand /\ Tail(t) = <<>>
  <2>1. /\ executing[w] \in Seq(Command) /\ workerQueue[w] \in Seq(Command)
        /\ toWorker[w] \in Seq(Command) /\ InDispatch(w) \in Seq(Command)
        /\ commandQueue \in Seq(Command)
    BY FlightTypes
  <2>2. executing[w] \o workerQueue[w] \in Seq(Command)
    BY <2>1, ConcatProperties
  <2>3. (executing[w] \o workerQueue[w]) \o toWorker[w] \in Seq(Command)
    BY <2>1, <2>2, ConcatProperties
  <2>4. a \in Seq(Command)
    BY <2>1, <2>3, ConcatProperties
  <2>5. clientCommand \in Command
    BY DEF TypeOK, ControllerTypeOK
  <2> QED BY <2>1, <2>4, <2>5
<1>2. (a \o Append(s, Head(t))) \o Tail(t) = (a \o s) \o t
  <2> HIDE DEF a, s, t
  <2> QED BY <1>1, MoveToLast, Zenon
<1>3. InFlight(w)' = (a \o Append(s, clientCommand)) \o <<>>
  BY <1>0 DEF InFlight, InDispatch
<1>4. InFlight(w) = (a \o s) \o t
  BY <1>0 DEF InFlight, InDispatch
<1> HIDE DEF a, s, t
<1> QED BY <1>1, <1>2, <1>3, <1>4

(* Every step of the client.                                               *)
LEMMA ClientKeepsHistory ==
  ASSUME ShutdownInv, ~ReusesHandles, ToHostHolds, UNCHANGED workerVars,
         LaunchBind \/ ClientCall \/ ShutdownCall \/ ShutdownAbnormal \/ ExitCall \/ ClientStep,
         NEW C \in Seq(Command), NEW H \in Seq(Pools), HistoryOf(C, H)
  PROVE  /\ ToHostHolds'
         /\ \E D \in Seq(Command), G \in Seq(Pools) : HistoryOf(D, G)'
<1> USE DEF socketVars, workerVars
<1>a. /\ TypeOK /\ LaunchOK /\ PromiseOK /\ HandsOK /\ IsHistory(C, H) /\ Len(C) = Len(Pending)
      /\ HoldsOnly(H[Len(H)])
  BY DEF ShutdownInv, IInv, HistoryOf
<1>p. H[Len(H)] \in Pools
  BY <1>a, LastPools
<1>i. ASSUME NEW c \in Command, CallsOn(H[Len(H)], c), clientPc # "push", launched
      PROVE  ToHostHolds' /\ \E D \in Seq(Command), G \in Seq(Pools) : HistoryOf(D, G)'
  <2>1. ToHostHolds'
    BY <1>i DEF ToHostHolds, CallsOn, Issue
  <2>2. \E D \in Seq(Command), G \in Seq(Pools) : HistoryOf(D, G)'
    BY <1>i, IssueKeepsHistory
  <2> QED BY <2>1, <2>2
<1>k. ASSUME UNCHANGED <<clientCommand, held, promise, toController, commandQueue, unwritten,
                         dispatching, toWorker, handling, awaitingResponseQueue, unread,
                         responseBuffers, sending, responseQueue, executing, workerQueue, pools>>,
             clientPc # "push", clientPc' \notin {"push", "await"}, Fresh' => Fresh,
             \A w \in Workers : Live(w)' => Live(w)
      PROVE  ToHostHolds' /\ \E D \in Seq(Command), G \in Seq(Pools) : HistoryOf(D, G)'
  <2>1. ToHostHolds'
    BY <1>k DEF ToHostHolds
  <2>2. ASSUME NEW w \in Workers PROVE Follows(w, C, H)'
    <3>1. /\ ReadFrom(w)' = ReadFrom(w) /\ Replies(w)' = Replies(w) /\ InFlight(w)' = InFlight(w)
      BY <1>k DEF ReadFrom, Replies, InFlight
    <3>2. Follows(w, C, H)
      BY DEF HistoryOf
    <3> QED BY <1>k, <3>1, <3>2, KeepsFollows
  <2>3. HistoryOf(C, H)'
    BY <1>k, <2>2, KeepsHistory DEF Pending, Waiting
  <2> QED BY <2>1, <2>3
<1>1. CASE ClientCall \/ Configure \/ ShutdownCall
  <2>1. \E c \in Command : CallsOn(H[Len(H)], c)
    BY <1>a, <1>p, <1>1, CallContinues
  <2>2. clientPc \in {"user", "configure"} /\ launched
    BY <1>a, <1>1 DEF ClientCall, PlainCall, NewDeviceCall, DeviceCall, NewLayoutCall,
                      NewTensorCall, TensorCall, MayCall, Configure, ShutdownCall, LaunchOK
  <2> QED BY <1>i, <2>1, <2>2
<1>2. CASE ReturnNumShards
  <2>1. clientPc = "await" /\ launched /\ clientCommand.tensors \subseteq held.tensors
    BY <1>a, <1>2 DEF ReturnNumShards, LaunchOK, ToHostHolds
  <2>2. \E c \in Command : CallsOn(H[Len(H)], c)
    BY <1>a, <1>p, <1>2, <2>1, NumShardsContinues
  <2> QED BY <1>i, <2>1, <2>2
<1>3. CASE ExitCall
  <2>1. CASE launched /\ controllerState = "FullyOperational"
    <3>1. Issue(Build(nextCommandId, "Shutdown")) /\ held' = held /\ clientPc = "user"
      BY <1>3, <2>1 DEF ExitCall
    <3>2. \E c \in Command : CallsOn(H[Len(H)], c)
      BY <1>a, <1>p, <3>1, ShutdownContinues
    <3> QED BY <1>i, <2>1, <3>1, <3>2
  <2>2. CASE ~(launched /\ controllerState = "FullyOperational")
    <3>1. /\ UNCHANGED <<clientCommand, held, promise, toController, commandQueue, unwritten,
                         dispatching, toWorker, handling, awaitingResponseQueue, unread,
                         responseBuffers, launched, connected, workerProc>>
          /\ clientPc = "user" /\ clientPc' = "destroy"
      BY <1>3, <2>2 DEF ExitCall, dispatcherVars, handlerVars
    <3> QED BY <1>k, <3>1 DEF Fresh, Live, Running
  <2> QED BY <2>1, <2>2
<1>4. CASE LaunchBind \/ LaunchFails \/ StartThreads
  <2>1. /\ UNCHANGED <<clientCommand, held, promise, toController, commandQueue, unwritten,
                       dispatching, toWorker, handling, awaitingResponseQueue, unread,
                       responseBuffers, workerProc>>
        /\ connected' => connected
        /\ clientPc \in {"user", "launching", "accepting"}
        /\ clientPc' \in {"user", "launching", "configure"}
        /\ (~launched' \/ clientPc' = "launching") =>
             ~launched \/ clientPc \in {"launching", "accepting"}
    BY <1>4 DEF LaunchBind, LaunchFails, StartThreads, dispatcherVars, handlerVars
  <2> QED BY <1>k, <2>1 DEF Fresh, Live, Running
<1>5. CASE LaunchCommand
  <2>1. /\ UNCHANGED <<clientCommand, held, promise, toController, commandQueue, unwritten,
                       dispatching, toWorker, handling, awaitingResponseQueue, unread,
                       responseBuffers, launched>>
        /\ clientPc = "launching" /\ clientPc' = "accepting"
        /\ \A w \in Workers : workerProc'[w] = "starting"
    BY <1>5 DEF LaunchCommand, dispatcherVars, handlerVars
  <2> QED BY <1>k, <2>1 DEF Fresh, Live, Running
<1>6. CASE PushCommand
  <2>1. /\ UNCHANGED <<clientCommand, held, promise, toController, unwritten,
                       dispatching, toWorker, handling, awaitingResponseQueue, unread,
                       responseBuffers, workerProc, connected, launched>>
        /\ clientPc = "push" /\ clientPc' \in {"await", "user"}
        /\ commandQueue' = Append(commandQueue, clientCommand)
    BY <1>6 DEF PushCommand, dispatcherVars, handlerVars
  <2>2. ToHostHolds'
    BY <2>1 DEF ToHostHolds
  <2>3. ASSUME NEW w \in Workers PROVE Follows(w, C, H)'
    <3>5. InFlight(w)' = InFlight(w)
      BY <1>a, <1>6, PushKeepsFlight
    <3>6. ReadFrom(w)' = ReadFrom(w) /\ Replies(w)' = Replies(w) /\ (Live(w)' <=> Live(w))
      BY <2>1 DEF ReadFrom, Replies, Live, Running
    <3>7. Follows(w, C, H)
      BY DEF HistoryOf
    <3> QED BY <2>1, <3>5, <3>6, <3>7, KeepsFollows
  <2>4. HistoryOf(C, H)'
    BY <2>1, <2>3, KeepsHistory DEF Pending, Fresh
  <2> QED BY <2>2, <2>4
<1>7. CASE ReturnFromWait \/ JoinThreads \/ ShutdownFails \/ CloseSockets \/ ProcessExits
             \/ ShutdownAbnormal
  <2>1. /\ UNCHANGED <<clientCommand, held, promise, toController, commandQueue, unwritten,
                       dispatching, toWorker, handling, awaitingResponseQueue, unread,
                       responseBuffers, workerProc, launched>>
        /\ connected' => connected
        /\ clientPc \in {"user", "await", "join", "exitWait", "destroy", "reap"}
        /\ clientPc' \in {"user", "join", "exitWait", "destroy", "reap"}
    BY <1>7 DEF ReturnFromWait, JoinThreads, ShutdownFails, CloseSockets, ProcessExits,
                ShutdownAbnormal, dispatcherVars, handlerVars, controllerVars, clientVars
  <2> QED BY <1>k, <2>1 DEF Fresh, Live, Running
<1>8. CASE ShutdownSucceeds
  <2>1. /\ connected' = FALSE /\ clientPc' \in {"user", "reap"} /\ awaitingResponseQueue' = <<>>
        /\ held' = [devices |-> {}, tensors |-> {}, layouts |-> {}] /\ handling' = handling
        /\ \A w \in Workers : workerProc'[w] = "exited"
        /\ clientPc = "exitWait"
    BY <1>8 DEF ShutdownSucceeds
  <2>2. ToHostHolds'
    BY <2>1 DEF ToHostHolds
  <2>3. Pending' = <<>>
    <3>1. handling = <<>>
      BY <1>a, <2>1 DEF PromiseOK, Pending, TypeOK, ControllerTypeOK
    <3> QED BY <2>1, <3>1 DEF Pending
  <2> DEFINE D == <<>>
             G == <<EmptyPools>>
  <2>4. D \in Seq(Command) /\ G \in Seq(Pools) /\ Len(D) = 0 /\ Len(G) = 1 /\ G[1] = EmptyPools
    BY DEF EmptyPools, Pools
  <2> HIDE DEF D, G
  <2>5. IsHistory(D, G)'
    BY <2>4 DEF IsHistory
  <2>6. \A w \in Workers : ~Live(w)'
    BY <2>1 DEF Live, Running
  <2>7. HoldsOnly(G[Len(G)])'
    BY <2>1, <2>4 DEF HoldsOnly
  <2>8. HistoryOf(D, G)'
    BY <2>1, <2>3, <2>4, <2>5, <2>6, <2>7 DEF HistoryOf, Follows, Waiting
  <2> QED BY <2>2, <2>4, <2>8
<1> QED BY <1>1, <1>2, <1>3, <1>4, <1>5, <1>6, <1>7, <1>8 DEF ClientStep

-----------------------------------------------------------------------------
(* At first the history is empty, and so are the pools.                    *)
LEMMA InitHistory == Init => HistoryInv
<1> SUFFICES ASSUME Init PROVE HistoryInv
  OBVIOUS
<1> USE DEF Init, SocketsInit, ControllerInit, ExecutorInit
<1>1. ShutdownInv
  BY InitShutdown
<1>2. NoPoolMiss
  BY DEF NoPoolMiss
<1> DEFINE C == <<>>
           H == <<EmptyPools>>
<1>3. C \in Seq(Command) /\ H \in Seq(Pools) /\ Len(C) = 0 /\ Len(H) = 1 /\ H[1] = EmptyPools
  BY DEF EmptyPools, Pools
<1> HIDE DEF C, H
<1>4. IsHistory(C, H)
  BY <1>3 DEF IsHistory
<1>5. Len(Pending) = 0
  BY DEF Pending
<1>6. \A w \in Workers : ~Live(w)
  BY DEF Live, Running
<1>7. HoldsOnly(H[Len(H)])
  BY <1>3 DEF HoldsOnly
<1>8. HistoryOf(C, H)
  BY <1>3, <1>4, <1>5, <1>6, <1>7 DEF HistoryOf, Follows, Waiting
<1> QED BY <1>1, <1>2, <1>3, <1>8 DEF HistoryInv, ToHostHolds

(* For a user program that uses only handles it holds, whatever fails: the *)
(* pending commands and the pools they find form one history, and every    *)
(* worker that is connected is somewhere on the way along it.              *)
THEOREM HistoryInvariant ==
  ASSUME ~ReusesHandles
  PROVE  Spec => []HistoryInv
<1>1. Init => HistoryInv
  BY InitHistory
<1>2. HistoryInv /\ ShutdownInv' /\ [Next]_vars => HistoryInv'
  <2> SUFFICES ASSUME HistoryInv, ShutdownInv', [Next]_vars PROVE HistoryInv'
    OBVIOUS
  <2>a. ShutdownInv /\ NoPoolMiss /\ ToHostHolds /\ PromiseOK'
    BY DEF HistoryInv, ShutdownInv, IInv
  <2>b. PICK C \in Seq(Command), H \in Seq(Pools) : HistoryOf(C, H)
    BY DEF HistoryInv
  <2>s. ASSUME NoPoolMiss', ToHostHolds',
               \E D \in Seq(Command), G \in Seq(Pools) : HistoryOf(D, G)'
        PROVE  HistoryInv'
    BY <2>s DEF HistoryInv
  <2>1. CASE ControllerNext /\ UNCHANGED workerVars
    <3>1. NoPoolMiss'
      BY <2>a, <2>1 DEF workerVars, NoPoolMiss
    <3>2. CASE LaunchBind \/ ClientCall \/ ShutdownCall \/ ShutdownAbnormal \/ ExitCall \/ ClientStep
      BY <2>a, <2>b, <2>s, <2>1, <3>1, <3>2, ClientKeepsHistory
    <3>3. CASE Dispatcher
      <4>1. ToHostHolds'
        BY <2>a, <3>3 DEF ToHostHolds, Dispatcher, PopCommand, WriteCommand, DispatchDone,
                          WriteFatal, DispatcherSeesShutdown, DispatcherChecksEmpty, clientVars,
                          controllerVars
      <4> QED BY <2>a, <2>b, <2>s, <2>1, <3>1, <3>3, <4>1, DispatcherKeepsHistory
    <3>4. CASE Handler
      <4>1. ToHostHolds'
        BY <2>a, <3>4 DEF ToHostHolds, Handler, PopAwaiting, ReadResponse, ReadTimeout,
                          HandleResponse, HandleFatal, HandlerSeesShutdown, HandlerChecksEmpty,
                          clientVars, controllerVars
      <4>2. \E D \in Seq(Command), G \in Seq(Pools) : HistoryOf(D, G)'
        BY <2>a, <2>b, <2>1, <3>4, HandlerKeepsHistory
      <4> QED BY <2>s, <3>1, <4>1, <4>2
    <3> QED BY <2>1, <3>2, <3>3, <3>4 DEF ControllerNext
  <2>2. CASE (\E w \in Workers : WorkerNext(w)) /\ UNCHANGED controllerVars
    <3>1. PICK w \in Workers : WorkerNext(w)
      BY <2>2
    <3>2. HistoryOf(C, H)'
      BY <2>a, <2>b, <2>2, <3>1, WorkerKeepsHistory
    <3>3. NoPoolMiss'
      BY <2>a, <2>b, <2>2, <3>1, WorkerKeepsNoMiss
    <3>4. ToHostHolds'
      BY <2>a, <2>2 DEF ToHostHolds, controllerVars, clientVars
    <3> QED BY <2>b, <2>s, <3>2, <3>3, <3>4
  <2>3. CASE UNCHANGED vars
    <3>1. UNCHANGED <<socketVars, controllerVars, workerVars>>
      BY <2>3 DEF vars
    <3> USE DEF socketVars, controllerVars, clientVars, dispatcherVars, handlerVars, workerVars
    <3>2. NoPoolMiss' /\ ToHostHolds'
      BY <2>a, <3>1 DEF NoPoolMiss, ToHostHolds
    <3>3. ASSUME NEW w \in Workers PROVE Follows(w, C, H)'
      <4>1. /\ ReadFrom(w)' = ReadFrom(w) /\ Replies(w)' = Replies(w) /\ InFlight(w)' = InFlight(w)
            /\ (Live(w)' <=> Live(w)) /\ pools'[w] = pools[w]
            /\ UNCHANGED <<handling, responseBuffers>>
        BY <3>1 DEF ReadFrom, Replies, InFlight, Live, Running
      <4>2. Follows(w, C, H)
        BY <2>b DEF HistoryOf
      <4> QED BY <4>1, <4>2, KeepsFollows
    <3>4. HistoryOf(C, H)'
      BY <2>b, <3>1, <3>3, KeepsHistory DEF Pending, Waiting, Fresh
    <3> QED BY <2>b, <2>s, <3>2, <3>4
  <2> QED BY <2>1, <2>2, <2>3 DEF Next, Terminated
<1> QED BY <1>1, <1>2, ShutdownInvariant, PTL DEF Spec

(* A worker that executes a command, however late, finds every handle the  *)
(* command names in its pools: .at() does not throw.                       *)
THEOREM HandlesAreFound ==
  ASSUME ~ReusesHandles
  PROVE  Spec => []NoPoolMiss
<1>1. HistoryInv => NoPoolMiss
  BY DEF HistoryInv
<1> QED BY <1>1, HistoryInvariant, PTL

-----------------------------------------------------------------------------
(* The controller survives.                                                *)

(* A worker neither opens nor closes what the controller holds.            *)
LEMMA WorkerKeepsSockets ==
  ASSUME NEW w \in Workers, WorkerNext(w)
  PROVE  UNCHANGED <<controllerProc, connected, listening>>
BY DEF WorkerNext, Starting, Connect, ConnectFails, Receiver, ReceiveCommand, ReceiveEof,
       ReceiverExits, Executor, PopWorkerCommand, ExecuteCommand, ExecuteThrows,
       ExecuteShutdown, RequestShutdown, JoinReceiver, WorkerExits, Sender, PopResponse,
       WriteResponse, WriteResponseFails, SenderSeesShutdown, SenderChecksEmpty, Hang, Crash,
       socketVars

(* A step of a worker: none crashes while it is needed.                    *)
LEMMA WorkerSurvives ==
  ASSUME FaultFree, HistoryInv, SurvivalInv, UNCHANGED controllerVars,
         NEW w \in Workers, WorkerNext(w)
  PROVE  SurvivalInv'
<1>a. TypeOK /\ HandsOK /\ LaunchOK /\ NoPoolMiss
  BY DEF HistoryInv, ShutdownInv, IInv
<1>b. /\ UNCHANGED <<launched, clientPc, clientCommand, controllerState, dispatcherPc, handlerPc, unread, responseBuffers>>
      /\ workerProc \in [Workers -> WorkerStates]
  BY <1>a DEF controllerVars, clientVars, dispatcherVars, handlerVars, TypeOK, SocketsTypeOK
<1>c. UNCHANGED <<controllerProc, connected, listening>>
  BY WorkerKeepsSockets
<1>d. Serving \/ clientPc = "accepting" =>
        Alive /\ connected /\ ~ControllerClosed /\ (clientPc = "accepting" => listening)
        /\ (Serving => workerProc[w] # "starting")
  BY DEF SurvivalInv, ServingOK, AcceptingOK, ControllerClosed
<1>e. ASSUME Serving \/ clientPc = "accepting"
      PROVE  /\ \A v \in Workers : v # w => workerProc'[v] = workerProc[v]
             /\ \/ workerProc'[w] = workerProc[w]
                \/ workerProc[w] = "starting" /\ workerProc'[w] = "running"
                \/ workerProc'[w] = "exited"
  <2>1. ~ReceiveEof(w) /\ ~WriteResponseFails(w) /\ ~Crash(w) /\ ~ConnectFails(w)
    BY <1>d, <1>e DEF ReceiveEof, WriteResponseFails, Crash, ConnectFails, FaultFree
  <2>2. ~ExecuteThrows(w)
    <3> SUFFICES ASSUME ExecuteThrows(w) PROVE FALSE
      OBVIOUS
    <3>1. Len(executing[w]) = 1 /\ executing[w] \in Seq(Command)
      BY <1>a DEF ExecuteThrows, HandsOK, TypeOK, ExecutorTypeOK
    <3>2. executing[w] # <<>>
      BY <3>1, OneItem
    <3> QED BY <1>a, <3>2 DEF ExecuteThrows, NoPoolMiss
  <2>3. CASE Connect(w) \/ WorkerExits(w)
    BY <1>b, <2>3 DEF Connect, WorkerExits
  <2>4. CASE workerProc' = workerProc
    BY <2>4
  <2>5. Connect(w) \/ WorkerExits(w) \/ workerProc' = workerProc
    BY <2>1, <2>2 DEF WorkerNext, Starting, Receiver, ReceiveCommand, ReceiverExits,
         Executor, PopWorkerCommand, ExecuteCommand, ExecuteShutdown, RequestShutdown, JoinReceiver,
         Sender, PopResponse, WriteResponse, SenderSeesShutdown, SenderChecksEmpty, Hang, socketVars
  <2> QED BY <2>3, <2>4, <2>5
<1>1. ServingOK'
  <2> SUFFICES ASSUME Serving' PROVE ServingOK'
    BY DEF ServingOK
  <2>1. Serving
    BY <1>b DEF Serving
  <2>2. \A v \in Workers : workerProc'[v] \in {"running", "exited"}
    BY <1>e, <2>1 DEF SurvivalInv, ServingOK
  <2> QED BY <1>b, <1>c, <2>1, <2>2 DEF SurvivalInv, ServingOK, Alive
<1>2. AcceptingOK'
  <2>1. CASE clientPc = "accepting"
    <3>1. \A v \in Workers : workerProc'[v] \in {"starting", "running", "exited"}
      BY <1>e, <2>1 DEF SurvivalInv, AcceptingOK
    <3> QED BY <1>b, <1>c, <2>1, <3>1 DEF SurvivalInv, AcceptingOK, Alive
  <2>2. CASE clientPc # "accepting"
    BY <1>b, <1>c, <2>2 DEF SurvivalInv, AcceptingOK, Alive
  <2> QED BY <2>1, <2>2
<1>3. ControllerSurvives' /\ EndOK' /\ ReadOK'
  BY <1>b, <1>c DEF SurvivalInv, ControllerSurvives, EndOK, ReadOK
<1> QED BY <1>1, <1>2, <1>3 DEF SurvivalInv

(* The steps of the dispatcher.                                            *)
LEMMA DispatcherSurvives ==
  ASSUME FaultFree, HistoryInv, SurvivalInv, Dispatcher
  PROVE  SurvivalInv'
<1>b. dispatcherPc \notin {"none", "done"}
  BY DEF Dispatcher, PopCommand, WriteCommand, DispatchDone, WriteFatal, DispatcherSeesShutdown,
         DispatcherChecksEmpty
<1>c. Serving /\ \A w \in Workers : workerProc[w] \in {"running", "exited"}
  BY <1>b DEF Serving, SurvivalInv, ServingOK
<1>d. ~WriteFatal
  <2> SUFFICES ASSUME WriteFatal PROVE FALSE
    OBVIOUS
  <2>1. PICK w \in unwritten : Gone(w)
    BY DEF WriteFatal, FaultFree
  <2>2. unwritten \subseteq Workers /\ \A v \in Workers : StoppingOK(v)
    BY DEF HistoryInv, ShutdownInv, IInv, TypeOK, ControllerTypeOK
  <2>3. workerProc[w] = "exited"
    BY <1>c, <2>1, <2>2 DEF Gone
  <2> QED BY <2>1, <2>2, <2>3 DEF StoppingOK
<1>e. /\ UNCHANGED <<controllerProc, connected, listening, workerProc, clientPc, clientCommand,
                     controllerState, handlerPc, unread, responseBuffers>>
  BY <1>d DEF Dispatcher, PopCommand, WriteCommand, DispatchDone, DispatcherSeesShutdown,
              DispatcherChecksEmpty, clientVars, handlerVars, socketVars
<1> QED BY <1>c, <1>e DEF SurvivalInv, ControllerSurvives, ServingOK, AcceptingOK, EndOK, ReadOK, Alive

(* What was read from the workers is one and the same response.            *)
LEMMA BuffersAgree ==
  ASSUME FaultFree, HistoryInv, SurvivalInv, handlerPc = "read", unread = {}
  PROVE  Acceptable(handling[1])
<1>a. /\ TypeOK /\ HandsOK
      /\ \A w \in Workers : BuffersOK(w)
  BY DEF HistoryInv, ShutdownInv, IInv, WorkerOK
<1>b. PICK C \in Seq(Command), H \in Seq(Pools) : HistoryOf(C, H)
  BY DEF HistoryInv
<1>1. Len(handling) = 1 /\ handling \in Seq(AwaitingEntry)
  BY <1>a DEF HandsOK, TypeOK, ControllerTypeOK
<1>2. handling # <<>>
  BY <1>1, OneItem
<1>3. ASSUME NEW w \in Workers
      PROVE  /\ responseBuffers[w] \in Seq(Response) /\ Len(responseBuffers[w]) = 1
             /\ responseBuffers[w] # <<>> /\ Live(w)
  <2>1. responseBuffers[w] \in Seq(Response) /\ Len(responseBuffers[w]) = 1
    BY <1>a DEF SurvivalInv, ReadOK, TypeOK, ControllerTypeOK
  <2>2. Serving
    BY DEF Serving
  <2>3. connected /\ workerProc[w] \in {"running", "exited"}
    BY <2>2 DEF SurvivalInv, ServingOK
  <2>4. Live(w)
    BY <2>3 DEF Live, Running
  <2> QED BY <2>1, <2>4, OneItem
<1>4. ASSUME NEW w \in Workers
      PROVE  /\ responseBuffers[w][1].type = handling[1].type
             /\ responseBuffers[w][1] = Respond(w, H[1], C[1])
  <2>1. SameCommand(responseBuffers[w][1], handling[1])
    BY <1>a, <1>2, <1>3 DEF BuffersOK
  <2>2. responseBuffers[w][1] = Respond(w, H[1], C[1])
    BY <1>b, <1>2, <1>3 DEF HistoryOf, Follows
  <2> QED BY <2>1, <2>2 DEF SameCommand
<1>5. ASSUME DebugBuild, NEW v \in Workers, NEW w \in Workers
      PROVE  responseBuffers[v] = responseBuffers[w]
  <2>1. NumDevices[v] = NumDevices[w]
    BY <1>5 DEF FaultFree
  <2>2. Answer(v, H[1], C[1]) = Answer(w, H[1], C[1])
    BY <2>1 DEF Answer
  <2>3. responseBuffers[v][1] = responseBuffers[w][1]
    <3>1. Respond(v, H[1], C[1]) = Respond(w, H[1], C[1])
      BY <2>2 DEF Respond
    <3> QED BY <1>4, <3>1
  <2>4. responseBuffers[v] = <<responseBuffers[v][1]>> /\ responseBuffers[w] = <<responseBuffers[w][1]>>
    BY <1>3, OneItem
  <2> QED BY <2>3, <2>4
<1> QED BY <1>3, <1>4, <1>5 DEF Acceptable

(* The steps of the response handler.                                      *)
LEMMA HandlerSurvives ==
  ASSUME FaultFree, HistoryInv, SurvivalInv, Handler
  PROVE  SurvivalInv'
<1>a. TypeOK /\ HandsOK /\ ShutdownInv
  BY DEF HistoryInv, ShutdownInv, IInv
<1>b. handlerPc \notin {"none", "done"}
  BY DEF Handler, PopAwaiting, ReadResponse, ReadTimeout, HandleResponse, HandleFatal,
         HandlerSeesShutdown, HandlerChecksEmpty
<1>c. Serving /\ connected /\ \A w \in Workers : workerProc[w] \in {"running", "exited"}
  BY <1>b DEF Serving, SurvivalInv, ServingOK
<1>d. ~HandleFatal /\ ~ReadTimeout
  BY BuffersAgree DEF HandleFatal, ReadTimeout, FaultFree
<1>e. UNCHANGED <<controllerProc, connected, listening, workerProc, clientPc, clientCommand,
                  controllerState, dispatcherPc>>
  BY <1>d DEF Handler, PopAwaiting, ReadResponse, HandleResponse,
         HandlerSeesShutdown, HandlerChecksEmpty, clientVars, dispatcherVars, socketVars
<1>1. ControllerSurvives' /\ ServingOK' /\ AcceptingOK' /\ EndOK'
  BY <1>c, <1>e DEF SurvivalInv, ControllerSurvives, ServingOK, AcceptingOK, EndOK, Alive
<1>2. ReadOK'
  <2>1. CASE PopAwaiting
    BY <2>1 DEF PopAwaiting, ReadOK
  <2>2. CASE \E w \in Workers : ReadResponse(w)
    <3>1. PICK w \in Workers : ReadResponse(w)
      BY <2>2
    <3>2. Live(w)
      BY <1>c DEF Live, Running
    <3>3. PICK C \in Seq(Command), H \in Seq(Pools) : HistoryOf(C, H)
      BY DEF HistoryInv
    <3>4. handlerPc = "read" /\ w \in unread
      BY <3>1 DEF ReadResponse
    <3>5. ~EofFrom(w)
      BY <1>a, <3>2, <3>3, <3>4, NoEarlyEof
    <3>6. /\ responseBuffers' = [responseBuffers EXCEPT ![w] = <<Head(toController[w])>>]
          /\ unread' = unread \ {w}
      BY <3>1, <3>5 DEF ReadResponse
    <3>7. responseBuffers \in [Workers -> Seq(Response)]
      BY <1>a DEF TypeOK, ControllerTypeOK
    <3> QED BY <3>4, <3>6, <3>7 DEF ReadOK, SurvivalInv
  <2>3. CASE HandleResponse \/ HandlerSeesShutdown \/ HandlerChecksEmpty
    BY <2>3 DEF HandleResponse, HandlerSeesShutdown, HandlerChecksEmpty, ReadOK
  <2> QED BY <1>d, <2>1, <2>2, <2>3 DEF Handler
<1> QED BY <1>1, <1>2 DEF SurvivalInv

(* The steps of the client. It closes its connections only when both       *)
(* threads have ended.                                                     *)
LEMMA ClientSurvives ==
  ASSUME FaultFree, HistoryInv, SurvivalInv,
         LaunchBind \/ ClientCall \/ ShutdownCall \/ ShutdownAbnormal \/ ExitCall \/ ClientStep
  PROVE  SurvivalInv'
<1>a. TypeOK /\ HandsOK /\ LaunchOK /\ ThreadsOK /\ PromiseOK
  BY DEF HistoryInv, ShutdownInv, IInv
<1>f. ~launched \/ clientPc \in {"launching", "accepting", "exitWait"} => ~Serving
  BY <1>a DEF LaunchOK, ThreadsOK, Serving
<1>i. ASSUME NEW c, Issue(c), clientPc \in {"user", "configure", "await"}, Alive,
             Serving /\ clientPc # "configure" => controllerState = "FullyOperational",
             clientPc = "configure" => c.type = "ConfigureRuntimeContext"
      PROVE  SurvivalInv'
  <2>1. /\ UNCHANGED <<controllerProc, connected, listening, workerProc, controllerState,
                       dispatcherPc, handlerPc, unread, responseBuffers>>
        /\ clientPc' = "push" /\ clientCommand' = c
    BY <1>i DEF Issue, socketVars, dispatcherVars, handlerVars
  <2> QED BY <1>i, <2>1 DEF SurvivalInv, ControllerSurvives, Serving, ServingOK, AcceptingOK, EndOK,
                            ReadOK, Alive
<1>1. CASE ClientCall
  <2>1. clientPc = "user" /\ Alive /\ \E c : Issue(c)
    BY <1>1 DEF ClientCall, PlainCall, NewDeviceCall, DeviceCall, NewLayoutCall, NewTensorCall,
                TensorCall, MayCall
  <2> QED BY <1>i, <2>1 DEF SurvivalInv, ServingOK
<1>2. CASE Configure
  <2>1. clientPc = "configure" /\ Alive /\ Issue(Build(nextCommandId, "ConfigureRuntimeContext"))
    BY <1>2 DEF Configure
  <2>2. Build(nextCommandId, "ConfigureRuntimeContext").type = "ConfigureRuntimeContext"
    BY DEF Build
  <2> QED BY <1>i, <2>1, <2>2
<1>3. CASE ShutdownCall \/ (ExitCall /\ launched /\ controllerState = "FullyOperational")
  <2>1. clientPc = "user" /\ Alive /\ Issue(Build(nextCommandId, "Shutdown"))
    BY <1>3 DEF ShutdownCall, ExitCall
  <2> QED BY <1>i, <2>1 DEF SurvivalInv, ServingOK
<1>4. CASE ReturnNumShards
  <2>1. clientPc = "await" /\ Alive /\ (\E c : Issue(c)) /\ clientCommand.type = "GetNumShards"
    BY <1>4 DEF ReturnNumShards, ToHost
  <2> QED BY <1>i, <2>1 DEF SurvivalInv, ServingOK
<1> USE DEF SurvivalInv, ControllerSurvives, EndOK
<1>5. CASE PushCommand \/ ReturnFromWait
  <2>1. /\ UNCHANGED <<controllerProc, connected, listening, workerProc, clientCommand,
                       dispatcherPc, handlerPc, unread, responseBuffers>>
        /\ Alive /\ clientPc \in {"push", "await"} /\ clientPc' \in {"user", "await", "join"}
    BY <1>5 DEF PushCommand, ReturnFromWait, socketVars, dispatcherVars, handlerVars
  <2>2. clientPc' = "user" =>
          \/ controllerState' = "FullyOperational"
          \/ /\ controllerState' = controllerState
             /\ clientCommand.type # "ConfigureRuntimeContext"
    <3>1. CASE PushCommand
      BY <3>1 DEF PushCommand, Blocking
    <3>2. CASE ReturnFromWait
      BY <3>2 DEF ReturnFromWait
    <3> QED BY <1>5, <3>1, <3>2
  <2>3. clientPc' = "await" => controllerState' = controllerState
    BY <1>5, <2>1 DEF PushCommand, ReturnFromWait
  <2>4. ServingOK'
    BY <2>1, <2>2, <2>3 DEF ServingOK, Serving, Alive
  <2> QED BY <2>1, <2>4 DEF AcceptingOK, ReadOK, Alive
<1>6. CASE LaunchBind
  <2>1. /\ UNCHANGED <<controllerProc, connected, workerProc, clientCommand, dispatcherPc,
                       handlerPc, unread, responseBuffers>>
        /\ Alive /\ ~launched /\ clientPc = "user"
        /\ (listening' /\ clientPc' = "launching") \/ clientPc' = "user"
    BY <1>6 DEF LaunchBind, dispatcherVars, handlerVars
  <2>2. ~Serving'
    BY <1>f, <2>1 DEF Serving
  <2> QED BY <2>1, <2>2 DEF ServingOK, AcceptingOK, ReadOK, Alive
<1>7. CASE LaunchCommand
  <2>1. /\ UNCHANGED <<controllerProc, listening, dispatcherPc, handlerPc, unread, responseBuffers>>
        /\ connected' /\ clientPc = "launching" /\ clientPc' = "accepting"
        /\ \A w \in Workers : workerProc'[w] = "starting"
    BY <1>7 DEF LaunchCommand, dispatcherVars, handlerVars
  <2>2. ~Serving'
    BY <1>f, <2>1 DEF Serving
  <2> QED BY <2>1, <2>2 DEF ServingOK, AcceptingOK, ReadOK, Alive
<1>8. CASE LaunchFails \/ ShutdownFails
  <2>1. /\ UNCHANGED <<controllerProc, dispatcherPc, handlerPc, unread, responseBuffers>>
        /\ Alive /\ clientPc \in {"launching", "accepting", "exitWait"}
        /\ clientPc' \in {"user", "destroy"}
    BY <1>8 DEF LaunchFails, ShutdownFails, socketVars, dispatcherVars, handlerVars
  <2>2. ~Serving'
    BY <1>f, <2>1 DEF Serving
  <2> QED BY <2>1, <2>2 DEF ServingOK, AcceptingOK, ReadOK, Alive
<1>9. CASE StartThreads
  <2>1. /\ UNCHANGED <<controllerProc, connected, listening, workerProc>>
        /\ clientPc = "accepting" /\ clientPc' = "configure"
        /\ \A w \in Workers : workerProc[w] # "starting"
        /\ handlerPc' = "loop"
    BY <1>9 DEF StartThreads, socketVars
  <2> QED BY <2>1 DEF ServingOK, AcceptingOK, ReadOK, Alive
<1>10. CASE ShutdownAbnormal \/ (ExitCall /\ ~(launched /\ controllerState = "FullyOperational"))
  <2>1. /\ UNCHANGED <<controllerProc, dispatcherPc, handlerPc, unread, responseBuffers>>
        /\ Alive /\ clientPc = "user" /\ ~(launched /\ controllerState = "FullyOperational")
        /\ clientPc' \in {"user", "destroy"}
    BY <1>10 DEF ShutdownAbnormal, ExitCall, socketVars, dispatcherVars, handlerVars, clientVars
  <2>2. ~Serving
    BY <1>f, <2>1 DEF ServingOK
  <2>3. ~Serving'
    BY <2>1, <2>2 DEF Serving
  <2> QED BY <2>1, <2>3 DEF ServingOK, AcceptingOK, ReadOK, Alive
<1>11. CASE JoinThreads
  <2>1. /\ UNCHANGED <<controllerProc, dispatcherPc, handlerPc, unread, responseBuffers>>
        /\ Alive /\ dispatcherPc = "done" /\ handlerPc = "done" /\ clientPc' = "exitWait"
    BY <1>11 DEF JoinThreads, socketVars, dispatcherVars, handlerVars
  <2> QED BY <2>1 DEF Serving, ServingOK, AcceptingOK, ReadOK, Alive
<1>12. CASE ShutdownSucceeds
  <2>1. /\ UNCHANGED controllerProc
        /\ Alive /\ dispatcherPc' = "none" /\ handlerPc' = "none" /\ clientPc' \in {"reap", "user"}
    BY <1>12 DEF ShutdownSucceeds
  <2> QED BY <2>1 DEF Serving, ServingOK, AcceptingOK, ReadOK, Alive
<1>13. CASE CloseSockets \/ ProcessExits
  <2>1. /\ UNCHANGED <<dispatcherPc, handlerPc, unread, responseBuffers>>
        /\ Alive /\ clientPc \in {"destroy", "reap"} /\ clientPc' = "reap"
        /\ controllerProc' \in {"alive", "exited"}
    BY <1>13 DEF CloseSockets, ProcessExits, Alive, controllerVars, clientVars, dispatcherVars, handlerVars
  <2>2. ~Serving'
    BY <2>1 DEF Serving, ServingOK
  <2> QED BY <2>1, <2>2 DEF ServingOK, AcceptingOK, ReadOK, Alive
<1> QED BY <1>1, <1>2, <1>3, <1>4, <1>5, <1>6, <1>7, <1>8, <1>9, <1>10, <1>11, <1>12, <1>13
        DEF ClientStep

(* The invariant of a controller that survives, for any number of workers, *)
(* any user program that uses only handles it holds and any number of      *)
(* launches, some of which may fail.                                       *)
THEOREM SurvivalInvariant ==
  ASSUME FaultFree
  PROVE  Spec => []SurvivalInv
<1>1. Init => SurvivalInv
  BY DEF Init, SocketsInit, ControllerInit, SurvivalInv, ControllerSurvives, Serving, ServingOK,
         AcceptingOK, EndOK, ReadOK, Alive
<1>2. HistoryInv /\ SurvivalInv /\ [Next]_vars => SurvivalInv'
  <2> SUFFICES ASSUME HistoryInv, SurvivalInv, [Next]_vars PROVE SurvivalInv'
    OBVIOUS
  <2>1. CASE ControllerNext
    BY <2>1, ClientSurvives, DispatcherSurvives, HandlerSurvives DEF ControllerNext
  <2>2. CASE (\E w \in Workers : WorkerNext(w)) /\ UNCHANGED controllerVars
    BY <2>2, WorkerSurvives
  <2>3. CASE UNCHANGED vars
    BY <2>3 DEF vars, socketVars, controllerVars, clientVars, dispatcherVars, handlerVars,
                SurvivalInv, ControllerSurvives, Serving, ServingOK, AcceptingOK, EndOK, ReadOK,
                Alive
  <2> QED BY <2>1, <2>2, <2>3 DEF Next, Terminated
<1>3. ~ReusesHandles
  BY DEF FaultFree
<1>4. Spec => []HistoryInv
  BY <1>3, HistoryInvariant
<1> QED BY <1>1, <1>2, <1>4, PTL DEF Spec

(* No empty buffer, no unexpected type and no difference between workers   *)
(* makes the response handler give up, and no write fails.                 *)
THEOREM TheControllerSurvives ==
  ASSUME FaultFree
  PROVE  Spec => []ControllerSurvives
<1>1. SurvivalInv => ControllerSurvives
  BY DEF SurvivalInv
<1> QED BY <1>1, SurvivalInvariant, PTL

-----------------------------------------------------------------------------
(* Every call is served.                                                   *)

(* A call is made under the next id.                                       *)
LEMMA CallHasNextId ==
  ASSUME \/ ClientCall \/ Configure \/ ShutdownCall \/ ReturnNumShards
         \/ ExitCall /\ launched /\ controllerState = "FullyOperational"
  PROVE  clientCommand'.id = nextCommandId /\ nextCommandId' = nextCommandId + 1
<1>i. ASSUME NEW c, Issue(c), c.id = nextCommandId
      PROVE  clientCommand'.id = nextCommandId /\ nextCommandId' = nextCommandId + 1
  BY <1>i DEF Issue
<1>1. CASE PlainCall
  <2>1. PICK type, device : Issue([Build(nextCommandId, type) EXCEPT !.devices = device])
    BY <1>1 DEF PlainCall
  <2> QED BY <1>i, <2>1 DEF Build
<1>2. CASE NewDeviceCall
  <2>1. PICK type, parents : Issue([Build(nextCommandId, type) EXCEPT
                                      !.devices = parents, !.outputs = {nextGlobalId.device}])
    BY <1>2 DEF NewDeviceCall
  <2> QED BY <1>i, <2>1 DEF Build
<1>3. CASE DeviceCall
  <2>1. PICK type, d : Issue([Build(nextCommandId, type) EXCEPT !.devices = {d}])
    BY <1>3 DEF DeviceCall
  <2> QED BY <1>i, <2>1 DEF Build
<1>4. CASE NewLayoutCall
  <2>1. PICK type : Issue([Build(nextCommandId, type) EXCEPT !.outputs = {nextGlobalId.layout}])
    BY <1>4 DEF NewLayoutCall
  <2> QED BY <1>i, <2>1 DEF Build
<1>5. CASE NewTensorCall
  <2>1. PICK type, src, retain :
          Issue([Build(nextCommandId, type) EXCEPT
                   !.devices = src[1], !.tensors = src[2], !.layouts = src[3],
                   !.outputs = {nextGlobalId.tensor}, !.retain = retain])
    BY <1>5, Zenon DEF NewTensorCall
  <2> QED BY <1>i, <2>1 DEF Build
<1>6. CASE TensorCall
  <2>1. PICK type, t, layouts, dst, retain :
          Issue([Build(nextCommandId, type) EXCEPT
                   !.tensors = {t, dst}, !.layouts = layouts, !.retain = retain])
    BY <1>6, Zenon DEF TensorCall
  <2> QED BY <1>i, <2>1 DEF Build
<1>7. CASE Configure
  BY <1>7 DEF Configure, Issue, Build
<1>8. CASE ShutdownCall \/ (ExitCall /\ launched /\ controllerState = "FullyOperational")
  BY <1>8 DEF ShutdownCall, ExitCall, Issue, Build
<1>9. CASE ReturnNumShards
  <2>1. PICK tensors, outputs : Issue([Build(nextCommandId, "ToHost") EXCEPT
                                         !.tensors = tensors, !.outputs = outputs])
    BY <1>9 DEF ReturnNumShards, ToHost
  <2> QED BY <1>i, <2>1 DEF Build
<1> QED BY <1>1, <1>2, <1>3, <1>4, <1>5, <1>6, <1>7, <1>8, <1>9 DEF ClientCall

(* The client's steps preserve ServedInv.                                  *)
LEMMA ClientKeepsServed ==
  ASSUME CarefulClient, ShutdownInv, ServedInv,
         LaunchBind \/ ClientCall \/ ShutdownCall \/ ShutdownAbnormal \/ ExitCall \/ ClientStep
  PROVE  ServedInv'
<1>a. TypeOK /\ LaunchOK /\ ThreadsOK /\ PromiseOK /\ nextCommandId \in Nat /\ clientCommand.id \in Nat
  BY DEF ShutdownInv, IInv, TypeOK, ControllerTypeOK, Command
<1> USE DEF ServedInv
<1>1. CASE \/ ClientCall \/ Configure \/ ShutdownCall \/ ReturnNumShards
           \/ ExitCall /\ launched /\ controllerState = "FullyOperational"
  <2>1. clientCommand'.id = nextCommandId /\ nextCommandId' = nextCommandId + 1
    BY <1>1, CallHasNextId
  <2>2. UNCHANGED <<controllerState, dispatcherPc, handlerPc>> /\ clientPc' = "push"
    <3>1. \E c : Issue(c)
      <4>1. CASE ClientCall
        BY <4>1 DEF ClientCall, PlainCall, NewDeviceCall, DeviceCall, NewLayoutCall,
                    NewTensorCall, TensorCall
      <4>2. CASE ~ClientCall
        BY <1>1, <4>2 DEF Configure, ShutdownCall, ReturnNumShards, ToHost, ExitCall
      <4> QED BY <4>1, <4>2
    <3> QED BY <3>1 DEF Issue, dispatcherVars, handlerVars
  <2>3. clientPc \in {"configure", "await"} \/ controllerState = "FullyOperational"
    BY <1>1 DEF ClientCall, PlainCall, NewDeviceCall, DeviceCall, NewLayoutCall, NewTensorCall,
                TensorCall, MayCall, Configure, ShutdownCall, ReturnNumShards
  <2>4. ServedOK'
    BY <2>2, <2>3 DEF ServedOK
  <2>5. IdsOK'
    BY <1>a, <2>1, <2>2 DEF IdsOK
  <2> QED BY <2>4, <2>5
<1>2. CASE PushCommand
  BY <1>2 DEF PushCommand, ServedOK, IdsOK, dispatcherVars, handlerVars
<1>3. CASE ReturnFromWait
  <2>1. /\ UNCHANGED <<dispatcherPc, handlerPc, nextCommandId, clientCommand>>
        /\ clientPc = "await" /\ clientPc' = IF clientCommand.type = "Shutdown" THEN "join" ELSE "user"
        /\ controllerState' = CASE clientCommand.type = "ConfigureRuntimeContext" -> "FullyOperational"
                                [] clientCommand.type = "Shutdown" -> "ShuttingDown"
                                [] OTHER -> controllerState
    BY <1>3 DEF ReturnFromWait, dispatcherVars, handlerVars
  <2>2. CASE clientCommand.type = "Shutdown"
    BY <2>1, <2>2 DEF ServedOK, IdsOK
  <2>3. CASE clientCommand.type = "ConfigureRuntimeContext"
    <3>1. clientPc' = "user" /\ controllerState' = "FullyOperational"
      BY <2>1, <2>3
    <3>2. nextCommandId > 0 
      BY <1>a, <2>3 DEF IdsOK
    <3>3. controllerState # "ShuttingDown"
      BY <1>a, <2>1 DEF ThreadsOK
    <3> QED BY <2>1, <2>3, <3>1, <3>2, <3>3 DEF ServedOK, IdsOK
  <2>4. CASE clientCommand.type \notin {"Shutdown", "ConfigureRuntimeContext"}
    <3>1. clientPc' = "user" /\ controllerState' = controllerState
      BY <2>1, <2>4
    <3> QED BY <2>1, <3>1 DEF ServedOK, IdsOK
  <2> QED BY <2>2, <2>3, <2>4
<1>4. CASE LaunchBind \/ LaunchCommand \/ LaunchFails
  <2>1. /\ UNCHANGED <<dispatcherPc, handlerPc, nextCommandId, clientCommand>>
        /\ ~launched \/ clientPc \in {"launching", "accepting"}
        /\ clientPc' \in {"user", "launching", "accepting"}
        /\ controllerState' = controllerState \/ controllerState' \in {"ControllerSocketBound", "CommandLaunched"}
    BY <1>4 DEF LaunchBind, LaunchCommand, LaunchFails, dispatcherVars, handlerVars
  <2>2. dispatcherPc = "none" /\ handlerPc \in {"none", "done"}
    BY <1>a, <2>1 DEF LaunchOK, ThreadsOK
  <2> QED BY <2>1, <2>2 DEF ServedOK, IdsOK
<1>5. CASE StartThreads
  BY <1>5 DEF StartThreads, ServedOK, IdsOK
<1>6. CASE ShutdownAbnormal \/ (ExitCall /\ ~(launched /\ controllerState = "FullyOperational"))
  <2>1. /\ UNCHANGED <<dispatcherPc, handlerPc, nextCommandId, clientCommand>>
        /\ clientPc = "user" /\ clientPc' \in {"user", "destroy"}
        /\ controllerState' = controllerState \/ controllerState' = "Shutdown"
        /\ ~launched \/ controllerState # "FullyOperational"
    BY <1>6 DEF ShutdownAbnormal, ExitCall, dispatcherVars, handlerVars, clientVars
  <2>2. controllerState # "ShuttingDown"
    BY <1>a, <2>1 DEF ThreadsOK
  <2> QED BY <2>1, <2>2 DEF ServedOK, IdsOK
<1>7. CASE JoinThreads
  BY <1>7 DEF JoinThreads, dispatcherVars, handlerVars, ServedOK, IdsOK
<1>8. CASE ShutdownSucceeds
  BY <1>8 DEF ShutdownSucceeds, ServedOK, IdsOK
<1>9. CASE ShutdownFails
  <2>1. /\ UNCHANGED <<dispatcherPc, handlerPc, nextCommandId, clientCommand>>
        /\ clientPc = "exitWait" /\ clientPc' \in {"user", "destroy"}
        /\ controllerState' = "Shutdown"
    BY <1>9 DEF ShutdownFails, dispatcherVars, handlerVars
  <2>2. dispatcherPc = "done" /\ handlerPc = "done"
    BY <1>a, <2>1 DEF LaunchOK
  <2> QED BY <2>1, <2>2 DEF ServedOK, IdsOK
<1>10. CASE CloseSockets \/ ProcessExits
  <2>1. /\ UNCHANGED <<dispatcherPc, handlerPc, nextCommandId, clientCommand, controllerState>>
        /\ clientPc \in {"destroy", "reap"} /\ clientPc' = "reap"
    BY <1>10 DEF CloseSockets, ProcessExits, controllerVars, clientVars, dispatcherVars, handlerVars
  <2> QED BY <2>1 DEF ServedOK, IdsOK
<1> QED BY <1>1, <1>2, <1>3, <1>4, <1>5, <1>6, <1>7, <1>8, <1>9, <1>10 DEF ClientStep

(* If the user makes no call after a launch or a shutdown that failed, the *)
(* dispatcher and the response handler run as long as a call may need them,*)
(* and no id is used twice, whatever fails.                                *)
THEOREM ServedInvariant ==
  ASSUME CarefulClient
  PROVE  Spec => []ServedInv
<1>1. Init => ServedInv
  BY DEF Init, ControllerInit, ServedInv, ServedOK, IdsOK, Build
<1>2. ShutdownInv /\ ServedInv /\ [Next]_vars => ServedInv'
  <2> SUFFICES ASSUME ShutdownInv, ServedInv, [Next]_vars PROVE ServedInv'
    OBVIOUS
  <2>1. CASE LaunchBind \/ ClientCall \/ ShutdownCall \/ ShutdownAbnormal \/ ExitCall \/ ClientStep
    BY <2>1, ClientKeepsServed
  <2>2. CASE Dispatcher
    <3>1. UNCHANGED <<clientPc, controllerState, handlerPc, nextCommandId, clientCommand>>
      BY <2>2 DEF Dispatcher, PopCommand, WriteCommand, DispatchDone, WriteFatal,
                  DispatcherSeesShutdown, DispatcherChecksEmpty, clientVars, handlerVars,
                  controllerVars
    <3>2. \/ dispatcherPc' \notin {"none", "done", "checkEmpty"}
          \/ dispatcherPc' = dispatcherPc
          \/ dispatcherPc' = "checkEmpty" /\ controllerState = "ShuttingDown"
          \/ dispatcherPc' = "done" /\ dispatcherPc = "checkEmpty"
      BY <2>2 DEF Dispatcher, PopCommand, WriteCommand, DispatchDone, WriteFatal,
                  DispatcherSeesShutdown, DispatcherChecksEmpty, controllerVars, dispatcherVars
    <3>3. ThreadsOK
      BY DEF ShutdownInv
    <3> QED BY <3>1, <3>2, <3>3 DEF ServedInv, ServedOK, IdsOK, ThreadsOK
  <2>3. CASE Handler
    <3>1. UNCHANGED <<clientPc, controllerState, dispatcherPc, nextCommandId, clientCommand>>
      BY <2>3 DEF Handler, PopAwaiting, ReadResponse, ReadTimeout, HandleResponse, HandleFatal,
                  HandlerSeesShutdown, HandlerChecksEmpty, clientVars, dispatcherVars,
                  controllerVars
    <3>2. \/ handlerPc' \notin {"none", "done", "checkEmpty"}
          \/ handlerPc' = handlerPc
          \/ handlerPc' = "checkEmpty" /\ controllerState = "ShuttingDown"
          \/ handlerPc' = "done" /\ handlerPc = "checkEmpty"
      BY <2>3 DEF Handler, PopAwaiting, ReadResponse, ReadTimeout, HandleResponse, HandleFatal,
                  HandlerSeesShutdown, HandlerChecksEmpty, controllerVars, handlerVars
    <3>3. ThreadsOK
      BY DEF ShutdownInv
    <3> QED BY <3>1, <3>2, <3>3 DEF ServedInv, ServedOK, IdsOK, ThreadsOK
  <2>4. CASE UNCHANGED controllerVars
    BY <2>4 DEF controllerVars, clientVars, dispatcherVars, handlerVars, ServedInv, ServedOK, IdsOK
  <2>5. CASE UNCHANGED vars
    BY <2>4, <2>5 DEF vars
  <2> QED BY <2>1, <2>2, <2>3, <2>4, <2>5 DEF Next, Terminated, ControllerNext
<1> QED BY <1>1, <1>2, ShutdownInvariant, PTL DEF Spec

(* A call that is let through and waits has a response handler to set its  *)
(* promise, if the user makes none after a launch or a shutdown failed.    *)
THEOREM CallsAreServed ==
  ASSUME CarefulClient
  PROVE  Spec => []AdmittedCallIsServed
<1>1. ServedInv => AdmittedCallIsServed
  BY DEF ServedInv, ServedOK, AdmittedCallIsServed
<1> QED BY <1>1, ServedInvariant, PTL

-----------------------------------------------------------------------------
(* The history that a worker shows the client.                             *)

(* Every nonempty set of numbers has a least one.                          *)
LEMMA Least ==
  ASSUME NEW T, T \subseteq Nat, T # {}
  PROVE  \E n \in T : \A m \in T : n <= m
<1> DEFINE R == OpToRel(<, Nat)
<1>1. IsWellFoundedOn(R, Nat)
  BY NatLessThanWellFounded
<1>2. \A x, y \in Nat : x < y => <<x, y>> \in R
  BY DEF OpToRel
<1> HIDE DEF R
<1>3. PICK n \in T : \A m \in T : ~ (<<m, n>> \in R)
  BY <1>1, WFMin
<1>4. ASSUME NEW m \in T PROVE n <= m
  <2>1. m \in Nat /\ n \in Nat
    OBVIOUS
  <2>2. ~ (m < n)
    BY <1>2, <1>3, <2>1
  <2> QED BY <2>1, <2>2
<1> QED BY <1>4

(* Executing the commands s one after the other leads along the history H. *)
LEMMA ExecuteAllFollows ==
  ASSUME NEW p, NEW s \in Seq(Command), NEW H, NEW n \in Nat, p = H[n + 1],
         \A i \in 1..Len(s) : H[n + i + 1] = Execute(H[n + i], s[i])
  PROVE  ExecuteAll(p, s) = H[n + Len(s) + 1]
<1>0. Len(s) \in Nat
  OBVIOUS
<1> DEFINE F(g) == [i \in 0..Len(s) |-> IF i = 0 THEN p ELSE Execute(g[i - 1], s[i])]
           f == [i \in 0..Len(s) |-> H[n + i + 1]]
           Fixed(g) == g = F(g)
           after == CHOOSE g : Fixed(g)
<1>1. ExecuteAll(p, s) = after[Len(s)]
  BY DEF ExecuteAll
<1>2. f = F(f)
  <2>1. ASSUME NEW i \in 0..Len(s) PROVE f[i] = IF i = 0 THEN p ELSE Execute(f[i - 1], s[i])
    <3>1. CASE i = 0
      BY <3>1
    <3>2. CASE i # 0
      <4>1. i \in 1..Len(s) /\ i - 1 \in 0..Len(s) /\ (n + (i - 1)) + 1 = n + i
        BY <1>0, <3>2
      <4>2. f[i - 1] = H[n + i]
        BY <4>1
      <4> QED BY <3>2, <4>1, <4>2
    <3> QED BY <3>1, <3>2
  <2> QED BY <2>1
<1>3. after = F(after)
  <2>1. Fixed(f)
    BY <1>2
  <2>2. Fixed(after)
    <3> HIDE DEF Fixed, f
    <3> QED BY <2>1
  <2> HIDE DEF after
  <2> QED BY <2>2
<1> HIDE DEF after
<1>4. ASSUME NEW i \in 1..Len(s) PROVE after[i] = Execute(after[i - 1], s[i])
  <2>1. i \in 0..Len(s) /\ i # 0
    BY <1>0
  <2>2. F(after)[i] = Execute(after[i - 1], s[i])
    BY <2>1
  <2> HIDE DEF F
  <2> QED BY <1>3, <2>2
<1>5. after[0] = p
  BY <1>0, <1>3
<1> DEFINE T == {i \in 0..Len(s) : after[i] # H[n + i + 1]}
<1>6. T = {}
  <2> SUFFICES ASSUME T # {} PROVE FALSE
    OBVIOUS
  <2>0. T \subseteq Nat
    BY <1>0
  <2>1. PICK k \in T : \A m \in T : k <= m
    <3> HIDE DEF T
    <3> QED BY <2>0, Least
  <2>2. k # 0
    BY <1>5, <2>1
  <2>3. k \in 1..Len(s) /\ k - 1 \in 0..Len(s) /\ ~(k <= k - 1) /\ (n + (k - 1)) + 1 = n + k
    BY <1>0, <2>1, <2>2
  <2>4. after[k - 1] = H[n + k]
    BY <2>1, <2>3
  <2> QED BY <1>4, <2>1, <2>3, <2>4
<1> QED BY <1>0, <1>1, <1>6

(* A worker on the way along a history will have the pools at its end.     *)
LEMMA WayLeadsToEnd ==
  ASSUME NEW w, NEW C \in Seq(Command), NEW H \in Seq(Pools), IsHistory(C, H), NEW read \in Nat,
         NEW replies \in Seq(Response), NEW todo \in Seq(Command), NEW p,
         OnTheWay(w, C, H, read, replies, todo, p)
  PROVE  ExecuteAll(p, todo) = H[Len(H)]
<1> DEFINE n == read + Len(replies)
<1>0. Len(todo) \in Nat /\ Len(replies) \in Nat /\ Len(C) \in Nat
  OBVIOUS
<1>1. n \in Nat /\ n + Len(todo) = Len(C) /\ Len(H) = Len(C) + 1
  BY <1>0 DEF OnTheWay, IsHistory
<1>2. p = H[n + 1] /\ \A i \in 1..Len(todo) : todo[i] = C[n + i]
  BY DEF OnTheWay
<1> HIDE DEF n
<1>3. ASSUME NEW i \in 1..Len(todo) PROVE H[n + i + 1] = Execute(H[n + i], todo[i])
  <2>1. n + i \in 1..Len(C)
    BY <1>0, <1>1
  <2> QED BY <1>2, <2>1 DEF IsHistory
<1>4. ExecuteAll(p, todo) = H[n + Len(todo) + 1]
  BY ZenonT(40), <1>1, <1>2, <1>3, ExecuteAllFollows
<1> QED BY <1>1, <1>4

(* So its objects, as the user sees them, are those at the end.            *)
Joined(w) == connected /\ workerProc[w] \in {"running", "exited"}

ObjectsAreLast ==
  \A C \in Seq(Command), H \in Seq(Pools), w \in Workers :
    HistoryOf(C, H) /\ Joined(w) => Objects(w) = H[Len(H)]

(* Objects(w) are the last pools of any history that w is in.              *)
LEMMA EndOfHistory == TypeOK => ObjectsAreLast
<1> SUFFICES ASSUME TypeOK, NEW C \in Seq(Command), NEW H \in Seq(Pools), NEW w \in Workers,
                    HistoryOf(C, H), Joined(w)
             PROVE  Objects(w) = H[Len(H)]
  BY DEF ObjectsAreLast
<1>1. Live(w) /\ Objects(w) = ExecuteAll(pools[w], InFlight(w))
  BY DEF Live, Running, Joined, Objects
<1>2. InFlight(w) \in Seq(Command) /\ Replies(w) \in Seq(Response)
  BY FlightTypes
<1>3. ReadFrom(w) \in Nat
  BY DEF ReadFrom
<1>4. IsHistory(C, H) /\ OnTheWay(w, C, H, ReadFrom(w), Replies(w), InFlight(w), pools[w])
  BY <1>1 DEF HistoryOf, Follows
<1> QED BY <1>1, <1>2, <1>3, <1>4, WayLeadsToEnd

(* The same, after a step.                                                 *)
LEMMA EndOfNextHistory == TypeOK' => ObjectsAreLast'
BY EndOfHistory, PTL

-----------------------------------------------------------------------------
(* The steps of the sequential runtime, seen through worker w.             *)
SequentialStep(w) == [Sequential(w)!Next]_(Sequential(w)!vars)

(* The definitions of Commands mean the same there.                        *)
LEMMA SameCommands ==
  ASSUME NEW w \in Workers
  PROVE  /\ Sequential(w)!Command = Command
         /\ Sequential(w)!Blocking = Blocking
         /\ Sequential(w)!EmptyPools = EmptyPools
         /\ \A p, c : Sequential(w)!PoolMiss(p, c) <=> PoolMiss(p, c)
         /\ \A p, c : Sequential(w)!Execute(p, c) = Execute(p, c)
         /\ \A v, p, c : Sequential(w)!Answer(v, p, c) = Answer(v, p, c)
         /\ \A f : Sequential(w)!SumFunction(f) = SumFunction(f)
<1>1. Sequential(w)!Command = Command
  BY DEF Command, CommandTypes, Plain, OnDevice, OnTensor, NewDevice, NewTensor, NewLayout,
         Sequential!Command, Sequential!CommandTypes, Sequential!Plain, Sequential!OnDevice,
         Sequential!OnTensor, Sequential!NewDevice, Sequential!NewTensor, Sequential!NewLayout
<1>2. Sequential(w)!Blocking = Blocking /\ Sequential(w)!EmptyPools = EmptyPools
  BY DEF Blocking, EmptyPools, Sequential!Blocking, Sequential!EmptyPools
<1>3. \A p, c : Sequential(w)!PoolMiss(p, c) <=> PoolMiss(p, c)
  BY DEF PoolMiss, Sequential!PoolMiss
<1>4. ASSUME NEW p, NEW c PROVE Sequential(w)!Execute(p, c) = Execute(p, c)
  BY DEF Execute, NewDevice, NewTensor, NewLayout, ShouldRetain, Sequential!Execute,
         Sequential!NewDevice, Sequential!NewTensor, Sequential!NewLayout,
         Sequential!ShouldRetain
<1>5. ASSUME NEW v, NEW p, NEW c PROVE Sequential(w)!Answer(v, p, c) = Answer(v, p, c)
  BY DEF Answer, Bit, Sequential!Answer, Sequential!Bit
<1>6. ASSUME NEW f PROVE Sequential(w)!SumFunction(f) = SumFunction(f)
  BY DEF SumFunction, SumFunctionOnSet, FoldFunctionOnSet, MapThenFoldSet,
         Sequential!SumFunction, Sequential!SumFunctionOnSet, Sequential!FoldFunctionOnSet,
         Sequential!MapThenFoldSet
<1> QED BY <1>1, <1>2, <1>3, <1>4, <1>5, <1>6

(* A step that changes nothing a caller can see is a stutter there.        *)
LEMMA Stutters ==
  ASSUME NEW w \in Workers, UNCHANGED <<clientCommand, result>>, Waiting' <=> Waiting,
         Objects(w)' = Objects(w)
  PROVE  SequentialStep(w)
BY DEF SequentialStep, Sequential!vars, Waiting

(* Between two calls, new workers with empty pools, or no workers, are     *)
(* Reset there.                                                            *)
LEMMA Resets ==
  ASSUME NEW w \in Workers, UNCHANGED <<clientCommand, result>>, ~Waiting, ~Waiting',
         Objects(w)' = EmptyPools
  PROVE  SequentialStep(w)
BY SameCommands DEF SequentialStep, Sequential!Next, Sequential!Reset, Waiting

(* Issuing a command is a call there, if the last pools are those that it  *)
(* makes of the ones before.                                               *)
LEMMA Calls ==
  ASSUME NEW w \in Workers, UNCHANGED result, ~Waiting, clientCommand' \in Command,
         clientCommand' # clientCommand, ~PoolMiss(Objects(w), clientCommand'),
         Objects(w)' = Execute(Objects(w), clientCommand'),
         Waiting' <=> clientCommand'.type \in Blocking
  PROVE  SequentialStep(w)
BY SameCommands DEF SequentialStep, Sequential!Next, Sequential!Call, Waiting

(* A call that returns there, with an answer computed from the last pools. *)
LEMMA Returns ==
  ASSUME NEW w \in Workers, UNCHANGED clientCommand, Waiting, ~Waiting',
         Objects(w)' = Objects(w),
         result' \in IF clientCommand.type = "GetNumAvailableDevices"
                       THEN {SumFunction(NumDevices)}
                       ELSE {Answer(v, Objects(w), clientCommand) : v \in Workers}
  PROVE  SequentialStep(w)
BY SameCommands DEF SequentialStep, Sequential!Next, Sequential!Return, Sequential!Result, Waiting

-----------------------------------------------------------------------------
(* What the steps of the distributed runtime are there.                    *)

(* While a call waits, all workers are connected.                          *)
LEMMA WaitingIsJoined ==
  ASSUME SurvivalInv, ServedInv, NEW w \in Workers,
         Waiting \/ clientPc \in {"configure", "push", "await"}
           \/ controllerState = "FullyOperational"
  PROVE  Joined(w)
<1>1. Serving
  BY DEF ServedInv, ServedOK, Waiting, Serving
<1> QED BY <1>1 DEF SurvivalInv, ServingOK, Joined

(* Seen through w, a step of worker w.                                     *)
LEMMA WorkerStepRefines ==
  ASSUME HistoryInv, SurvivalInv, ServedInv, TypeOK', SurvivalInv', ServedInv',
         NEW w \in Workers, WorkerNext(w), UNCHANGED controllerVars
  PROVE  SequentialStep(w)
<1>a. ShutdownInv /\ TypeOK /\ LaunchOK
  BY DEF HistoryInv, ShutdownInv, IInv
<1>b. /\ UNCHANGED <<clientPc, clientCommand, promise, result, launched, handling, awaitingResponseQueue>>
  BY DEF controllerVars, clientVars, handlerVars
<1>c. Waiting' <=> Waiting
  BY <1>b DEF Waiting
<1>d. PICK C \in Seq(Command), H \in Seq(Pools) : HistoryOf(C, H)
  BY DEF HistoryInv
<1>e. HistoryOf(C, H)'
  BY <1>a, <1>d, WorkerKeepsHistory
<1>1. CASE ~Joined(w)'
  <2>1. Objects(w)' = EmptyPools
    BY <1>1 DEF Joined, Objects
  <2>2. ~Waiting'
    <3> SUFFICES ASSUME Waiting' PROVE FALSE
      OBVIOUS
    <3>1. Serving'
      BY DEF ServedInv, ServedOK, Waiting, Serving
    <3> QED BY <1>1, <3>1 DEF SurvivalInv, ServingOK, Joined
  <2> QED BY <1>b, <1>c, <2>1, <2>2, Resets
<1>2. CASE Joined(w)'
  <2>1. Objects(w)' = H[Len(H)]
    BY <1>e, <1>2, EndOfNextHistory DEF ObjectsAreLast
  <2>2. CASE Joined(w)
    <3>1. Objects(w) = H[Len(H)]
      BY <1>a, <1>d, <2>2, EndOfHistory DEF ObjectsAreLast
    <3> QED BY <1>b, <1>c, <2>1, <3>1, Stutters
  <2>3. CASE ~Joined(w)
    <3>1. workerProc[w] = "starting" /\ connected
      <4>1. connected' = connected
        BY WorkerKeepsSockets
      <4>2. workerProc[w] = "starting" \/ Running(w)
        BY DEF WorkerNext, Starting, Connect, ConnectFails, Receiver, ReceiveCommand, ReceiveEof,
               ReceiverExits, Executor, PopWorkerCommand, ExecuteCommand, ExecuteThrows,
               ExecuteShutdown, RequestShutdown, JoinReceiver, WorkerExits, Sender, PopResponse,
               WriteResponse, WriteResponseFails, SenderSeesShutdown, SenderChecksEmpty, Hang,
               Crash
      <4> QED BY <1>2, <2>3, <4>1, <4>2 DEF Joined, Running
    <3>2. clientPc = "accepting"
      BY <1>a, <3>1 DEF LaunchOK
    <3>3. Fresh /\ Pending = <<>>
      BY <1>a, <3>2 DEF Fresh, LaunchOK
    <3>4. H[1] = EmptyPools /\ Len(H) = 1
      BY <1>d, <3>3 DEF HistoryOf, IsHistory
    <3>5. Objects(w) = EmptyPools
      BY <2>3 DEF Joined, Objects
    <3> QED BY <1>b, <1>c, <2>1, <3>4, <3>5, Stutters
  <2> QED BY <2>2, <2>3
<1> QED BY <1>1, <1>2

(* A step that leaves the pools of w and what is in flight to it alone.    *)
LEMMA KeepsObjects ==
  ASSUME NEW w \in Workers, Joined(w)' <=> Joined(w), InFlight(w)' = InFlight(w),
         pools'[w] = pools[w]
  PROVE  Objects(w)' = Objects(w)
BY DEF Joined, Objects

(* Seen through v, a step of another worker w.                             *)
LEMMA OtherStepRefines ==
  ASSUME TypeOK, NEW w \in Workers, WorkerNext(w), UNCHANGED controllerVars,
         NEW v \in Workers, v # w
  PROVE  SequentialStep(v)
<1>a. /\ UNCHANGED <<clientPc, clientCommand, promise, result, unwritten, dispatching, commandQueue>>
  BY DEF controllerVars, clientVars, dispatcherVars
<1>b. /\ toWorker'[v] = toWorker[v] /\ workerQueue'[v] = workerQueue[v]
      /\ executing'[v] = executing[v] /\ pools'[v] = pools[v] /\ workerProc'[v] = workerProc[v]
      /\ connected' = connected
  BY OtherWorkers, WorkerKeepsSockets
<1>1. Objects(v)' = Objects(v)
  BY <1>a, <1>b, KeepsObjects DEF Joined, InFlight
<1>2. Waiting' <=> Waiting
  BY <1>a DEF Waiting
<1> QED BY <1>a, <1>1, <1>2, Stutters

(* The dispatcher only moves commands on.                                  *)
LEMMA DispatcherRefines ==
  ASSUME HistoryInv, TypeOK', Dispatcher, UNCHANGED workerVars, NEW w \in Workers
  PROVE  SequentialStep(w)
<1>a. ShutdownInv /\ TypeOK
  BY DEF HistoryInv, ShutdownInv, IInv
<1>b. UNCHANGED <<clientPc, clientCommand, promise, result, connected, workerProc>>
  BY DEF Dispatcher, PopCommand, WriteCommand, DispatchDone, WriteFatal, DispatcherSeesShutdown,
         DispatcherChecksEmpty, clientVars, socketVars, controllerVars
<1>c. (Waiting' <=> Waiting) /\ (Joined(w)' <=> Joined(w))
  BY <1>b DEF Waiting, Joined
<1>d. PICK C \in Seq(Command), H \in Seq(Pools) : HistoryOf(C, H)
  BY DEF HistoryInv
<1>e. HistoryOf(C, H)'
  BY <1>a, <1>d, DispatcherKeepsHistory
<1>1. CASE Joined(w)
  <2>1. Objects(w) = H[Len(H)]
    BY <1>a, <1>d, <1>1, EndOfHistory DEF ObjectsAreLast
  <2>2. Objects(w)' = H[Len(H)]
    BY <1>c, <1>e, <1>1, EndOfNextHistory DEF ObjectsAreLast
  <2> QED BY <1>b, <1>c, <2>1, <2>2, Stutters
<1>2. CASE ~Joined(w)
  <2>1. Objects(w) = EmptyPools /\ Objects(w)' = EmptyPools
    BY <1>c, <1>2 DEF Joined, Objects
  <2> QED BY <1>b, <1>c, <2>1, Stutters
<1> QED BY <1>1, <1>2

(* A query changes no pools.                                               *)
LEMMA QueryChangesNothing ==
  ASSUME NEW p, NEW c, c.type \in Blocking
  PROVE  Execute(p, c) = p
BY DEF Execute, Blocking, NewDevice, NewTensor, NewLayout

(* The response handler returns the result of the only pending call.       *)
LEMMA HandleResponseReturns ==
  ASSUME FaultFree, HistoryInv, SurvivalInv, ServedInv, HandleResponse, handling[1].promise,
         UNCHANGED workerVars, NEW w \in Workers
  PROVE  SequentialStep(w)
<1>a. /\ TypeOK /\ HandsOK /\ PromiseOK
      /\ handling \in Seq(AwaitingEntry) /\ awaitingResponseQueue \in Seq(AwaitingEntry)
  BY DEF HistoryInv, ShutdownInv, IInv, TypeOK, ControllerTypeOK
<1>b. /\ handlerPc = "read" /\ unread = {} /\ promise' = TRUE /\ result' \in Answers(handling[1])
      /\ UNCHANGED <<clientPc, clientCommand, connected, workerProc, toWorker, commandQueue,
                     dispatching, unwritten, executing, workerQueue, pools>>
  BY DEF HandleResponse, socketVars, clientVars, dispatcherVars, workerVars
<1>c. PICK C \in Seq(Command), H \in Seq(Pools) : HistoryOf(C, H)
  BY DEF HistoryInv
<1>1. Len(handling) = 1 /\ handling # <<>>
  BY <1>a, <1>b, OneItem DEF HandsOK
<1>2. Len(Pending) \in Nat /\ Len(Pending) > 0 /\ Pending[1] = handling[1]
  BY <1>a, <1>1 DEF Pending
<1>3. Len(Pending) = 1 /\ Waiting
  <2>1. 1 \in 1..Len(Pending) /\ Pending[1].promise
    BY <1>2
  <2> QED BY <1>a, <2>1 DEF PromiseOK
<1>4. handling[1] = Awaiting(clientCommand)
  BY <1>a, <1>2, <1>3 DEF PromiseOK
<1>5. handling[1].type = clientCommand.type /\ clientCommand.type \in Blocking
  BY <1>3, <1>4 DEF Awaiting, Waiting
<1>6. C[1] = clientCommand /\ Len(H) = 2 /\ H[2] = Execute(H[1], C[1])
  BY <1>c, <1>3 DEF HistoryOf, IsHistory
<1>7. Objects(w) = H[1]
  <2>1. Joined(w)
    BY <1>3, WaitingIsJoined
  <2>2. Objects(w) = H[Len(H)]
    BY <1>a, <1>c, <2>1, EndOfHistory DEF ObjectsAreLast
  <2>3. Execute(H[1], C[1]) = H[1]
    BY <1>5, <1>6, QueryChangesNothing
  <2> QED BY <1>6, <2>2, <2>3
<1>8. ASSUME NEW v \in Workers
      PROVE  responseBuffers[v][1].value = Answer(v, Objects(w), clientCommand)
  <2>1. Live(v)
    <3>1. Joined(v)
      BY <1>3, WaitingIsJoined
    <3> QED BY <3>1 DEF Live, Running, Joined
  <2>2. responseBuffers[v] # <<>>
    BY <1>b DEF HandleResponse, Acceptable
  <2>3. responseBuffers[v][1] = Respond(v, H[1], C[1])
    BY <1>c, <1>1, <2>1, <2>2 DEF HistoryOf, Follows
  <2> QED BY <1>6, <1>7, <2>3 DEF Respond
<1>9. result' \in IF clientCommand.type = "GetNumAvailableDevices"
                    THEN {SumFunction(NumDevices)}
                    ELSE {Answer(v, Objects(w), clientCommand) : v \in Workers}
  <2>1. CASE clientCommand.type = "GetNumAvailableDevices"
    <3>1. \A v \in Workers : responseBuffers[v][1].value = NumDevices[v]
      BY <1>8, <2>1 DEF Answer
    <3>2. [v \in Workers |-> responseBuffers[v][1].value] = NumDevices
      BY <3>1, NumDevicesAssumption
    <3> QED BY <1>b, <1>5, <2>1, <3>2 DEF Answers
  <2>2. CASE clientCommand.type # "GetNumAvailableDevices"
    <3>1. result' \in {responseBuffers[v][1].value : v \in Workers}
      BY <1>b, <1>5, <2>2 DEF Answers
    <3> QED BY <1>8, <2>2, <3>1
  <2> QED BY <2>1, <2>2
<1>10. Objects(w)' = Objects(w)
  BY <1>b, KeepsObjects DEF Joined, InFlight
<1>11. ~Waiting'
  BY <1>b DEF Waiting
<1> QED BY <1>b, <1>3, <1>9, <1>10, <1>11, Returns

(* The other steps of the response handler cannot be seen.                 *)
LEMMA HandlerRefines ==
  ASSUME FaultFree, HistoryInv, SurvivalInv, ServedInv, Handler, UNCHANGED workerVars,
         NEW w \in Workers
  PROVE  SequentialStep(w)
<1>1. CASE HandleResponse /\ handling[1].promise
  BY <1>1, HandleResponseReturns
<1>2. CASE ~(HandleResponse /\ handling[1].promise)
  <2>1. UNCHANGED <<clientPc, clientCommand, connected, workerProc, toWorker, commandQueue,
                    dispatching, unwritten, executing, workerQueue, pools, promise, result>>
    BY <1>2 DEF Handler, PopAwaiting, ReadResponse, ReadTimeout, HandleResponse, HandleFatal,
                HandlerSeesShutdown, HandlerChecksEmpty, socketVars, clientVars, dispatcherVars,
                workerVars, controllerVars
  <2>2. Objects(w)' = Objects(w)
    BY <2>1, KeepsObjects DEF Joined, InFlight
  <2>3. Waiting' <=> Waiting
    BY <2>1 DEF Waiting
  <2> QED BY <2>1, <2>2, <2>3, Stutters
<1> QED BY <1>1, <1>2

(* A call of the client is a call there.                                   *)
LEMMA CallRefines ==
  ASSUME FaultFree, CarefulClient, HistoryInv, SurvivalInv, ServedInv, TypeOK',
         \/ ClientCall \/ Configure \/ ShutdownCall \/ ReturnNumShards
         \/ ExitCall /\ launched /\ controllerState = "FullyOperational",
         UNCHANGED workerVars, NEW w \in Workers
  PROVE  SequentialStep(w)
<1>a. ShutdownInv /\ TypeOK /\ LaunchOK /\ PromiseOK /\ ToHostHolds
  BY DEF HistoryInv, ShutdownInv, IInv
<1>b. PICK C \in Seq(Command), H \in Seq(Pools) : HistoryOf(C, H)
  BY DEF HistoryInv
<1>c. IsHistory(C, H) /\ HoldsOnly(H[Len(H)])
  BY <1>b DEF HistoryOf
<1>d. H[Len(H)] \in Pools
  BY <1>c, LastPools
<1>e. /\ \/ clientPc = "configure"
         \/ clientPc = "user" /\ controllerState = "FullyOperational"
         \/ clientPc = "await" /\ promise /\ clientCommand.type = "GetNumShards"
      /\ launched
  <2>1. CASE ClientCall
    BY <2>1 DEF ClientCall, PlainCall, NewDeviceCall, DeviceCall, NewLayoutCall, NewTensorCall,
                TensorCall, MayCall
  <2>2. CASE ~ClientCall
    BY <1>a, <2>2 DEF Configure, ShutdownCall, ReturnNumShards, ExitCall, LaunchOK
  <2> QED BY <2>1, <2>2
<1>1. PICK c \in Command : CallsOn(H[Len(H)], c)
  <2>1. CASE ClientCall \/ Configure \/ ShutdownCall
    BY <1>a, <1>c, <1>d, <2>1, CallContinues DEF FaultFree
  <2>2. CASE ReturnNumShards
    <3>1. clientCommand.tensors \subseteq held.tensors
      BY <1>a, <2>2 DEF ReturnNumShards, ToHostHolds
    <3> QED BY <1>a, <1>c, <1>d, <2>2, <3>1, NumShardsContinues
  <2>3. CASE ExitCall /\ launched /\ controllerState = "FullyOperational"
    <3>1. Issue(Build(nextCommandId, "Shutdown")) /\ held' = held
      BY <2>3 DEF ExitCall
    <3> QED BY <1>a, <1>c, <1>d, <3>1, ShutdownContinues
  <2> QED BY <2>1, <2>2, <2>3
<1>2. /\ clientCommand' = c /\ clientPc' = "push" /\ promise' = FALSE
      /\ UNCHANGED <<result, connected, workerProc>> /\ ~PoolMiss(H[Len(H)], c)
  BY <1>1 DEF CallsOn, Issue, socketVars
<1>3. PICK D \in Seq(Command), G \in Seq(Pools) :
         HistoryOf(D, G)' /\ G[Len(G)] = Execute(H[Len(H)], c)
  BY <1>a, <1>b, <1>e, <1>1, IssueKeepsHistory
<1>4. Joined(w)
  BY <1>e, WaitingIsJoined
<1>5. Joined(w)'
  BY <1>2, <1>4 DEF Joined
<1>6. Objects(w) = H[Len(H)]
  BY <1>a, <1>b, <1>4, EndOfHistory DEF ObjectsAreLast
<1>7. Objects(w)' = G[Len(G)]
  BY <1>3, <1>5, EndOfNextHistory DEF ObjectsAreLast
<1>8. clientCommand' # clientCommand
  <2>1. clientCommand'.id = nextCommandId /\ nextCommandId \in Nat /\ clientCommand.id \in Nat
    BY <1>a, CallHasNextId DEF TypeOK, ControllerTypeOK, Command
  <2>2. CASE clientCommand.id < nextCommandId
    BY <2>1, <2>2
  <2>3. CASE nextCommandId = 0 /\ clientCommand.type = "Shutdown"
    <3>1. controllerState # "FullyOperational"
      BY <2>3 DEF ServedInv, IdsOK
    <3>2. clientPc = "configure"
      BY <1>e, <2>3, <3>1
    <3>3. Configure
      <4>1. ClientCall => clientPc = "user"
        BY DEF ClientCall, PlainCall, NewDeviceCall, DeviceCall, NewLayoutCall, NewTensorCall,
               TensorCall, MayCall
      <4> QED BY <3>2, <4>1 DEF ShutdownCall, ReturnNumShards, ExitCall
    <3>4. clientCommand'.type = "ConfigureRuntimeContext"
      BY <3>3 DEF Configure, Issue, Build
    <3> QED BY <2>3, <3>4
  <2> QED BY <2>2, <2>3 DEF ServedInv, IdsOK
<1>9. ~Waiting /\ (Waiting' <=> clientCommand'.type \in Blocking)
  BY <1>e, <1>2 DEF Waiting
<1> QED BY <1>2, <1>3, <1>6, <1>7, <1>8, <1>9, Calls

(* The other steps of the client cannot be seen, or end the runtime.       *)
LEMMA ClientRefines ==
  ASSUME FaultFree, CarefulClient, HistoryInv, SurvivalInv, ServedInv, TypeOK',
         LaunchBind \/ ClientCall \/ ShutdownCall \/ ShutdownAbnormal \/ ExitCall \/ ClientStep,
         UNCHANGED workerVars, NEW w \in Workers
  PROVE  SequentialStep(w)
<1>a. TypeOK
  BY DEF HistoryInv, ShutdownInv, IInv
<1>1. CASE \/ ClientCall \/ Configure \/ ShutdownCall \/ ReturnNumShards
           \/ ExitCall /\ launched /\ controllerState = "FullyOperational"
  BY <1>1, CallRefines
<1>2. CASE PushCommand
  <2>1. /\ UNCHANGED <<clientCommand, result, promise, connected, workerProc, pools>>
        /\ clientPc = "push"
        /\ clientPc' = IF clientCommand.type \in Blocking THEN "await" ELSE "user"
    BY <1>2 DEF PushCommand, socketVars, workerVars
  <2>2. Objects(w)' = Objects(w)
    BY <1>a, <1>2, <2>1, PushKeepsFlight, KeepsObjects DEF Joined
  <2>3. Waiting' <=> Waiting
    BY <2>1 DEF Waiting
  <2> QED BY <2>1, <2>2, <2>3, Stutters
<1>3. CASE \/ ReturnFromWait \/ StartThreads \/ JoinThreads \/ ShutdownFails \/ ShutdownAbnormal
           \/ ProcessExits \/ LaunchBind
           \/ ExitCall /\ ~(launched /\ controllerState = "FullyOperational")
  <2>1. /\ UNCHANGED <<clientCommand, result, promise, connected, workerProc, toWorker, pools,
                       executing, workerQueue, unwritten, dispatching, commandQueue>>
        /\ clientPc \notin {"push", "await"} \/ (clientPc = "await" /\ promise)
        /\ clientPc' \notin {"push", "await"}
    <3> USE DEF socketVars, workerVars, dispatcherVars, clientVars, controllerVars
    <3>1. CASE ReturnFromWait \/ StartThreads \/ JoinThreads \/ ShutdownFails
      BY <3>1 DEF ReturnFromWait, StartThreads, JoinThreads, ShutdownFails
    <3>2. CASE ShutdownAbnormal \/ ProcessExits \/ LaunchBind
      BY <3>2 DEF ShutdownAbnormal, ProcessExits, LaunchBind
    <3>3. CASE ExitCall /\ ~(launched /\ controllerState = "FullyOperational")
      BY <3>3 DEF ExitCall
    <3> QED BY <1>3, <3>1, <3>2, <3>3
  <2>2. Objects(w)' = Objects(w)
    BY <2>1, KeepsObjects DEF Joined, InFlight
  <2>3. ~Waiting /\ ~Waiting'
    BY <2>1 DEF Waiting
  <2> QED BY <2>1, <2>2, <2>3, Stutters
<1>4. CASE LaunchCommand \/ LaunchFails \/ ShutdownSucceeds \/ CloseSockets
  <2>1. /\ UNCHANGED <<clientCommand, result, promise>>
        /\ clientPc \notin {"push", "await"} /\ clientPc' \notin {"push", "await"}
        /\ ~connected' \/ workerProc'[w] = "starting"
    BY <1>4 DEF LaunchCommand, LaunchFails, ShutdownSucceeds, CloseSockets
  <2>2. Objects(w)' = EmptyPools
    BY <2>1 DEF Objects
  <2>3. ~Waiting /\ ~Waiting'
    BY <2>1 DEF Waiting
  <2> QED BY <2>1, <2>2, <2>3, Resets
<1> QED BY <1>1, <1>2, <1>3, <1>4 DEF ClientStep

(* The distributed runtime implements the sequential one, for any number   *)
(* of workers, any number of launches, some of which may fail, and any     *)
(* program of a user that uses only handles it holds and makes no call     *)
(* after a launch or a shutdown that failed, if no worker crashes and none *)
(* is too slow.                                                            *)
THEOREM RuntimeIsSequential ==
  ASSUME FaultFree, CarefulClient
  PROVE  Spec => ImplementsSequentialRuntime
<1>1. Init => \A w \in Workers : Sequential(w)!Init
  <2> SUFFICES ASSUME Init, NEW w \in Workers PROVE Sequential(w)!Init
    OBVIOUS
  <2>1. clientCommand = Build(0, "Shutdown") /\ result = 0 /\ ~Waiting
    BY DEF Init, ControllerInit, Waiting
  <2>2. Objects(w) = EmptyPools
    BY DEF Init, SocketsInit, Objects
  <2>3. Sequential(w)!Build(0, "Shutdown") = Build(0, "Shutdown")
    BY DEF Build, Sequential!Build
  <2> QED BY <2>1, <2>2, <2>3, SameCommands DEF Sequential!Init, Waiting
<1>2. /\ HistoryInv /\ SurvivalInv /\ ServedInv /\ HistoryInv' /\ SurvivalInv' /\ ServedInv'
      /\ [Next]_vars
      => [\A w \in Workers : [Sequential(w)!Next]_(Sequential(w)!vars)]_vars
  <2> SUFFICES ASSUME HistoryInv, SurvivalInv, ServedInv, HistoryInv', SurvivalInv', ServedInv',
                      Next, NEW w \in Workers
               PROVE  SequentialStep(w)
    BY DEF SequentialStep
  <2>a. TypeOK /\ TypeOK'
    BY DEF HistoryInv, ShutdownInv, IInv
  <2>1. CASE ControllerNext /\ UNCHANGED workerVars
    BY <2>a, <2>1, ClientRefines, DispatcherRefines, HandlerRefines DEF ControllerNext
  <2>2. CASE (\E v \in Workers : WorkerNext(v)) /\ UNCHANGED controllerVars
    <3>1. PICK v \in Workers : WorkerNext(v)
      BY <2>2
    <3>2. CASE v = w
      BY <2>a, <2>2, <3>1, <3>2, WorkerStepRefines
    <3>3. CASE v # w
      BY <2>a, <2>2, <3>1, <3>3, OtherStepRefines
    <3> QED BY <3>2, <3>3
  <2>3. CASE Terminated
    <3>1. UNCHANGED <<clientPc, clientCommand, promise, result, connected, workerProc, toWorker,
                      pools, executing, workerQueue, unwritten, dispatching, commandQueue>>
      BY <2>3 DEF Terminated, vars, socketVars, workerVars, dispatcherVars, clientVars,
                  controllerVars
    <3>2. Objects(w)' = Objects(w) /\ (Waiting' <=> Waiting)
      BY <3>1, KeepsObjects DEF Joined, InFlight, Waiting
    <3> QED BY <3>1, <3>2, Stutters
  <2> QED BY <2>1, <2>2, <2>3 DEF Next
<1>3. ~ReusesHandles
  BY DEF FaultFree
<1>4. Spec => []HistoryInv /\ []SurvivalInv /\ []ServedInv
  BY <1>3, HistoryInvariant, SurvivalInvariant, ServedInvariant
<1> QED BY <1>1, <1>2, <1>4, PTL DEF Spec, ImplementsSequentialRuntime
=============================================================================
