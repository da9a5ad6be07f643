------------------------- MODULE ApplicationsProofs -------------------------
(***************************************************************************)
(* RenetServer, its UDP transport and the programs on top of them, for     *)
(* every set of clients, every number of packets in an update and every    *)
(* length of the event queue: the two layers agree on who is connected,    *)
(* the events tell it, and the messages a program makes of the events lead *)
(* every client to the program's roster.                                   *)
(***************************************************************************)
EXTENDS Applications, FiniteSetTheorems, TLAPS

(***************************************************************************)
(* Induction, on a set in place of a predicate.                            *)
(***************************************************************************)
LEMMA SetInduction ==
  ASSUME NEW S, 0 \in S, \A n \in Nat : n \in S => n + 1 \in S
  PROVE  \A n \in Nat : n \in S
<1> DEFINE T == {n \in Nat : n \notin S}
<1> SUFFICES ASSUME T # {} PROVE FALSE
  OBVIOUS
<1>1. PICK x \in T : \A y \in T : ~ (<<y, x>> \in OpToRel(<, Nat))
  BY NatLessThanWellFounded, WFMin, T \in SUBSET Nat, Zenon
<1>2. \A y \in T : ~ (y < x)
  BY <1>1, Zenon DEF OpToRel
<1>3. x \in Nat /\ x \notin S
  OBVIOUS
<1>4. x # 0 /\ x - 1 \in Nat
  BY <1>3
<1>5. x - 1 \in S
  BY <1>2, <1>4
<1> QED BY <1>3, <1>4, <1>5

-----------------------------------------------------------------------------
(***************************************************************************)
(* What a client of program a makes of the messages on their way to it.    *)
(***************************************************************************)
Players == Ids \cup {Host, Bot}

Messages ==
  [type : {"Joins", "Leaves", "Says"}, id : Players]
    \cup [type : {"InitClient"}, players : SUBSET Players] \cup [type : {"Spawn", "Despawn"}]

ApplyOf(a, r, message) ==
  IF a = "chat" THEN ApplyChat(r, message)
  ELSE IF a = "game" THEN ApplyGame(r, message)
  ELSE ApplyRoster(r, message)

\* f[k] is what r has become after the first k messages.
Reading(f, a, r, messages) ==
  /\ f[0] = r
  /\ \A k \in 1 .. Len(messages) : f[k] = ApplyOf(a, f[k - 1], messages[k])

\* Read to the end, the messages lead from r to last, and every author is known by then.
Shows(a, r, messages, last) ==
  /\ messages \in Seq(Messages)
  /\ \E f : /\ Reading(f, a, r, messages) /\ f[Len(messages)] = last
            /\ \A k \in 1 .. Len(messages) :
                 messages[k].type = "Says" => messages[k].id \in f[k - 1].players

IsReplica(r) == DOMAIN r = {"players", "projectile"}

Having(r, players) == [r EXCEPT !.players = players]

LEMMA HavingFacts ==
  ASSUME NEW r, IsReplica(r)
  PROVE  \A P : /\ IsReplica(Having(r, P)) /\ Having(r, P).players = P
               /\ Having(r, P).projectile = r.projectile
BY DEF IsReplica, Having

LEMMA HavingAgain == \A r, P, Q : Having(Having(r, P), Q) = Having(r, Q)
BY Zenon DEF Having

LEMMA MessageFacts ==
  /\ \A id \in Players : Joins(id) \in Messages /\ Leaves(id) \in Messages
                         /\ [type |-> "Says", id |-> id] \in Messages
  /\ \A P \in SUBSET Players : [type |-> "InitClient", players |-> P] \in Messages
  /\ [type |-> "Spawn"] \in Messages /\ [type |-> "Despawn"] \in Messages
<1>1. ASSUME NEW id \in Players
      PROVE  Joins(id) \in Messages /\ Leaves(id) \in Messages
             /\ [type |-> "Says", id |-> id] \in Messages
  BY DEF Joins, Leaves, Messages
<1>2. \A P \in SUBSET Players : [type |-> "InitClient", players |-> P] \in Messages
  BY DEF Messages
<1>3. [type |-> "Spawn"] \in Messages /\ [type |-> "Despawn"] \in Messages
  BY DEF Messages
<1> QED BY <1>1, <1>2, <1>3

LEMMA ApplyJoins == \A a, r, id : ApplyOf(a, r, Joins(id)) = Having(r, r.players \cup {id})
BY DEF ApplyOf, ApplyChat, ApplyGame, ApplyRoster, Joins, Having

LEMMA ApplyLeaves == \A a, r, id : ApplyOf(a, r, Leaves(id)) = Having(r, r.players \ {id})
BY DEF ApplyOf, ApplyChat, ApplyGame, ApplyRoster, Leaves, Having

LEMMA ApplyText ==
  ASSUME NEW r
  PROVE  /\ \A id : ApplyOf("chat", r, [type |-> "Says", id |-> id]) = r
         /\ \A P : ApplyOf("chat", r, [type |-> "InitClient", players |-> P]) = Having(r, P)
BY DEF ApplyOf, ApplyChat, Having

LEMMA ApplyProjectile ==
  ASSUME NEW r, IsReplica(r), NEW x \in {"Spawn", "Despawn"}, NEW new,
         new = ApplyOf("game", r, [type |-> x])
  PROVE  IsReplica(new) /\ new.players = r.players /\ new.projectile = (x = "Spawn")
BY DEF ApplyOf, ApplyGame, IsReplica

LEMMA ShowsNothing == \A a, r : Shows(a, r, <<>>, r)
<1> TAKE a, r
<1> DEFINE f == [k \in {0} |-> r]
<1>1. f[0] = r /\ Len(<<>>) = 0 /\ <<>> \in Seq(Messages)
  OBVIOUS
<1> HIDE DEF f
<1>2. Reading(f, a, r, <<>>)
  BY <1>1 DEF Reading
<1> QED BY <1>1, <1>2 DEF Shows

LEMMA ShowsAppend ==
  ASSUME NEW a, NEW r, NEW messages, NEW last, Shows(a, r, messages, last),
         NEW message \in Messages, message.type = "Says" => message.id \in last.players
  PROVE  Shows(a, r, Append(messages, message), ApplyOf(a, last, message))
<1> DEFINE n == Len(messages)
           q == Append(messages, message)
<1>1. PICK f :
        /\ Reading(f, a, r, messages) /\ f[n] = last
        /\ \A k \in 1 .. n : messages[k].type = "Says" => messages[k].id \in f[k - 1].players
  BY DEF Shows
<1> DEFINE g == [k \in 0 .. n + 1 |-> IF k = n + 1 THEN ApplyOf(a, last, message) ELSE f[k]]
<1>2. /\ n \in Nat /\ q \in Seq(Messages) /\ Len(q) = n + 1 /\ q[n + 1] = message
      /\ \A k \in 1 .. n : q[k] = messages[k]
  BY DEF Shows
<1>3. g[n + 1] = ApplyOf(a, last, message) /\ \A k \in 0 .. n : g[k] = f[k]
  BY <1>2
<1> HIDE DEF n, q, g
<1>4. ASSUME NEW k \in 1 .. n + 1
      PROVE  /\ g[k] = ApplyOf(a, g[k - 1], q[k])
             /\ q[k].type = "Says" => q[k].id \in g[k - 1].players
  <2>1. CASE k = n + 1
    <3>1. k - 1 = n /\ n \in 0 .. n
      BY <1>2, <2>1
    <3> QED BY <1>1, <1>2, <1>3, <2>1, <3>1
  <2>2. CASE k # n + 1
    <3>1. k \in 1 .. n /\ k \in 0 .. n /\ k - 1 \in 0 .. n
      BY <1>2, <2>2
    <3>2. f[k] = ApplyOf(a, f[k - 1], messages[k])
      BY <1>1, <3>1 DEF Reading, n
    <3> QED BY <1>1, <1>2, <1>3, <3>1, <3>2
  <2> QED BY <2>1, <2>2
<1>5. g[0] = r
  BY <1>1, <1>2, <1>3 DEF Reading
<1>6. Reading(g, a, r, q)
  BY <1>2, <1>4, <1>5 DEF Reading
<1>7. Shows(a, r, q, ApplyOf(a, last, message))
  BY <1>2, <1>3, <1>4, <1>6 DEF Shows
<1> QED BY <1>7 DEF q

LEMMA ShowsTail ==
  ASSUME NEW a, NEW r, NEW messages, NEW last, Shows(a, r, messages, last), messages # <<>>
  PROVE  Shows(a, ApplyOf(a, r, Head(messages)), Tail(messages), last)
<1> DEFINE n == Len(messages)
           q == Tail(messages)
<1>1. PICK f :
        /\ Reading(f, a, r, messages) /\ f[n] = last
        /\ \A k \in 1 .. n : messages[k].type = "Says" => messages[k].id \in f[k - 1].players
  BY DEF Shows
<1> DEFINE g == [k \in 0 .. n - 1 |-> f[k + 1]]
<1>2. /\ n \in Nat \ {0} /\ q \in Seq(Messages) /\ Len(q) = n - 1
      /\ \A k \in 1 .. n - 1 : q[k] = messages[k + 1]
      /\ Head(messages) = messages[1]
  BY DEF Shows
<1>3. \A k \in 0 .. n - 1 : g[k] = f[k + 1]
  BY <1>2
<1> HIDE DEF n, q, g
<1>4. g[0] = ApplyOf(a, r, Head(messages))
  <2>1. f[1] = ApplyOf(a, f[1 - 1], messages[1]) /\ f[0] = r
    BY <1>1, <1>2 DEF Reading, n
  <2> QED BY <1>2, <1>3, <2>1
<1>5. ASSUME NEW k \in 1 .. Len(q)
      PROVE  /\ g[k] = ApplyOf(a, g[k - 1], q[k])
             /\ q[k].type = "Says" => q[k].id \in g[k - 1].players
  <2>1. k \in 0 .. n - 1 /\ k - 1 \in 0 .. n - 1 /\ k + 1 \in 1 .. n /\ (k + 1) - 1 = k
        /\ (k - 1) + 1 = k /\ k \in 1 .. n - 1
    BY <1>2
  <2>2. f[k + 1] = ApplyOf(a, f[k], messages[k + 1])
    BY <1>1, <2>1 DEF Reading, n
  <2>3. messages[k + 1].type = "Says" => messages[k + 1].id \in f[k].players
    BY <1>1, <2>1
  <2> QED BY <1>2, <1>3, <2>1, <2>2, <2>3
<1>6. g[Len(q)] = last
  <2>1. Len(q) \in 0 .. n - 1 /\ Len(q) + 1 = n
    BY <1>2
  <2> QED BY <1>1, <1>3, <2>1
<1>7. Reading(g, a, ApplyOf(a, r, Head(messages)), q)
  BY <1>4, <1>5 DEF Reading
<1>8. Shows(a, ApplyOf(a, r, Head(messages)), q, last)
  BY <1>2, <1>5, <1>6, <1>7 DEF Shows
<1> QED BY <1>8 DEF q

\* JoinsAll has one message for each of the players, and no other.
LEMMA JoinsAllFacts ==
  ASSUME NEW P \in SUBSET Players
  PROVE  /\ JoinsAll(P) \in Seq(Messages)
         /\ \A k \in 1 .. Len(JoinsAll(P)) :
              JoinsAll(P)[k].id \in P /\ JoinsAll(P)[k] = Joins(JoinsAll(P)[k].id)
         /\ \A p \in P : \E k \in 1 .. Len(JoinsAll(P)) : JoinsAll(P)[k].id = p
<1> DEFINE S == {Joins(id) : id \in P}
           c == Cardinality(S)
           js == JoinsAll(P)
           f == [id \in P |-> Joins(id)]
<1>1. IsFiniteSet(P)
  <2>1. IsFiniteSet(Ids \cup {Host}) /\ Ids \cup {Host, Bot} = (Ids \cup {Host}) \cup {Bot}
    BY IdsAssumption, FS_AddElement
  <2>2. IsFiniteSet(Players)
    BY <2>1, FS_AddElement DEF Players
  <2> QED BY <2>2, FS_Subset
<1>2. IsFiniteSet(S)
  <2>1. f \in Surjection(P, S)
    BY DEF Surjection
  <2> QED BY <1>1, <2>1, FS_Surjection
<1>3. \A x \in S : x \in Messages /\ x.id \in P /\ x = Joins(x.id)
  <2>1. ASSUME NEW id \in P PROVE Joins(id) \in Messages /\ Joins(id).id = id
    BY MessageFacts, Zenon DEF Joins
  <2> QED BY <2>1
<1>4. \A p \in P : Joins(p) \in S /\ Joins(p).id = p
  BY DEF Joins
<1>5. js = CHOOSE joins \in OrdersOf(S) : TRUE
  BY DEF JoinsAll
<1> HIDE DEF S, f, js
<1>6. c \in Nat /\ OrdersOf(S) # {}
  BY <1>2, FS_CardinalityType DEF OrdersOf, ExistsBijection, Bijection
<1>7. js \in Injection(1 .. c, S)
  BY <1>5, <1>6 DEF OrdersOf
<1>8. js \in Surjection(1 .. c, S)
  BY <1>2, <1>6, <1>7, FS_Injection, FS_Interval
<1> HIDE DEF c
<1>9. js \in [1 .. c -> S] /\ \A x \in S : \E k \in 1 .. c : js[k] = x
  BY <1>8 DEF Surjection
<1>10. js \in Seq(Messages) /\ Len(js) = c
  BY <1>3, <1>6, <1>9
<1>11. \A k \in 1 .. Len(js) : js[k].id \in P /\ js[k] = Joins(js[k].id)
  BY <1>3, <1>9, <1>10
<1>12. ASSUME NEW p \in P PROVE \E k \in 1 .. Len(js) : js[k].id = p
  BY <1>4, <1>9, <1>10
<1> QED BY <1>10, <1>11, <1>12 DEF js

\* A client that is told of the players P has them besides those it had.
LEMMA ShowsJoins ==
  ASSUME NEW a, NEW r, NEW messages, NEW last, Shows(a, r, messages, last), IsReplica(last),
         NEW P \in SUBSET Players
  PROVE  \E new : /\ Shows(a, r, messages \o JoinsAll(P), new) /\ IsReplica(new)
                  /\ new.players = last.players \cup P /\ new.projectile = last.projectile
<1> DEFINE n == Len(messages)
           js == JoinsAll(P)
           c == Len(js)
           q == messages \o js
           U(i) == {js[j].id : j \in 1 .. i}
           G(i) == Having(last, last.players \cup U(i))
<1>1. PICK f :
        /\ Reading(f, a, r, messages) /\ f[n] = last
        /\ \A k \in 1 .. n : messages[k].type = "Says" => messages[k].id \in f[k - 1].players
  BY DEF Shows
<1> DEFINE g == [k \in 0 .. n + c |-> IF k <= n THEN f[k] ELSE G(k - n)]
<1>2. /\ js \in Seq(Messages) /\ \A k \in 1 .. c : js[k].id \in P /\ js[k] = Joins(js[k].id)
      /\ \A p \in P : \E k \in 1 .. c : js[k].id = p
  BY JoinsAllFacts
<1> HIDE DEF js
<1>3. /\ n \in Nat /\ c \in Nat /\ q \in Seq(Messages) /\ Len(q) = n + c
      /\ \A k \in 1 .. n : q[k] = messages[k]
      /\ \A i \in 1 .. c : q[n + i] = js[i]
  BY <1>2 DEF Shows
<1>4. \A k \in 0 .. n : g[k] = f[k]
  BY <1>3
<1>5. ASSUME NEW i \in 1 .. c PROVE g[n + i] = G(i)
  <2>1. n + i \in 0 .. n + c /\ ~ (n + i <= n) /\ (n + i) - n = i
    BY <1>3
  <2> HIDE DEF G
  <2> QED BY <2>1
<1>6. U(c) = P
  BY <1>2
<1>7. \A i \in Nat : U(i + 1) = U(i) \cup {js[i + 1].id}
  <2> TAKE i \in Nat
  <2>1. 1 .. i + 1 = (1 .. i) \cup {i + 1}
    OBVIOUS
  <2> QED BY <2>1
<1>8. U(1) = {js[1].id}
  OBVIOUS
<1> HIDE DEF U, n, c, q, g
<1>9. \A i : /\ IsReplica(G(i)) /\ G(i).players = last.players \cup U(i)
             /\ G(i).projectile = last.projectile
  BY HavingFacts
<1>10. ASSUME NEW i \in 1 .. c PROVE g[n + i] = ApplyOf(a, g[n + i - 1], Joins(js[i].id))
  <2>1. CASE i = 1
    <3>1. n + i - 1 = n /\ n \in 0 .. n
      BY <1>3, <2>1
    <3>2. g[n + i - 1] = last
      BY <1>1, <1>4, <3>1
    <3>3. ApplyOf(a, last, Joins(js[1].id)) = Having(last, last.players \cup {js[1].id})
      BY ApplyJoins
    <3> QED BY <1>5, <1>8, <2>1, <3>2, <3>3
  <2>2. CASE i # 1
    <3>1. n + i - 1 = n + (i - 1) /\ i - 1 \in 1 .. c /\ i - 1 \in Nat /\ (i - 1) + 1 = i
      BY <1>3, <2>2
    <3>2. g[n + i - 1] = G(i - 1)
      BY <1>5, <3>1
    <3>3. ApplyOf(a, G(i - 1), Joins(js[i].id)) = Having(G(i - 1), G(i - 1).players \cup {js[i].id})
      <4> HIDE DEF G
      <4> QED BY <1>9, ApplyJoins
    <3>4. U(i) = U(i - 1) \cup {js[i].id}
      BY <1>7, <3>1
    <3>5. Having(G(i - 1), G(i - 1).players \cup {js[i].id}) = G(i)
      <4>1. G(i - 1).players \cup {js[i].id} = last.players \cup U(i)
        BY <1>9, <3>4
      <4>2. \A Q : Having(G(i - 1), Q) = Having(last, Q)
        BY HavingAgain, Zenon
      <4> QED BY <4>1, <4>2, Zenon
    <3> QED BY <1>5, <3>2, <3>3, <3>5, Zenon
  <2> QED BY <2>1, <2>2
<1> HIDE DEF G
<1>11. ASSUME NEW k \in 1 .. n + c
       PROVE  /\ g[k] = ApplyOf(a, g[k - 1], q[k])
              /\ q[k].type = "Says" => q[k].id \in g[k - 1].players
  <2>1. CASE k <= n
    <3>1. k \in 1 .. n /\ k \in 0 .. n /\ k - 1 \in 0 .. n
      BY <1>3, <2>1
    <3>2. f[k] = ApplyOf(a, f[k - 1], messages[k])
      BY <1>1, <3>1 DEF Reading, n
    <3> QED BY <1>1, <1>3, <1>4, <3>1, <3>2
  <2>2. CASE ~ (k <= n)
    <3>1. k - n \in 1 .. c /\ n + (k - n) = k /\ n + (k - n) - 1 = k - 1
      BY <1>3, <2>2
    <3>2. q[k] = js[k - n] /\ js[k - n] = Joins(js[k - n].id)
      BY <1>2, <1>3, <3>1, Zenon
    <3>3. q[k].type # "Says"
      <4>1. \A x : Joins(x).type = "Joins"
        BY DEF Joins
      <4> QED BY <3>2, <4>1
    <3>4. g[k] = ApplyOf(a, g[k - 1], Joins(js[k - n].id))
      BY <1>10, <3>1
    <3> QED BY <3>2, <3>3, <3>4, Zenon
  <2> QED BY <2>1, <2>2
<1>12. g[0] = r
  BY <1>1, <1>3, <1>4 DEF Reading
<1>13. Reading(g, a, r, q)
  BY <1>3, <1>11, <1>12 DEF Reading
<1>14. Shows(a, r, q, g[n + c])
  BY <1>3, <1>11, <1>13 DEF Shows
<1>15. /\ IsReplica(g[n + c]) /\ g[n + c].players = last.players \cup P
       /\ g[n + c].projectile = last.projectile
  <2>1. CASE c = 0
    <3>1. n + c = n /\ n \in 0 .. n /\ P = {}
      BY <1>2, <1>3, <2>1
    <3> QED BY <1>1, <1>4, <3>1
  <2>2. CASE c # 0
    <3>1. c \in 1 .. c
      BY <1>3, <2>2
    <3> QED BY <1>5, <1>6, <1>9, <3>1
  <2> QED BY <2>1, <2>2, Zenon
<1> QED BY <1>14, <1>15 DEF q, js

(***************************************************************************)
(* Reads, in the properties of Applications, follows such a reading.       *)
(***************************************************************************)
LEMMA ReadsFacts ==
  ASSUME NEW id, sent[id] \in Seq(Messages), NEW g, Reading(g, app, replica[id], sent[id]),
         NEW n \in 0 .. Len(sent[id])
  PROVE  Reads(id, n) = g[n]
<1> DEFINE r == replica[id]
           ms == sent[id]
           Step(f) == [k \in 0 .. n |-> IF k = 0 THEN r ELSE Apply(f[k - 1], ms[k])]
           read == CHOOSE f : f = Step(f)
<1>1. Reads(id, n) = read[n]
  BY DEF Reads
<1>2. n \in Nat /\ n <= Len(ms) /\ Len(ms) \in Nat
  OBVIOUS
<1>3. g[0] = r /\ \A k \in 1 .. Len(ms) : g[k] = Apply(g[k - 1], ms[k])
  BY DEF Reading, ApplyOf, Apply
<1> HIDE DEF r, ms
<1>4. read = Step(read)
  <2> DEFINE h == [k \in 0 .. n |-> g[k]]
  <2>1. ASSUME NEW k \in 0 .. n PROVE h[k] = IF k = 0 THEN r ELSE Apply(h[k - 1], ms[k])
    <3>1. CASE k = 0
      BY <1>2, <1>3, <3>1
    <3>2. CASE k # 0
      <4>1. k \in 1 .. Len(ms) /\ k - 1 \in 0 .. n
        BY <1>2, <3>2
      <4> QED BY <1>3, <3>2, <4>1
    <3> QED BY <3>1, <3>2, Zenon
  <2>2. h = Step(h)
    BY <2>1
  <2> QED BY <2>2
<1> HIDE DEF read
<1>5. ASSUME NEW k \in 0 .. n PROVE read[k] = IF k = 0 THEN r ELSE Apply(read[k - 1], ms[k])
  BY <1>4
<1> DEFINE S == {k \in Nat : k <= n => read[k] = g[k]}
<1>6. 0 \in S
  BY <1>2, <1>3, <1>5
<1>7. ASSUME NEW k \in Nat, k \in S PROVE k + 1 \in S
  <2> SUFFICES ASSUME k + 1 <= n PROVE read[k + 1] = g[k + 1]
    OBVIOUS
  <2>1. k + 1 \in 1 .. Len(ms) /\ k + 1 \in 0 .. n /\ k + 1 # 0 /\ (k + 1) - 1 = k
    BY <1>2
  <2>2. read[k] = g[k]
    BY <1>2, <1>7
  <2> QED BY <1>3, <1>5, <2>1, <2>2
<1> HIDE DEF S
<1>8. n \in S
  BY <1>2, <1>6, <1>7, SetInduction
<1> QED BY <1>1, <1>2, <1>8 DEF S

LEMMA ShowsRead ==
  ASSUME NEW id, NEW last, Shows(app, replica[id], sent[id], last)
  PROVE  /\ Reads(id, Len(sent[id])) = last
         /\ \A k \in DOMAIN sent[id] :
              sent[id][k].type = "Says" => sent[id][k].id \in Reads(id, k - 1).players
<1> DEFINE ms == sent[id]
<1>1. PICK f :
        /\ Reading(f, app, replica[id], ms) /\ f[Len(ms)] = last
        /\ \A k \in 1 .. Len(ms) : ms[k].type = "Says" => ms[k].id \in f[k - 1].players
  BY DEF Shows
<1>2. ms \in Seq(Messages) /\ Len(ms) \in Nat /\ DOMAIN ms = 1 .. Len(ms)
  BY DEF Shows
<1>3. \A n \in 0 .. Len(ms) : Reads(id, n) = f[n]
  BY <1>1, <1>2, ReadsFacts
<1> HIDE DEF ms
<1>4. Len(ms) \in 0 .. Len(ms) /\ \A k \in 1 .. Len(ms) : k - 1 \in 0 .. Len(ms)
  BY <1>2
<1>5. Reads(id, Len(ms)) = last
  BY <1>1, <1>3, <1>4
<1>6. \A k \in DOMAIN ms : ms[k].type = "Says" => ms[k].id \in Reads(id, k - 1).players
  BY <1>1, <1>2, <1>3, <1>4, Zenon
<1> QED BY <1>5, <1>6 DEF ms

-----------------------------------------------------------------------------
(***************************************************************************)
(* What a connected client will have once it has read its messages, in the *)
(* middle of a frame that began with roster and has now got to now.  A     *)
(* client whose own event is still to come (it is not fresh) has only the  *)
(* players of whom it heard with the others.                               *)
(***************************************************************************)
Follows(a, r, messages, id, roster, now, fresh, shot) ==
  \E last :
    /\ Shows(a, r, messages, last) /\ IsReplica(last)
    /\ a # "game" => last.players \subseteq now
    /\ now \subseteq roster \cup last.players
    /\ fresh /\ id \in now => now \subseteq last.players
    /\ last.projectile => shot

LEMMA FollowsLeaves ==
  ASSUME NEW a, NEW r, NEW messages, NEW id, NEW roster, NEW now, NEW fresh, NEW shot,
         Follows(a, r, messages, id, roster, now, fresh, shot), NEW x \in Players,
         NEW new, x # id /\ new => fresh
  PROVE  Follows(a, r, Append(messages, Leaves(x)), id, roster, now \ {x}, new, shot)
<1>1. PICK last :
        /\ Shows(a, r, messages, last) /\ IsReplica(last)
        /\ a # "game" => last.players \subseteq now
        /\ now \subseteq roster \cup last.players
        /\ fresh /\ id \in now => now \subseteq last.players
        /\ last.projectile => shot
  BY DEF Follows
<1>2. Leaves(x) \in Messages /\ Leaves(x).type # "Says"
  BY MessageFacts, Zenon DEF Leaves
<1> DEFINE then == Having(last, last.players \ {x})
<1>3. Shows(a, r, Append(messages, Leaves(x)), then)
  BY <1>1, <1>2, ShowsAppend, ApplyLeaves
<1>4. IsReplica(then) /\ then.players = last.players \ {x} /\ then.projectile = last.projectile
  BY <1>1, HavingFacts, Zenon
<1> HIDE DEF then
<1> QED BY <1>1, <1>3, <1>4 DEF Follows

LEMMA FollowsJoins ==
  ASSUME NEW a, NEW r, NEW messages, NEW id, NEW roster, NEW now, NEW fresh, NEW shot,
         Follows(a, r, messages, id, roster, now, fresh, shot), NEW x \in Players, x # id,
         NEW new, new => fresh
  PROVE  Follows(a, r, Append(messages, Joins(x)), id, roster, now \cup {x}, new, shot)
<1>1. PICK last :
        /\ Shows(a, r, messages, last) /\ IsReplica(last)
        /\ a # "game" => last.players \subseteq now
        /\ now \subseteq roster \cup last.players
        /\ fresh /\ id \in now => now \subseteq last.players
        /\ last.projectile => shot
  BY DEF Follows
<1>2. Joins(x) \in Messages /\ Joins(x).type # "Says"
  BY MessageFacts, Zenon DEF Joins
<1> DEFINE then == Having(last, last.players \cup {x})
<1>3. Shows(a, r, Append(messages, Joins(x)), then)
  BY <1>1, <1>2, ShowsAppend, ApplyJoins
<1>4. IsReplica(then) /\ then.players = last.players \cup {x} /\ then.projectile = last.projectile
  BY <1>1, HavingFacts, Zenon
<1> HIDE DEF then
<1> QED BY <1>1, <1>3, <1>4 DEF Follows

\* The new client of the chat.
LEMMA FollowsInit ==
  ASSUME NEW r, NEW messages, NEW id \in Players, NEW roster, NEW now \in SUBSET Players,
         NEW fresh, NEW shot, Follows("chat", r, messages, id, roster, now, fresh, shot), NEW new
  PROVE  Follows("chat", r, Append(messages, Joins(id))
                              \o << [type |-> "InitClient", players |-> now \cup {id}] >>,
                 id, roster, now \cup {id}, new, shot)
<1> DEFINE init == [type |-> "InitClient", players |-> now \cup {id}]
<1>1. PICK last : Shows("chat", r, messages, last) /\ IsReplica(last) /\ (last.projectile => shot)
  BY Zenon DEF Follows
<1>2. Joins(id) \in Messages /\ Joins(id).type # "Says"
  BY MessageFacts, Zenon DEF Joins
<1>3. init \in Messages /\ init.type # "Says"
  BY MessageFacts, Zenon
<1> DEFINE then == Having(last, last.players \cup {id})
           at_last == Having(then, now \cup {id})
           q == Append(messages, Joins(id))
<1>4. Shows("chat", r, q, then)
  BY <1>1, <1>2, ShowsAppend, ApplyJoins
<1>5. IsReplica(then) /\ then.projectile = last.projectile
  BY <1>1, HavingFacts, Zenon
<1>6. ApplyOf("chat", then, init) = at_last
  BY ApplyText, Zenon
<1> HIDE DEF then, init, q
<1>7. IsReplica(at_last) /\ at_last.players = now \cup {id} /\ at_last.projectile = last.projectile
  BY <1>5, HavingFacts, Zenon
<1> HIDE DEF at_last
<1>8. Shows("chat", r, Append(q, init), at_last)
  BY <1>3, <1>4, <1>6, ShowsAppend, Zenon
<1>9. q \o <<init>> = Append(q, init)
  BY <1>4 DEF Shows
<1>10. Shows("chat", r, q \o <<init>>, at_last)
  BY <1>8, <1>9, Zenon
<1> QED BY <1>1, <1>7, <1>10, Zenon DEF Follows, init, q

\* The new client of the game and of the example, which is told of the players P first.
LEMMA FollowsJoinsAll ==
  ASSUME NEW a, NEW r, NEW messages, NEW id \in Players, NEW roster, NEW now,
         NEW fresh, NEW shot, Follows(a, r, messages, id, roster, now, fresh, shot),
         NEW P \in SUBSET Players, a # "game" => P \subseteq now,
         roster \subseteq P \/ now \subseteq P, NEW new
  PROVE  Follows(a, r, Append(messages \o JoinsAll(P), Joins(id)),
                 id, roster, now \cup {id}, new, shot)
<1>1. PICK last :
        /\ Shows(a, r, messages, last) /\ IsReplica(last)
        /\ a # "game" => last.players \subseteq now
        /\ now \subseteq roster \cup last.players
        /\ last.projectile => shot
  BY Zenon DEF Follows
<1>2. PICK then :
        /\ Shows(a, r, messages \o JoinsAll(P), then) /\ IsReplica(then)
        /\ then.players = last.players \cup P /\ then.projectile = last.projectile
  BY <1>1, ShowsJoins
<1>3. Joins(id) \in Messages /\ Joins(id).type # "Says"
  BY MessageFacts, Zenon DEF Joins
<1> DEFINE at_last == Having(then, then.players \cup {id})
<1>4. Shows(a, r, Append(messages \o JoinsAll(P), Joins(id)), at_last)
  BY <1>2, <1>3, ShowsAppend, ApplyJoins
<1>5. /\ IsReplica(at_last) /\ at_last.players = last.players \cup P \cup {id}
      /\ at_last.projectile = last.projectile
  BY <1>2, HavingFacts
<1> HIDE DEF at_last
<1> QED BY <1>1, <1>4, <1>5 DEF Follows

-----------------------------------------------------------------------------
\* Between frames: what RostersConverge, AuthorsAreKnown and ProjectilesEnd say of a client.
Serves(a, r, messages, now, shot) ==
  \E last :
    /\ Shows(a, r, messages, last) /\ IsReplica(last)
    /\ now \subseteq last.players /\ (a # "game" => last.players = now)
    /\ last.projectile => shot

LEMMA FollowsServes ==
  ASSUME NEW a, NEW r, NEW messages, NEW id, NEW roster, NEW now, NEW fresh, NEW shot,
         Follows(a, r, messages, id, roster, now, fresh, shot), fresh, id \in now
  PROVE  Serves(a, r, messages, now, shot)
BY DEF Follows, Serves

LEMMA ServesFollows ==
  ASSUME NEW a, NEW r, NEW messages, NEW id, NEW now, NEW shot, NEW fresh,
         Serves(a, r, messages, now, shot)
  PROVE  Follows(a, r, messages, id, now, now, fresh, shot)
BY DEF Follows, Serves

\* A new client, before any event.
LEMMA NewFollows ==
  ASSUME NEW a, NEW id, NEW now, NEW fresh, NEW shot, ~ fresh
  PROVE  Follows(a, NewReplica, <<>>, id, now, now, fresh, shot)
<1>1. IsReplica(NewReplica) /\ NewReplica.players = {} /\ ~ NewReplica.projectile
  BY DEF IsReplica, NewReplica
<1> HIDE DEF NewReplica
<1> QED BY <1>1, ShowsNothing DEF Follows

LEMMA ServesSays ==
  ASSUME NEW r, NEW messages, NEW now \in SUBSET Players, NEW shot,
         Serves("chat", r, messages, now, shot), NEW x \in now
  PROVE  Serves("chat", r, Append(messages, [type |-> "Says", id |-> x]), now, shot)
<1> DEFINE m == [type |-> "Says", id |-> x]
<1>1. PICK last : /\ Shows("chat", r, messages, last) /\ IsReplica(last)
                  /\ last.players = now /\ (last.projectile => shot)
  BY DEF Serves
<1>2. m \in Messages /\ m.id \in last.players
  BY <1>1, MessageFacts
<1>3. ApplyOf("chat", last, m) = last
  BY ApplyText, Zenon
<1> HIDE DEF m
<1>4. Shows("chat", r, Append(messages, m), last)
  BY <1>1, <1>2, <1>3, ShowsAppend
<1> QED BY <1>1, <1>4 DEF Serves, m

LEMMA ServesProjectile ==
  ASSUME NEW r, NEW messages, NEW now, NEW shot, Serves("game", r, messages, now, shot),
         NEW x \in {"Spawn", "Despawn"}, NEW new, x = "Spawn" => new
  PROVE  Serves("game", r, Append(messages, [type |-> x]), now, new)
<1> DEFINE m == [type |-> x]
<1>1. PICK last : Shows("game", r, messages, last) /\ IsReplica(last) /\ now \subseteq last.players
  BY DEF Serves
<1>2. m \in Messages /\ m.type # "Says"
  BY MessageFacts
<1> DEFINE then == ApplyOf("game", last, m)
<1>3. IsReplica(then) /\ then.players = last.players /\ then.projectile = (x = "Spawn")
  BY <1>1, ApplyProjectile
<1> HIDE DEF m
<1>4. Shows("game", r, Append(messages, m), then)
  BY <1>1, <1>2, ShowsAppend
<1> HIDE DEF then
<1> QED BY <1>1, <1>3, <1>4, Zenon DEF Serves, m

LEMMA ServesJoins ==
  ASSUME NEW a, NEW r, NEW messages, NEW now, NEW shot, Serves(a, r, messages, now, shot),
         NEW x \in Players
  PROVE  Serves(a, r, Append(messages, Joins(x)), now \cup {x}, shot)
<1>1. PICK last : /\ Shows(a, r, messages, last) /\ IsReplica(last)
                  /\ now \subseteq last.players /\ (a # "game" => last.players = now)
                  /\ last.projectile => shot
  BY DEF Serves
<1>2. Joins(x) \in Messages /\ Joins(x).type # "Says"
  BY MessageFacts, Zenon DEF Joins
<1> DEFINE then == Having(last, last.players \cup {x})
<1>3. Shows(a, r, Append(messages, Joins(x)), then)
  BY <1>1, <1>2, ShowsAppend, ApplyJoins
<1>4. IsReplica(then) /\ then.players = last.players \cup {x} /\ then.projectile = last.projectile
  BY <1>1, HavingFacts
<1> HIDE DEF then
<1> QED BY <1>1, <1>3, <1>4 DEF Serves

LEMMA ServesTail ==
  ASSUME NEW a, NEW r, NEW messages, NEW now, NEW shot, Serves(a, r, messages, now, shot),
         messages # <<>>
  PROVE  Serves(a, ApplyOf(a, r, Head(messages)), Tail(messages), now, shot)
BY ShowsTail DEF Serves

-----------------------------------------------------------------------------
Events == [type : {"ClientConnected", "ClientDisconnected"}, id : Ids]

\* known[k] is what an application has made of the first k events.
Replays(known, events, start) ==
  /\ known[0] = start
  /\ \A k \in 1 .. Len(events) : known[k] = Follow(known[k - 1], events[k])

\* What EventsTellTheTruth says, for any application and any RenetServer.
Told(start, r) ==
  /\ DOMAIN r = {"connections", "events"}
  /\ r.events \in Seq(Events) /\ DOMAIN r.connections \subseteq Ids
  /\ \E known :
       /\ Replays(known, r.events, start)
       /\ \A k \in 1 .. Len(r.events) :
            r.events[k].type = "ClientConnected" <=> r.events[k].id \notin known[k - 1]
       /\ known[Len(r.events)] \cap Ids = DOMAIN r.connections

LEMMA PushOK ==
  ASSUME NEW start, NEW r, Told(start, r), NEW event \in Events, NEW connections,
         event.type = "ClientConnected" <=> event.id \notin DOMAIN r.connections,
         DOMAIN connections = Follow(DOMAIN r.connections, event)
  PROVE  Told(start, [connections |-> connections, events |-> Append(r.events, event)])
<1> DEFINE n == Len(r.events)
           q == Append(r.events, event)
           s == [connections |-> connections, events |-> q]
<1>1. PICK known :
        /\ Replays(known, r.events, start)
        /\ \A k \in 1 .. n : r.events[k].type = "ClientConnected" <=> r.events[k].id \notin known[k - 1]
        /\ known[n] \cap Ids = DOMAIN r.connections
  BY DEF Told
<1> DEFINE new == [k \in 0 .. n + 1 |-> IF k = n + 1 THEN Follow(known[n], event) ELSE known[k]]
<1>2. /\ n \in Nat /\ q \in Seq(Events) /\ Len(q) = n + 1 /\ q[n + 1] = event
      /\ \A k \in 1 .. n : q[k] = r.events[k]
  BY DEF Told
<1>3. /\ new[n + 1] = Follow(known[n], event) /\ \A k \in 0 .. n : new[k] = known[k]
  BY <1>2
<1>4. event.id \in Ids /\ event.type \in {"ClientConnected", "ClientDisconnected"}
  BY DEF Events
<1>5. /\ DOMAIN s = {"connections", "events"} /\ s.events = q /\ s.connections = connections
  OBVIOUS
<1> HIDE DEF q, n, s, new
<1>6. Replays(new, q, start)
  <2>1. new[0] = start
    BY <1>1, <1>2, <1>3 DEF Replays
  <2>2. ASSUME NEW k \in 1 .. Len(q) PROVE new[k] = Follow(new[k - 1], q[k])
    <3>1. CASE k = n + 1
      <4>1. k - 1 = n /\ n \in 0 .. n
        BY <1>2, <3>1
      <4> QED BY <1>2, <1>3, <3>1, <4>1
    <3>2. CASE k # n + 1
      <4>1. k \in 1 .. n /\ k \in 0 .. n /\ k - 1 \in 0 .. n
        BY <1>2, <3>2
      <4>2. known[k] = Follow(known[k - 1], r.events[k])
        BY <1>1, <4>1 DEF Replays, n
      <4> QED BY <1>2, <1>3, <4>1, <4>2
    <3> QED BY <3>1, <3>2
  <2> QED BY <2>1, <2>2 DEF Replays
<1>7. ASSUME NEW k \in 1 .. Len(q)
      PROVE  q[k].type = "ClientConnected" <=> q[k].id \notin new[k - 1]
  <2>1. CASE k = n + 1
    <3>1. k - 1 = n /\ n \in 0 .. n
      BY <1>2, <2>1
    <3>2. event.id \in known[n] <=> event.id \in DOMAIN r.connections
      BY <1>1, <1>4
    <3> QED BY <1>2, <1>3, <2>1, <3>1, <3>2
  <2>2. CASE k # n + 1
    <3>1. k \in 1 .. n /\ k - 1 \in 0 .. n
      BY <1>2, <2>2
    <3> QED BY <1>1, <1>2, <1>3, <3>1, SMTT(20)
  <2> QED BY <2>1, <2>2
<1>8. new[n + 1] \cap Ids = DOMAIN connections
  BY <1>1, <1>3, <1>4 DEF Follow
<1>9. DOMAIN connections \subseteq Ids
  BY <1>8
<1>10. Told(start, s)
  BY <1>2, <1>5, <1>6, <1>7, <1>8, <1>9 DEF Told
<1> QED BY <1>10 DEF s, q

LEMMA AddConnectionOK ==
  ASSUME NEW start, NEW r, Told(start, r), NEW id \in Ids
  PROVE  /\ Told(start, AddConnection(r, id))
         /\ DOMAIN AddConnection(r, id).connections = DOMAIN r.connections \cup {id}
<1>1. CASE id \in DOMAIN r.connections
  BY <1>1 DEF AddConnection
<1>2. CASE id \notin DOMAIN r.connections
  <2> DEFINE event == [type |-> "ClientConnected", id |-> id]
             c == [x \in DOMAIN r.connections \cup {id} |->
                     IF x = id THEN "Connected" ELSE r.connections[x]]
  <2>1. event \in Events /\ event.type = "ClientConnected" /\ event.id = id
    BY DEF Events
  <2>2. DOMAIN c = DOMAIN r.connections \cup {id}
    OBVIOUS
  <2>3. AddConnection(r, id) = [connections |-> c, events |-> Append(r.events, event)]
    BY <1>2 DEF AddConnection
  <2> HIDE DEF event, c
  <2>4. DOMAIN c = Follow(DOMAIN r.connections, event)
    BY <2>1, <2>2 DEF Follow
  <2>5. Told(start, AddConnection(r, id))
    BY <1>2, <2>1, <2>3, <2>4, PushOK
  <2> QED BY <2>2, <2>3, <2>5
<1> QED BY <1>1, <1>2

LEMMA RemoveConnectionOK ==
  ASSUME NEW start, NEW r, Told(start, r), NEW id \in Ids
  PROVE  /\ Told(start, RemoveConnection(r, id))
         /\ DOMAIN RemoveConnection(r, id).connections = DOMAIN r.connections \ {id}
<1>1. CASE id \notin DOMAIN r.connections
  BY <1>1 DEF RemoveConnection
<1>2. CASE id \in DOMAIN r.connections
  <2> DEFINE event == [type |-> "ClientDisconnected", id |-> id]
             c == Restrict(r.connections, DOMAIN r.connections \ {id})
  <2>1. event \in Events /\ event.type = "ClientDisconnected" /\ event.id = id
    BY DEF Events
  <2>2. DOMAIN c = DOMAIN r.connections \ {id}
    BY DEF Restrict
  <2>3. RemoveConnection(r, id) = [connections |-> c, events |-> Append(r.events, event)]
    BY <1>2 DEF RemoveConnection
  <2> HIDE DEF event, c
  <2>4. DOMAIN c = Follow(DOMAIN r.connections, event)
    BY <2>1, <2>2 DEF Follow
  <2>5. Told(start, RemoveConnection(r, id))
    BY <1>2, <2>1, <2>3, <2>4, PushOK
  <2> QED BY <2>2, <2>3, <2>5
<1> QED BY <1>1, <1>2

\* A server with the same events and the same clients tells the same.
LEMMA SameTold ==
  ASSUME NEW start, NEW r, NEW q, Told(start, r), DOMAIN q = DOMAIN r, q.events = r.events,
         DOMAIN q.connections = DOMAIN r.connections
  PROVE  Told(start, q)
BY DEF Told

LEMMA DisconnectOK ==
  ASSUME NEW start, NEW r, Told(start, r), NEW ids, NEW reason
  PROVE  /\ Told(start, DisconnectWithReason(r, ids, reason))
         /\ DOMAIN DisconnectWithReason(r, ids, reason).connections = DOMAIN r.connections
<1> DEFINE q == DisconnectWithReason(r, ids, reason)
<1>1. "connections" \in DOMAIN r /\ "events" \in DOMAIN r
  BY DEF Told
<1>2. DOMAIN q = DOMAIN r /\ q.events = r.events /\ DOMAIN q.connections = DOMAIN r.connections
  BY <1>1 DEF DisconnectWithReason
<1> QED BY <1>2, SameTold

\* A player that is no client, the game's bot, changes nothing.
LEMMA OtherPlayerOK ==
  ASSUME NEW start, NEW r, Told(start, r), NEW other, other \notin Ids
  PROVE  Told(start \cup {other}, r)
<1> DEFINE n == Len(r.events)
<1>1. PICK known :
        /\ Replays(known, r.events, start)
        /\ \A k \in 1 .. n : r.events[k].type = "ClientConnected" <=> r.events[k].id \notin known[k - 1]
        /\ known[n] \cap Ids = DOMAIN r.connections
  BY DEF Told
<1> DEFINE new == [k \in 0 .. n |-> known[k] \cup {other}]
<1>2. n \in Nat /\ \A k \in 1 .. n : r.events[k].id \in Ids
  <2>1. n \in Nat /\ \A k \in 1 .. n : r.events[k] \in Events
    BY DEF Told
  <2> QED BY <2>1 DEF Events
<1>3. \A k \in 0 .. n : new[k] = known[k] \cup {other}
  OBVIOUS
<1> HIDE DEF n, new
<1>4. new[0] = start \cup {other}
  BY <1>1, <1>2, <1>3 DEF Replays
<1>5. ASSUME NEW k \in 1 .. n
      PROVE  /\ new[k] = Follow(new[k - 1], r.events[k])
             /\ r.events[k].type = "ClientConnected" <=> r.events[k].id \notin new[k - 1]
  <2>1. k \in 0 .. n /\ k - 1 \in 0 .. n
    BY <1>2
  <2>2. known[k] = Follow(known[k - 1], r.events[k])
    BY <1>1 DEF Replays, n
  <2>3. r.events[k].id # other
    BY <1>2
  <2>4. new[k] = known[k] \cup {other} /\ new[k - 1] = known[k - 1] \cup {other}
    BY <1>3, <2>1
  <2>5. new[k] = Follow(new[k - 1], r.events[k])
    BY <2>2, <2>3, <2>4 DEF Follow
  <2> QED BY <1>1, <2>3, <2>4, <2>5
<1>6. new[n] \cap Ids = DOMAIN r.connections
  <2>1. n \in 0 .. n
    BY <1>2
  <2> QED BY <1>1, <1>3, <2>1
<1>7. Replays(new, r.events, start \cup {other})
  BY <1>4, <1>5 DEF Replays, n
<1> QED BY <1>5, <1>6, <1>7 DEF Told, n

\* A program that has taken all events.
LEMMA DrainedOK ==
  ASSUME NEW r, NEW start, DOMAIN r = {"connections", "events"}, r.events = <<>>,
         start \cap Ids = DOMAIN r.connections
  PROVE  Told(start, r)
<1> DEFINE known == [k \in {0} |-> start]
<1>1. Len(r.events) = 0 /\ known[0] = start /\ r.events \in Seq(Events)
  OBVIOUS
<1> HIDE DEF known
<1>2. Replays(known, r.events, start)
  BY <1>1 DEF Replays
<1>3. \A k \in 1 .. Len(r.events) :
        r.events[k].type = "ClientConnected" <=> r.events[k].id \notin known[k - 1]
  BY <1>1
<1> QED BY <1>1, <1>2, <1>3 DEF Told

\* get_event, and an application that follows it.
LEMMA PopOK ==
  ASSUME NEW start, NEW r, Told(start, r), r.events # <<>>
  PROVE  Told(Follow(start, Head(r.events)), [r EXCEPT !.events = Tail(@)])
<1> DEFINE n == Len(r.events)
           q == Tail(r.events)
           s == [r EXCEPT !.events = Tail(@)]
<1>1. PICK known :
        /\ Replays(known, r.events, start)
        /\ \A k \in 1 .. n : r.events[k].type = "ClientConnected" <=> r.events[k].id \notin known[k - 1]
        /\ known[n] \cap Ids = DOMAIN r.connections
  BY DEF Told
<1> DEFINE new == [k \in 0 .. n - 1 |-> known[k + 1]]
<1>2. /\ n \in Nat \ {0} /\ q \in Seq(Events) /\ Len(q) = n - 1
      /\ \A k \in 1 .. n - 1 : q[k] = r.events[k + 1]
      /\ Head(r.events) = r.events[1]
  BY DEF Told
<1>3. /\ DOMAIN s = {"connections", "events"} /\ s.events = q /\ s.connections = r.connections
  BY DEF Told
<1>4. \A k \in 0 .. n - 1 : new[k] = known[k + 1]
  BY <1>2
<1> HIDE DEF n, q, s, new
<1>5. new[0] = Follow(start, Head(r.events))
  <2>1. known[1] = Follow(known[1 - 1], r.events[1]) /\ known[0] = start
    BY <1>1, <1>2 DEF Replays, n
  <2> QED BY <1>2, <1>4, <2>1
<1>6. ASSUME NEW k \in 1 .. Len(q)
      PROVE  /\ new[k] = Follow(new[k - 1], q[k])
             /\ q[k].type = "ClientConnected" <=> q[k].id \notin new[k - 1]
  <2>1. k \in 0 .. n - 1 /\ k - 1 \in 0 .. n - 1 /\ k + 1 \in 1 .. n /\ (k + 1) - 1 = k
        /\ (k - 1) + 1 = k /\ k \in 1 .. n - 1
    BY <1>2
  <2>2. known[k + 1] = Follow(known[k], r.events[k + 1])
    BY <1>1, <2>1 DEF Replays, n
  <2>3. r.events[k + 1].type = "ClientConnected" <=> r.events[k + 1].id \notin known[k]
    BY <1>1, <2>1
  <2> QED BY <1>2, <1>4, <2>1, <2>2, <2>3
<1>7. new[Len(q)] \cap Ids = DOMAIN r.connections
  <2>1. Len(q) \in 0 .. n - 1 /\ Len(q) + 1 = n
    BY <1>2
  <2> QED BY <1>1, <1>4, <2>1
<1>8. Replays(new, q, Follow(start, Head(r.events)))
  BY <1>5, <1>6 DEF Replays
<1>9. DOMAIN r.connections \subseteq Ids
  BY DEF Told
<1>10. Told(Follow(start, Head(r.events)), s)
  BY <1>2, <1>3, <1>6, <1>7, <1>8, <1>9, Zenon DEF Told
<1> QED BY <1>10 DEF s

(***************************************************************************)
(* The replay of EventsTellTheTruth is the one known there to exist.       *)
(***************************************************************************)
LEMMA ToldIsTheTruth == Told(view, server) => EventsTellTheTruth
<1> SUFFICES ASSUME Told(view, server) PROVE EventsTellTheTruth
  OBVIOUS
<1> DEFINE events == server.events
           n == Len(events)
           Step(f) == [k \in 0 .. n |-> IF k = 0 THEN view ELSE Follow(f[k - 1], events[k])]
           known == CHOOSE f : f = Step(f)
<1>1. PICK g :
        /\ Replays(g, events, view)
        /\ \A k \in 1 .. n : events[k].type = "ClientConnected" <=> events[k].id \notin g[k - 1]
        /\ g[n] \cap Ids = DOMAIN server.connections
  BY DEF Told
<1>2. n \in Nat /\ DOMAIN events = 1 .. n
  BY DEF Told
<1> HIDE DEF events, n
<1>3. known = Step(known)
  <2> DEFINE h == [k \in 0 .. n |-> g[k]]
  <2>1. ASSUME NEW k \in 0 .. n
        PROVE  h[k] = IF k = 0 THEN view ELSE Follow(h[k - 1], events[k])
    <3>1. CASE k = 0
      BY <1>1, <3>1 DEF Replays
    <3>2. CASE k # 0
      <4>1. k \in 1 .. n /\ k - 1 \in 0 .. n
        BY <1>2, <3>2
      <4>2. g[k] = Follow(g[k - 1], events[k])
        BY <1>1, <4>1 DEF Replays, n
      <4> QED BY <3>2, <4>1, <4>2
    <3> QED BY <3>1, <3>2
  <2>2. h = Step(h)
    BY <2>1
  <2> QED BY <2>2, Zenon
<1> HIDE DEF known
<1>4. ASSUME NEW k \in 0 .. n
      PROVE  known[k] = IF k = 0 THEN view ELSE Follow(known[k - 1], events[k])
  BY <1>3, Zenon
<1>5. \A k \in 0 .. n : known[k] = g[k]
  <2> DEFINE S == {k \in Nat : k <= n => known[k] = g[k]}
  <2>1. 0 \in S
    BY <1>1, <1>2, <1>4 DEF Replays
  <2>2. ASSUME NEW k \in Nat, k \in S PROVE k + 1 \in S
    <3> SUFFICES ASSUME k + 1 <= n PROVE known[k + 1] = g[k + 1]
      OBVIOUS
    <3>1. known[k] = g[k]
      BY <1>2, <2>2
    <3>2. k + 1 \in 1 .. n /\ k + 1 \in 0 .. n /\ k + 1 # 0 /\ (k + 1) - 1 = k
      BY <1>2
    <3>3. g[k + 1] = Follow(g[k], events[k + 1])
      BY <1>1, <3>2 DEF Replays, n
    <3>4. known[k + 1] = Follow(known[k], events[k + 1])
      BY <1>4, <3>2
    <3> QED BY <3>1, <3>3, <3>4
  <2> HIDE DEF S
  <2>3. \A k \in Nat : k \in S
    BY <2>1, <2>2, SetInduction
  <2> QED BY <1>2, <2>3 DEF S
<1>6. \A k \in 1 .. n : k - 1 \in 0 .. n
  BY <1>2
<1>7. \A k \in 1 .. n : events[k].type = "ClientConnected" <=> events[k].id \notin known[k - 1]
  BY <1>1, <1>5, <1>6
<1>8. known[n] \cap Ids = DOMAIN server.connections
  BY <1>1, <1>2, <1>5
<1> QED BY <1>2, <1>7, <1>8, Zenon DEF EventsTellTheTruth, known, events, n

-----------------------------------------------------------------------------
\* A client that is connected and was not among old has had an event.
Kept(old, r) ==
  \A id \in ClientsId(r) : id \in old \/ \E k \in DOMAIN r.events : r.events[k].id = id

\* Events are only pushed, so that what had one still has.
LEMMA PushKeeps ==
  ASSUME NEW old, NEW r, r.events \in Seq(Events), Kept(old, r), NEW event \in Events, NEW new,
         new.events = Append(r.events, event), ClientsId(new) \subseteq ClientsId(r) \cup {event.id}
  PROVE  Kept(old, new)
<1> DEFINE n == Len(r.events)
<1>1. /\ n \in Nat /\ DOMAIN r.events = 1 .. n /\ DOMAIN new.events = 1 .. n + 1
      /\ new.events[n + 1] = event /\ \A k \in 1 .. n : new.events[k] = r.events[k]
  OBVIOUS
<1> HIDE DEF n
<1> SUFFICES ASSUME NEW id \in ClientsId(new), id \notin old
             PROVE  \E k \in 1 .. n + 1 : new.events[k].id = id
  BY <1>1 DEF Kept
<1>2. CASE id = event.id
  <2>1. n + 1 \in 1 .. n + 1
    BY <1>1
  <2> QED BY <1>1, <1>2, <2>1
<1>3. CASE id # event.id
  <2>1. PICK k \in 1 .. n : r.events[k].id = id
    BY <1>1, <1>3 DEF Kept
  <2>2. k \in 1 .. n + 1
    BY <1>1
  <2> QED BY <1>1, <2>1, <2>2
<1> QED BY <1>2, <1>3, Zenon

LEMMA AddKeeps ==
  ASSUME NEW start, NEW r, Told(start, r), NEW old, Kept(old, r), NEW id \in Ids
  PROVE  Kept(old, AddConnection(r, id))
<1> DEFINE new == AddConnection(r, id)
           event == [type |-> "ClientConnected", id |-> id]
<1>1. CASE id \in DOMAIN r.connections
  BY <1>1 DEF AddConnection
<1>2. CASE id \notin DOMAIN r.connections
  <2>1. event \in Events /\ event.id = id /\ r.events \in Seq(Events)
    BY DEF Events, Told
  <2>2. new.events = Append(r.events, event)
    BY <1>2 DEF AddConnection
  <2>3. /\ DOMAIN new.connections = DOMAIN r.connections \cup {id}
        /\ \A x \in DOMAIN r.connections : new.connections[x] = r.connections[x]
    BY <1>2 DEF AddConnection
  <2>4. ClientsId(new) \subseteq ClientsId(r) \cup {id}
    BY <2>3 DEF ClientsId, IsDisconnected
  <2> HIDE DEF new, event
  <2>5. Kept(old, new)
    BY <2>1, <2>2, <2>4, PushKeeps
  <2> QED BY <2>5 DEF new
<1> QED BY <1>1, <1>2

LEMMA RemoveKeeps ==
  ASSUME NEW start, NEW r, Told(start, r), NEW old, Kept(old, r), NEW id \in Ids
  PROVE  Kept(old, RemoveConnection(r, id))
<1> DEFINE new == RemoveConnection(r, id)
           event == [type |-> "ClientDisconnected", id |-> id]
<1>1. CASE id \notin DOMAIN r.connections
  BY <1>1 DEF RemoveConnection
<1>2. CASE id \in DOMAIN r.connections
  <2>1. event \in Events /\ event.id = id /\ r.events \in Seq(Events)
    BY DEF Events, Told
  <2>2. new.events = Append(r.events, event)
    BY <1>2 DEF RemoveConnection
  <2>3. /\ DOMAIN new.connections = DOMAIN r.connections \ {id}
        /\ \A x \in DOMAIN r.connections \ {id} : new.connections[x] = r.connections[x]
    BY <1>2 DEF RemoveConnection, Restrict
  <2>4. ClientsId(new) \subseteq ClientsId(r) \cup {id}
    BY <2>3 DEF ClientsId, IsDisconnected
  <2> HIDE DEF new, event
  <2>5. Kept(old, new)
    BY <2>1, <2>2, <2>4, PushKeeps
  <2> QED BY <2>5 DEF new
<1> QED BY <1>1, <1>2

\* No reason for a disconnection is "Connected".
LEMMA DisconnectClients ==
  ASSUME NEW start, NEW r, Told(start, r), NEW ids, NEW reason, reason # "Connected"
  PROVE  /\ DisconnectWithReason(r, ids, reason).events = r.events
         /\ ClientsId(DisconnectWithReason(r, ids, reason)) \subseteq ClientsId(r)
<1> DEFINE new == DisconnectWithReason(r, ids, reason)
<1>1. "connections" \in DOMAIN r /\ "events" \in DOMAIN r
  BY DEF Told
<1>2. /\ new.events = r.events /\ DOMAIN new.connections = DOMAIN r.connections
      /\ \A x \in DOMAIN r.connections : new.connections[x] = r.connections[x]
                                         \/ new.connections[x] = reason
  BY <1>1 DEF DisconnectWithReason
<1> HIDE DEF new
<1>3. ClientsId(new) \subseteq ClientsId(r)
  BY <1>2 DEF ClientsId, IsDisconnected
<1> QED BY <1>2, <1>3 DEF new

LEMMA DisconnectKeeps ==
  ASSUME NEW start, NEW r, Told(start, r), NEW old, Kept(old, r), NEW ids
  PROVE  Kept(old, DisconnectWithReason(r, ids, "Error"))
BY DisconnectClients DEF Kept

-----------------------------------------------------------------------------
\* The two layers in the course of an update.
LayersOK(start, old, layers) ==
  /\ DOMAIN layers = {"server", "netcode"}
  /\ Told(start, layers.server) /\ Kept(old, layers.server)
  /\ layers.netcode = DOMAIN layers.server.connections \ LocalIds

LEMMA ReceiveOK ==
  ASSUME NEW start, NEW old, NEW layers, LayersOK(start, old, layers), NEW packet \in Packets
  PROVE  LayersOK(start, old, Receive(layers, packet))
<1> DEFINE id == packet.id
           r == layers.server
<1>1. id \in RemoteIds /\ id \in Ids /\ id \notin LocalIds
  BY IdsAssumption DEF Packets
<1>2. Told(start, r) /\ Kept(old, r) /\ DOMAIN layers = {"server", "netcode"}
      /\ layers.netcode = DOMAIN r.connections \ LocalIds
  BY DEF LayersOK
<1> HIDE DEF id, r
<1>3. CASE packet.type = "Response" /\ id \notin layers.netcode
  <2>1. Receive(layers, packet)
        = [server |-> AddConnection(r, id), netcode |-> layers.netcode \cup {id}]
    BY <1>3 DEF Receive, id, r
  <2>2. Told(start, AddConnection(r, id)) /\ Kept(old, AddConnection(r, id))
        /\ DOMAIN AddConnection(r, id).connections = DOMAIN r.connections \cup {id}
    BY <1>1, <1>2, AddConnectionOK, AddKeeps, SMTT(20)
  <2> QED BY <1>1, <1>2, <2>1, <2>2 DEF LayersOK
<1>4. CASE packet.type = "Disconnect" /\ id \in layers.netcode
  <2>1. Receive(layers, packet)
        = [server |-> RemoveConnection(r, id), netcode |-> layers.netcode \ {id}]
    BY <1>4 DEF Receive, id, r
  <2>2. Told(start, RemoveConnection(r, id)) /\ Kept(old, RemoveConnection(r, id))
        /\ DOMAIN RemoveConnection(r, id).connections = DOMAIN r.connections \ {id}
    BY <1>1, <1>2, RemoveConnectionOK, RemoveKeeps, Zenon
  <2> QED BY <1>1, <1>2, <2>1, <2>2 DEF LayersOK
<1>5. CASE packet.type = "Invalid" /\ id \in layers.netcode
  <2> DEFINE q == DisconnectWithReason(r, {id}, "Error")
  <2>1. Receive(layers, packet) = [layers EXCEPT !.server = q]
    BY <1>5, SMTT(20) DEF Receive, id, r
  <2>2. Told(start, q) /\ Kept(old, q) /\ DOMAIN q.connections = DOMAIN r.connections
    BY <1>2, DisconnectOK, DisconnectKeeps
  <2> HIDE DEF q
  <2>3. /\ DOMAIN [layers EXCEPT !.server = q] = {"server", "netcode"}
        /\ [layers EXCEPT !.server = q].server = q
        /\ [layers EXCEPT !.server = q].netcode = layers.netcode
    BY <1>2
  <2> QED BY <1>2, <2>1, <2>2, <2>3 DEF LayersOK
<1>6. CASE /\ ~ (packet.type = "Response" /\ id \notin layers.netcode)
           /\ ~ (packet.type = "Disconnect" /\ id \in layers.netcode)
           /\ ~ (packet.type = "Invalid" /\ id \in layers.netcode)
  BY <1>6 DEF Receive, id
<1> QED BY <1>3, <1>4, <1>5, <1>6

LEMMA DropOK ==
  ASSUME NEW start, NEW old, NEW layers, LayersOK(start, old, layers), NEW id
  PROVE  LayersOK(start, old, Drop(layers, id))
<1> DEFINE r == layers.server
<1>1. Told(start, r) /\ Kept(old, r) /\ layers.netcode = DOMAIN r.connections \ LocalIds
      /\ DOMAIN r.connections \subseteq Ids
  BY DEF LayersOK, Told
<1> HIDE DEF r
<1>2. CASE id \in layers.netcode
  <2>1. Drop(layers, id) = [server |-> RemoveConnection(r, id), netcode |-> layers.netcode \ {id}]
    BY <1>2 DEF Drop, r
  <2>2. Told(start, RemoveConnection(r, id)) /\ Kept(old, RemoveConnection(r, id))
        /\ DOMAIN RemoveConnection(r, id).connections = DOMAIN r.connections \ {id}
    BY <1>1, <1>2, RemoveConnectionOK, RemoveKeeps
  <2> QED BY <1>1, <2>1, <2>2 DEF LayersOK
<1>3. CASE id \notin layers.netcode
  BY <1>3 DEF Drop
<1> QED BY <1>2, <1>3, SMTT(20)

-----------------------------------------------------------------------------
(***************************************************************************)
(* The loops.  A loop is a recursive function, which exists because it     *)
(* does for every number of rounds; then what every round keeps, the loop  *)
(* keeps.                                                                  *)
(***************************************************************************)
ReceivedStep(layers, arrivals, n, f) ==
  [k \in 0 .. n |-> IF k = 0 THEN layers ELSE Receive(f[k - 1], arrivals[k])]

LEMMA ReceivedExists ==
  ASSUME NEW layers, NEW arrivals, NEW n \in Nat
  PROVE  \E f : f = ReceivedStep(layers, arrivals, n, f)
<1> DEFINE Step(m, f) ==
             [k \in 0 .. m |-> IF k = 0 THEN layers ELSE Receive(f[k - 1], arrivals[k])]
           S == {m \in Nat : \E f : f = Step(m, f)}
<1>1. 0 \in S
  <2>1. [k \in 0 .. 0 |-> layers] = Step(0, [k \in 0 .. 0 |-> layers])
    OBVIOUS
  <2> QED BY <2>1, Zenon
<1>2. ASSUME NEW m \in Nat, m \in S PROVE m + 1 \in S
  <2>1. PICK f : f = Step(m, f)
    BY <1>2
  <2> DEFINE g == [k \in 0 .. m + 1 |-> IF k = m + 1 THEN Receive(f[m], arrivals[m + 1]) ELSE f[k]]
  <2>2. ASSUME NEW k \in 0 .. m + 1
        PROVE  g[k] = IF k = 0 THEN layers ELSE Receive(g[k - 1], arrivals[k])
    <3>1. CASE k = m + 1
      BY <3>1
    <3>2. CASE k # m + 1
      <4>1. k \in 0 .. m /\ (k # 0 => k - 1 \in 0 .. m + 1 /\ k - 1 # m + 1)
        BY <3>2
      <4>2. f[k] = IF k = 0 THEN layers ELSE Receive(f[k - 1], arrivals[k])
        BY <2>1, <4>1
      <4> QED BY <3>2, <4>1, <4>2
    <3> QED BY <3>1, <3>2
  <2>3. g = Step(m + 1, g)
    BY <2>2
  <2> HIDE DEF g
  <2>4. \E h : h = Step(m + 1, h)
    BY <2>3
  <2> QED BY <2>4
<1> HIDE DEF S
<1>3. n \in S
  BY <1>1, <1>2, SetInduction
<1> QED BY <1>3 DEF S, ReceivedStep

LEMMA ReceivedOK ==
  ASSUME NEW start, NEW old, NEW layers, LayersOK(start, old, layers), NEW arrivals \in Arrivals
  PROVE  LayersOK(start, old, Received(layers, arrivals))
<1> DEFINE n == Len(arrivals)
           after == CHOOSE f : f = ReceivedStep(layers, arrivals, n, f)
<1>1. n \in Nat /\ \A k \in 1 .. n : arrivals[k] \in Packets
  <2>1. PICK m \in 0 .. MaxPackets : arrivals \in [1 .. m -> Packets]
    BY DEF Arrivals
  <2>2. m \in Nat
    BY IdsAssumption
  <2>3. arrivals \in Seq(Packets) /\ Len(arrivals) = m
    BY <2>1, <2>2
  <2> QED BY <2>1, <2>2, <2>3
<1>2. Received(layers, arrivals) = after[n]
  BY DEF Received, ReceivedStep
<1> HIDE DEF n
<1>3. after = ReceivedStep(layers, arrivals, n, after)
  BY <1>1, ReceivedExists
<1> HIDE DEF after
<1>4. ASSUME NEW k \in 0 .. n
      PROVE  after[k] = IF k = 0 THEN layers ELSE Receive(after[k - 1], arrivals[k])
  BY <1>3, Zenon DEF ReceivedStep
<1> DEFINE S == {k \in Nat : k <= n => LayersOK(start, old, after[k])}
<1>5. 0 \in S
  BY <1>1, <1>4
<1>6. ASSUME NEW k \in Nat, k \in S PROVE k + 1 \in S
  <2> SUFFICES ASSUME k + 1 <= n PROVE LayersOK(start, old, after[k + 1])
    OBVIOUS
  <2>1. k + 1 \in 0 .. n /\ k + 1 \in 1 .. n /\ k + 1 # 0 /\ (k + 1) - 1 = k
    BY <1>1
  <2>2. LayersOK(start, old, after[k])
    BY <1>1, <1>6
  <2>3. after[k + 1] = Receive(after[k], arrivals[k + 1])
    BY <1>4, <2>1
  <2> QED BY <1>1, <2>1, <2>2, <2>3, ReceiveOK
<1> HIDE DEF S
<1>7. n \in S
  BY <1>1, <1>5, <1>6, SetInduction
<1> QED BY <1>1, <1>2, <1>7 DEF S

DropAllStep(layers, ids, order, n, f) ==
  [k \in 0 .. n |->
     IF k = 0 THEN layers
     ELSE IF order[k] \in ids THEN Drop(f[k - 1], order[k]) ELSE f[k - 1]]

LEMMA DropAllExists ==
  ASSUME NEW layers, NEW ids, NEW order, NEW n \in Nat
  PROVE  \E f : f = DropAllStep(layers, ids, order, n, f)
<1> DEFINE Round(k, l) == IF order[k] \in ids THEN Drop(l, order[k]) ELSE l
           Step(m, f) == [k \in 0 .. m |-> IF k = 0 THEN layers ELSE Round(k, f[k - 1])]
           S == {m \in Nat : \E f : f = Step(m, f)}
<1> HIDE DEF Round
<1>1. 0 \in S
  <2>1. [k \in 0 .. 0 |-> layers] = Step(0, [k \in 0 .. 0 |-> layers])
    OBVIOUS
  <2> QED BY <2>1, Zenon
<1>2. ASSUME NEW m \in Nat, m \in S PROVE m + 1 \in S
  <2>1. PICK f : f = Step(m, f)
    BY <1>2
  <2> DEFINE g == [k \in 0 .. m + 1 |-> IF k = m + 1 THEN Round(m + 1, f[m]) ELSE f[k]]
  <2>2. ASSUME NEW k \in 0 .. m + 1
        PROVE  g[k] = IF k = 0 THEN layers ELSE Round(k, g[k - 1])
    <3>1. CASE k = m + 1
      BY <3>1
    <3>2. CASE k # m + 1
      <4>1. k \in 0 .. m /\ (k # 0 => k - 1 \in 0 .. m + 1 /\ k - 1 # m + 1)
        BY <3>2
      <4>2. f[k] = IF k = 0 THEN layers ELSE Round(k, f[k - 1])
        BY <2>1, <4>1
      <4> QED BY <3>2, <4>1, <4>2
    <3> QED BY <3>1, <3>2
  <2>3. g = Step(m + 1, g)
    BY <2>2
  <2> HIDE DEF g
  <2>4. \E h : h = Step(m + 1, h)
    BY <2>3
  <2> QED BY <2>4
<1> HIDE DEF S
<1>3. n \in S
  BY <1>1, <1>2, SetInduction
<1> QED BY <1>3 DEF S, Round, DropAllStep

LEMMA DropAllOK ==
  ASSUME NEW start, NEW old, NEW layers, LayersOK(start, old, layers), NEW ids, NEW order \in Orders
  PROVE  LayersOK(start, old, DropAll(layers, ids, order))
<1> DEFINE n == Len(order)
           after == CHOOSE f : f = DropAllStep(layers, ids, order, n, f)
<1>1. n \in Nat
  <2>1. Cardinality(RemoteIds) \in Nat
    BY IdsAssumption, FS_Subset, FS_CardinalityType
  <2>2. order \in [1 .. Cardinality(RemoteIds) -> RemoteIds]
    BY DEF Orders, OrdersOf, Injection
  <2> QED BY <2>1, <2>2
<1>2. DropAll(layers, ids, order) = after[n]
  BY DEF DropAll, DropAllStep
<1> HIDE DEF n
<1>3. after = DropAllStep(layers, ids, order, n, after)
  BY <1>1, DropAllExists
<1> HIDE DEF after
<1>4. ASSUME NEW k \in 0 .. n
      PROVE  after[k] = IF k = 0 THEN layers
                        ELSE IF order[k] \in ids THEN Drop(after[k - 1], order[k])
                        ELSE after[k - 1]
  BY <1>3, Zenon DEF DropAllStep
<1> DEFINE S == {k \in Nat : k <= n => LayersOK(start, old, after[k])}
<1>5. 0 \in S
  BY <1>1, <1>4
<1>6. ASSUME NEW k \in Nat, k \in S PROVE k + 1 \in S
  <2> SUFFICES ASSUME k + 1 <= n PROVE LayersOK(start, old, after[k + 1])
    OBVIOUS
  <2>1. k + 1 \in 0 .. n /\ k + 1 # 0 /\ (k + 1) - 1 = k
    BY <1>1
  <2>2. LayersOK(start, old, after[k])
    BY <1>1, <1>6
  <2>3. after[k + 1] = Drop(after[k], order[k + 1]) \/ after[k + 1] = after[k]
    BY <1>4, <2>1
  <2> QED BY <2>2, <2>3, DropOK
<1> HIDE DEF S
<1>7. n \in S
  BY <1>1, <1>5, <1>6, SetInduction
<1> QED BY <1>1, <1>2, <1>7 DEF S

-----------------------------------------------------------------------------
\* A program's state while it handles its events.
ProgramOK(state) ==
  DOMAIN state = {"view", "panicked", "projectile", "sent"} /\ state.panicked \in BOOLEAN

SameRoster(state, old) ==
  ProgramOK(state) /\ state.view = old.view /\ state.panicked = old.panicked

LEMMA SendingOK ==
  ASSUME NEW state, ProgramOK(state), NEW layers
  PROVE  /\ \A message : SameRoster(Broadcast(state, layers, message), state)
         /\ \A id, messages : SameRoster(SendAll(state, layers, id, messages), state)
<1>1. {"view", "panicked", "projectile", "sent"} = DOMAIN state
  BY DEF ProgramOK
<1>2. ASSUME NEW message PROVE SameRoster(Broadcast(state, layers, message), state)
  BY <1>1 DEF Broadcast, SameRoster, ProgramOK
<1>3. ASSUME NEW id, NEW messages PROVE SameRoster(SendAll(state, layers, id, messages), state)
  BY <1>1 DEF SendAll, SameRoster, ProgramOK
<1> QED BY <1>2, <1>3

\* A program follows an event, unless it panics on it.
LEMMA HandleEventOK ==
  ASSUME NEW state, ProgramOK(state), NEW layers, NEW event \in Events, NEW players
  PROVE  LET new == HandleEvent(state, layers, event, players)
         IN  ProgramOK(new) /\ (new.panicked \/ new.view = Follow(state.view, event))
<1> DEFINE new == HandleEvent(state, layers, event, players)
           id == event.id
           joined == [state EXCEPT !.view = @ \cup {id}]
<1>1. event.type \in {"ClientConnected", "ClientDisconnected"}
  BY DEF Events
<1>2. CASE state.panicked
  BY <1>2 DEF HandleEvent
<1>3. CASE ~ state.panicked /\ event.type = "ClientDisconnected"
  <2> DEFINE left == [state EXCEPT !.view = @ \ {id}]
  <2>1. ProgramOK(left) /\ left.view = state.view \ {id}
    BY DEF ProgramOK
  <2>2. new = Broadcast(left, layers, Leaves(id))
    BY <1>3 DEF HandleEvent, Left
  <2> HIDE DEF left, new
  <2>3. SameRoster(new, left)
    BY <2>1, <2>2, SendingOK
  <2> QED BY <1>3, <2>1, <2>3 DEF SameRoster, Follow, new
<1>4. CASE ~ state.panicked /\ event.type = "ClientConnected"
  <2>0. Follow(state.view, event) = state.view \cup {id}
    BY <1>4 DEF Follow
  <2>1. CASE app = "chat" /\ id \notin layers.netcode
    <3>1. new = [state EXCEPT !.panicked = TRUE]
      BY <1>4, <2>1 DEF HandleEvent, ChatConnected
    <3> QED BY <3>1 DEF ProgramOK
  <2>2. CASE app = "chat" /\ id \in layers.netcode
    <3> DEFINE told == Broadcast(joined, layers, Joins(id))
    <3>1. ProgramOK(joined) /\ joined.view = state.view \cup {id}
      BY DEF ProgramOK
    <3>2. PICK messages : new = SendAll(told, layers, id, messages)
      BY <1>4, <2>2, SMTT(20) DEF HandleEvent, ChatConnected
    <3> HIDE DEF joined, new, told
    <3>3. SameRoster(told, joined)
      BY <3>1, SendingOK DEF told
    <3>4. SameRoster(new, told)
      <4>1. ProgramOK(told)
        BY <3>3, Zenon DEF SameRoster
      <4>2. SameRoster(SendAll(told, layers, id, messages), told)
        BY <4>1, SendingOK
      <4> QED BY <3>2, <4>2, Zenon
    <3> QED BY <2>0, <3>1, <3>3, <3>4 DEF SameRoster, new
  <2>3. CASE app # "chat"
    <3>1. PICK messages :
            new = Broadcast([SendAll(state, layers, id, messages) EXCEPT !.view = @ \cup {id}],
                            layers, Joins(id))
      BY <1>1, <1>4, <2>3, Zenon DEF HandleEvent, GameConnected, SimpleConnected
    <3> DEFINE told == SendAll(state, layers, id, messages)
               in == [told EXCEPT !.view = @ \cup {id}]
    <3>2. SameRoster(told, state)
      BY SendingOK
    <3> HIDE DEF told, new
    <3>3. ProgramOK(in) /\ in.view = state.view \cup {id}
      BY <3>2 DEF SameRoster, ProgramOK
    <3>4. new = Broadcast(in, layers, Joins(id))
      BY <3>1 DEF told
    <3> HIDE DEF in
    <3>5. SameRoster(new, in)
      BY <3>3, <3>4, SendingOK
    <3> QED BY <2>0, <3>3, <3>5 DEF SameRoster, new
  <2> QED BY <2>1, <2>2, <2>3, Zenon
<1> QED BY <1>1, <1>2, <1>3, <1>4 DEF ProgramOK

HandleEventsStep(state, layers, events, n, f) ==
  [k \in 0 .. n |->
     IF k = 0 THEN state ELSE HandleEvent(f[k - 1], layers, events[k], state.view)]

LEMMA HandleEventsExists ==
  ASSUME NEW state, NEW layers, NEW events, NEW n \in Nat
  PROVE  \E f : f = HandleEventsStep(state, layers, events, n, f)
<1> DEFINE Round(k, s) == HandleEvent(s, layers, events[k], state.view)
           Step(m, f) == [k \in 0 .. m |-> IF k = 0 THEN state ELSE Round(k, f[k - 1])]
           S == {m \in Nat : \E f : f = Step(m, f)}
<1> HIDE DEF Round
<1>1. 0 \in S
  <2>1. [k \in 0 .. 0 |-> state] = Step(0, [k \in 0 .. 0 |-> state])
    OBVIOUS
  <2> QED BY <2>1, Zenon
<1>2. ASSUME NEW m \in Nat, m \in S PROVE m + 1 \in S
  <2>1. PICK f : f = Step(m, f)
    BY <1>2
  <2> DEFINE g == [k \in 0 .. m + 1 |-> IF k = m + 1 THEN Round(m + 1, f[m]) ELSE f[k]]
  <2>2. ASSUME NEW k \in 0 .. m + 1
        PROVE  g[k] = IF k = 0 THEN state ELSE Round(k, g[k - 1])
    <3>1. CASE k = m + 1
      BY <3>1
    <3>2. CASE k # m + 1
      <4>1. k \in 0 .. m /\ (k # 0 => k - 1 \in 0 .. m + 1 /\ k - 1 # m + 1)
        BY <3>2
      <4>2. f[k] = IF k = 0 THEN state ELSE Round(k, f[k - 1])
        BY <2>1, <4>1
      <4> QED BY <3>2, <4>1, <4>2
    <3> QED BY <3>1, <3>2
  <2>3. g = Step(m + 1, g)
    BY <2>2
  <2> HIDE DEF g
  <2>4. \E h : h = Step(m + 1, h)
    BY <2>3
  <2> QED BY <2>4
<1> HIDE DEF S
<1>3. n \in S
  BY <1>1, <1>2, SetInduction
<1> QED BY <1>3 DEF S, Round, HandleEventsStep

\* handled[k] is the state after the first k events.
Handling(handled, state, layers) ==
  /\ handled[0] = state
  /\ \A k \in 1 .. Len(layers.server.events) :
       handled[k] = HandleEvent(handled[k - 1], layers, layers.server.events[k], state.view)

LEMMA HandlingExists ==
  ASSUME NEW state, NEW layers, layers.server.events \in Seq(Events)
  PROVE  \E handled : /\ Handling(handled, state, layers)
                      /\ HandleEvents(state, layers) = handled[Len(layers.server.events)]
<1> DEFINE events == layers.server.events
           n == Len(events)
           handled == CHOOSE f : f = HandleEventsStep(state, layers, events, n, f)
<1>1. n \in Nat
  OBVIOUS
<1>2. HandleEvents(state, layers) = handled[n]
  BY DEF HandleEvents, HandleEventsStep
<1> HIDE DEF n, events
<1>3. handled = HandleEventsStep(state, layers, events, n, handled)
  BY <1>1, HandleEventsExists
<1> HIDE DEF handled
<1>4. ASSUME NEW k \in 0 .. n
      PROVE  handled[k] = IF k = 0 THEN state
                          ELSE HandleEvent(handled[k - 1], layers, events[k], state.view)
  BY <1>3, Zenon DEF HandleEventsStep
<1>5. 0 \in 0 .. n /\ \A k \in 1 .. n : k \in 0 .. n /\ k # 0
  BY <1>1
<1>6. Handling(handled, state, layers)
  BY <1>4, <1>5 DEF Handling, events, n
<1> QED BY <1>2, <1>6 DEF events, n

(***************************************************************************)
(* A program that does not panic has followed all events, and its roster   *)
(* has the connections the transport left.                                 *)
(***************************************************************************)
LEMMA HandleEventsOK ==
  ASSUME NEW state, ProgramOK(state), NEW layers, Told(state.view, layers.server)
  PROVE  LET new == HandleEvents(state, layers)
         IN  /\ ProgramOK(new)
             /\ new.panicked \/ new.view \cap Ids = DOMAIN layers.server.connections
<1> DEFINE events == layers.server.events
           n == Len(events)
<1>1. n \in Nat /\ \A k \in 1 .. n : events[k] \in Events
  BY DEF Told
<1>2. PICK known : /\ Replays(known, events, state.view)
                   /\ known[n] \cap Ids = DOMAIN layers.server.connections
  BY DEF Told
<1>3. PICK handled : Handling(handled, state, layers) /\ HandleEvents(state, layers) = handled[n]
  BY HandlingExists, Zenon DEF Told
<1>5. /\ handled[0] = state
      /\ \A k \in 1 .. n :
           handled[k] = HandleEvent(handled[k - 1], layers, events[k], state.view)
  BY <1>3 DEF Handling
<1> HIDE DEF n, events
<1> DEFINE Done(k) == /\ ProgramOK(handled[k])
                      /\ handled[k].panicked \/ handled[k].view = known[k]
           S == {k \in Nat : k <= n => Done(k)}
<1>6. Done(0)
  BY <1>1, <1>2, <1>5, SMTT(20) DEF Replays
<1>7. ASSUME NEW k \in Nat, k + 1 <= n, Done(k) PROVE Done(k + 1)
  <2>1. k + 1 \in 0 .. n /\ k + 1 \in 1 .. n /\ k + 1 # 0 /\ (k + 1) - 1 = k
    BY <1>1, <1>7
  <2>2. handled[k + 1] = HandleEvent(handled[k], layers, events[k + 1], state.view)
    BY <1>5, <2>1
  <2>3. known[k + 1] = Follow(known[k], events[k + 1])
    BY <1>2, <2>1 DEF Replays, n
  <2>4. CASE handled[k].panicked
    <3>1. handled[k + 1] = handled[k]
      BY <2>2, <2>4, SMTT(20) DEF HandleEvent
    <3> QED BY <1>7, <2>4, <3>1, SMTT(20)
  <2>5. CASE handled[k].view = known[k]
    <3>1. events[k + 1] \in Events
      BY <1>1, <2>1
    <3>2. /\ ProgramOK(handled[k + 1])
          /\ handled[k + 1].panicked \/ handled[k + 1].view = Follow(handled[k].view, events[k + 1])
      <4>1. ProgramOK(handled[k])
        BY <1>7
      <4> HIDE DEF Done
      <4> QED BY <2>2, <3>1, <4>1, HandleEventOK, SMTT(20)
    <3> QED BY <2>3, <2>5, <3>2
  <2> QED BY <1>7, <2>4, <2>5
<1> HIDE DEF Done
<1>8. 0 \in S /\ \A k \in Nat : k \in S => k + 1 \in S
  BY <1>1, <1>6, <1>7
<1> HIDE DEF S
<1>9. n \in S
  BY <1>1, <1>8, SetInduction
<1>10. Done(n)
  BY <1>1, <1>9 DEF S
<1> QED BY <1>2, <1>3, <1>10, Zenon DEF Done

\* The clients' messages touch no roster.
LEMMA HandleMessagesOK ==
  ASSUME NEW state, ProgramOK(state), NEW layers, NEW from
  PROVE  SameRoster(HandleMessages(state, layers, from), state)
<1>1. SameRoster(state, state)
  BY DEF SameRoster
<1>2. SameRoster(ReadsText(state, layers, from), state)
  BY SendingOK DEF ReadsText
<1>3. SameRoster(ReadsAttack(state, layers, from), state)
  <2> DEFINE shot == [state EXCEPT !.projectile = TRUE]
  <2>1. SameRoster(shot, state) /\ ProgramOK(shot)
    BY DEF SameRoster, ProgramOK
  <2> HIDE DEF shot
  <2>2. SameRoster(Broadcast(shot, layers, [type |-> "Spawn"]), shot)
    BY <2>1, SendingOK
  <2>3. SameRoster(Broadcast(shot, layers, [type |-> "Spawn"]), state)
    BY <2>1, <2>2 DEF SameRoster
  <2> QED BY <1>1, <2>3 DEF ReadsAttack, shot
<1> QED BY <1>1, <1>2, <1>3 DEF HandleMessages

-----------------------------------------------------------------------------
\* The two ways of sending, client by client.
Broadcasts(new, old, layers, message) ==
  /\ ProgramOK(new) /\ new.view = old.view /\ new.panicked = old.panicked
  /\ new.projectile = old.projectile /\ DOMAIN new.sent = Ids
  /\ \A id \in Ids : id \in ClientsId(layers.server) =>
                       new.sent[id] = Append(old.sent[id], message)

SendsAll(new, old, layers, id, messages) ==
  /\ ProgramOK(new) /\ new.view = old.view /\ new.panicked = old.panicked
  /\ new.projectile = old.projectile /\ DOMAIN new.sent = Ids
  /\ id \in ClientsId(layers.server) => new.sent[id] = old.sent[id] \o messages
  /\ \A x \in Ids : x # id => new.sent[x] = old.sent[x]

LEMMA BroadcastFacts ==
  ASSUME NEW state, ProgramOK(state), NEW layers, NEW message
  PROVE  Broadcasts(Broadcast(state, layers, message), state, layers, message)
BY DEF ProgramOK, Broadcast, Broadcasts

LEMMA SendAllFacts ==
  ASSUME NEW state, ProgramOK(state), DOMAIN state.sent = Ids, NEW layers, NEW id \in Ids,
         NEW messages
  PROVE  SendsAll(SendAll(state, layers, id, messages), state, layers, id, messages)
BY DEF ProgramOK, SendAll, SendsAll

\* The state of a program in the middle of its events, for all clients.
Handles(state, layers, roster, base, fresh) ==
  /\ ProgramOK(state) /\ DOMAIN state.sent = Ids /\ state.view \subseteq Players
  /\ Host \in roster => Host \in state.view
  /\ \A id \in ClientsId(layers.server) :
       Follows(app, base[id], state.sent[id], id, roster, state.view, id \in fresh,
               state.projectile)

\* The next event is of x; the clients after are fresh after it.
Due(state, layers, roster, base, fresh, x, after) ==
  /\ ClientsId(layers.server) \subseteq Ids /\ x \in Ids
  /\ Handles(state, layers, roster, base, fresh) /\ after \subseteq fresh \cup {x}

\* What handling the event gives.
HandlesOne(new, old, layers, roster, base, after) ==
  Handles(new, layers, roster, base, after) /\ new.projectile = old.projectile

LEMMA LeftServes ==
  ASSUME NEW state, NEW layers, NEW roster, NEW base, NEW fresh, NEW x, NEW after,
         Due(state, layers, roster, base, fresh, x, after)
  PROVE  HandlesOne(Left(state, layers, x), state, layers, roster, base, after)
<1> SUFFICES ASSUME NEW new, new = Left(state, layers, x)
             PROVE  Handles(new, layers, roster, base, after) /\ new.projectile = state.projectile
  BY Zenon DEF HandlesOne
<1> DEFINE left == [state EXCEPT !.view = @ \ {x}]
<1>0. /\ ClientsId(layers.server) \subseteq Ids /\ x \in Ids
      /\ Handles(state, layers, roster, base, fresh) /\ after \subseteq fresh \cup {x}
  BY DEF Due
<1>1. /\ ProgramOK(left) /\ left.view = state.view \ {x} /\ left.sent = state.sent
      /\ left.projectile = state.projectile
  BY <1>0 DEF Handles, ProgramOK
<1>2. new = Broadcast(left, layers, Leaves(x))
  BY <1>0 DEF Left
<1> HIDE DEF left
<1>3. /\ ProgramOK(new) /\ new.view = left.view /\ new.projectile = left.projectile
      /\ DOMAIN new.sent = Ids
      /\ \A id \in Ids : id \in ClientsId(layers.server) =>
                           new.sent[id] = Append(left.sent[id], Leaves(x))
  <2>1. Broadcasts(new, left, layers, Leaves(x))
    BY <1>0, <1>1, <1>2, BroadcastFacts, Zenon
  <2> QED BY <1>0, <2>1, Zenon DEF Broadcasts
<1>4. x \in Players /\ x # Host
  BY <1>0, AppsAssumption DEF Players
<1>5. ASSUME NEW id \in ClientsId(layers.server)
      PROVE  Follows(app, base[id], new.sent[id], id, roster, new.view, id \in after,
                     new.projectile)
  <2>1. Follows(app, base[id], state.sent[id], id, roster, state.view, id \in fresh,
                state.projectile)
    BY <1>0, Zenon DEF Handles
  <2>2. x # id /\ id \in after => id \in fresh
    BY <1>0
  <2>3. Follows(app, base[id], Append(state.sent[id], Leaves(x)), id, roster, state.view \ {x},
                id \in after, state.projectile)
    BY <1>0, <1>4, <2>1, <2>2, FollowsLeaves, Zenon
  <2> QED BY <1>0, <1>1, <1>3, <2>3, Zenon
<1> QED BY <1>0, <1>1, <1>3, <1>4, <1>5, Zenon DEF Handles

LEMMA ChatConnectedServes ==
  ASSUME NEW state, NEW layers, NEW roster, NEW base, NEW fresh, NEW x, NEW after,
         Due(state, layers, roster, base, fresh, x, after), app = "chat", x \in layers.netcode
  PROVE  HandlesOne(ChatConnected(state, layers, x), state, layers, roster, base, after)
<1> SUFFICES ASSUME NEW new, new = ChatConnected(state, layers, x)
             PROVE  Handles(new, layers, roster, base, after) /\ new.projectile = state.projectile
  BY Zenon DEF HandlesOne
<1> DEFINE joined == [state EXCEPT !.view = @ \cup {x}]
           told == Broadcast(joined, layers, Joins(x))
           init == << [type |-> "InitClient", players |-> state.view \cup {x}] >>
<1>0. /\ ClientsId(layers.server) \subseteq Ids /\ x \in Ids
      /\ Handles(state, layers, roster, base, fresh) /\ after \subseteq fresh \cup {x}
  BY Zenon DEF Due
<1>1. /\ ProgramOK(joined) /\ joined.view = state.view \cup {x} /\ joined.sent = state.sent
      /\ joined.projectile = state.projectile
  BY <1>0 DEF Handles, ProgramOK
<1>2. new = SendAll(told, layers, x, init)
  BY <1>0 DEF ChatConnected
<1> HIDE DEF joined
<1>3. /\ ProgramOK(told) /\ told.view = joined.view /\ told.projectile = joined.projectile
      /\ DOMAIN told.sent = Ids
      /\ \A id \in Ids : id \in ClientsId(layers.server) =>
                           told.sent[id] = Append(joined.sent[id], Joins(x))
  <2>1. Broadcasts(told, joined, layers, Joins(x))
    BY <1>0, <1>1, BroadcastFacts, Zenon
  <2> HIDE DEF told
  <2> QED BY <1>0, <2>1, Zenon DEF Broadcasts
<1> HIDE DEF told, init
<1>4. /\ ProgramOK(new) /\ new.view = told.view /\ new.projectile = told.projectile
      /\ DOMAIN new.sent = Ids
      /\ x \in ClientsId(layers.server) => new.sent[x] = told.sent[x] \o init
      /\ \A id \in Ids : id # x => new.sent[id] = told.sent[id]
  <2>1. SendsAll(new, told, layers, x, init)
    BY <1>0, <1>2, <1>3, SendAllFacts, Zenon
  <2> QED BY <1>0, <2>1, Zenon DEF SendsAll
<1>5. x \in Players /\ state.view \in SUBSET Players
  BY <1>0, Zenon DEF Players, Handles
<1>6. ASSUME NEW id \in ClientsId(layers.server)
      PROVE  Follows(app, base[id], new.sent[id], id, roster, new.view, id \in after,
                     new.projectile)
  <2>1. Follows(app, base[id], state.sent[id], id, roster, state.view, id \in fresh,
                state.projectile)
    BY <1>0, Zenon DEF Handles
  <2>2. CASE id = x
    <3>1. Follows("chat", base[x], Append(state.sent[x], Joins(x)) \o init, x, roster,
                  state.view \cup {x}, x \in after, state.projectile)
      BY <1>0, <1>5, <2>1, <2>2, FollowsInit, Zenon DEF init
    <3> QED BY <1>0, <1>1, <1>3, <1>4, <2>2, <3>1, Zenon
  <2>3. CASE id # x
    <3>1. id \in after => id \in fresh
      BY <1>0, <2>3
    <3>2. Follows(app, base[id], Append(state.sent[id], Joins(x)), id, roster,
                  state.view \cup {x}, id \in after, state.projectile)
      BY <1>0, <1>5, <2>1, <2>3, <3>1, FollowsJoins, Zenon
    <3> QED BY <1>0, <1>1, <1>3, <1>4, <2>3, <3>2, Zenon
  <2> QED BY <1>0, <2>2, <2>3, Zenon
<1> QED BY <1>0, <1>1, <1>3, <1>4, <1>5, <1>6, Zenon DEF Handles

\* The game, with the players P its query finds, and the example.
Welcome(state, layers, x, P) ==
  Broadcast([SendAll(state, layers, x, JoinsAll(P)) EXCEPT !.view = @ \cup {x}], layers, Joins(x))

LEMMA ConnectedServes ==
  ASSUME NEW state, NEW layers, NEW roster, NEW base, NEW fresh, NEW x, NEW after,
         Due(state, layers, roster, base, fresh, x, after),
         NEW P \in SUBSET Players, app # "game" => P \subseteq state.view,
         roster \subseteq P \/ state.view \subseteq P
  PROVE  HandlesOne(Welcome(state, layers, x, P), state, layers, roster, base, after)
<1> SUFFICES ASSUME NEW new, new = Welcome(state, layers, x, P)
             PROVE  Handles(new, layers, roster, base, after) /\ new.projectile = state.projectile
  BY Zenon DEF HandlesOne
<1> DEFINE told == SendAll(state, layers, x, JoinsAll(P))
           joined == [told EXCEPT !.view = @ \cup {x}]
<1>0. /\ ClientsId(layers.server) \subseteq Ids /\ x \in Ids
      /\ Handles(state, layers, roster, base, fresh) /\ after \subseteq fresh \cup {x}
  BY Zenon DEF Due
<1>1. /\ ProgramOK(told) /\ told.view = state.view /\ told.projectile = state.projectile
      /\ x \in ClientsId(layers.server) => told.sent[x] = state.sent[x] \o JoinsAll(P)
      /\ \A id \in Ids : id # x => told.sent[id] = state.sent[id]
  <2>1. ProgramOK(state) /\ DOMAIN state.sent = Ids
    BY <1>0, Zenon DEF Handles
  <2>2. SendsAll(told, state, layers, x, JoinsAll(P))
    BY <1>0, <2>1, SendAllFacts, Zenon
  <2> HIDE DEF told
  <2> QED BY <1>0, <2>2, Zenon DEF SendsAll
<1> HIDE DEF told
<1>2. /\ ProgramOK(joined) /\ joined.view = state.view \cup {x} /\ joined.sent = told.sent
      /\ joined.projectile = state.projectile
  BY <1>0, <1>1 DEF ProgramOK
<1>3. new = Broadcast(joined, layers, Joins(x))
  BY <1>0 DEF told, Welcome
<1> HIDE DEF joined
<1>4. /\ ProgramOK(new) /\ new.view = joined.view /\ new.projectile = joined.projectile
      /\ DOMAIN new.sent = Ids
      /\ \A id \in Ids : id \in ClientsId(layers.server) =>
                           new.sent[id] = Append(joined.sent[id], Joins(x))
  <2>1. Broadcasts(new, joined, layers, Joins(x))
    BY <1>0, <1>2, <1>3, BroadcastFacts, Zenon
  <2> QED BY <1>0, <2>1, Zenon DEF Broadcasts
<1>5. x \in Players /\ state.view \in SUBSET Players
  BY <1>0, Zenon DEF Players, Handles
<1>6. ASSUME NEW id \in ClientsId(layers.server)
      PROVE  Follows(app, base[id], new.sent[id], id, roster, new.view, id \in after,
                     new.projectile)
  <2>1. Follows(app, base[id], state.sent[id], id, roster, state.view, id \in fresh,
                state.projectile)
    BY <1>0, Zenon DEF Handles
  <2>2. CASE id = x
    <3>1. Follows(app, base[x], Append(state.sent[x] \o JoinsAll(P), Joins(x)), x, roster,
                  state.view \cup {x}, x \in after, state.projectile)
      BY <1>0, <1>5, <2>1, <2>2, FollowsJoinsAll, Zenon
    <3> QED BY <1>0, <1>1, <1>2, <1>4, <2>2, <3>1, Zenon
  <2>3. CASE id # x
    <3>1. id \in after => id \in fresh
      BY <1>0, <2>3, Zenon
    <3>2. Follows(app, base[id], Append(state.sent[id], Joins(x)), id, roster,
                  state.view \cup {x}, id \in after, state.projectile)
      BY <1>0, <1>5, <2>1, <2>3, <3>1, FollowsJoins, Zenon
    <3> QED BY <1>0, <1>1, <1>2, <1>4, <2>3, <3>2, Zenon
  <2> QED BY <1>0, <2>2, <2>3, Zenon
<1> QED BY <1>0, <1>2, <1>4, <1>5, <1>6, Zenon DEF Handles

Happens(state, layers, roster, base, fresh, event, after) ==
  /\ event \in Events /\ roster \in SUBSET Players /\ ~ state.panicked
  /\ Due(state, layers, roster, base, fresh, event.id, after)

LEMMA HandleEventServes ==
  ASSUME NEW state, NEW layers, NEW roster, NEW base, NEW fresh, NEW event, NEW after,
         Happens(state, layers, roster, base, fresh, event, after),
         ~ HandleEvent(state, layers, event, roster).panicked
  PROVE  HandlesOne(HandleEvent(state, layers, event, roster), state, layers, roster, base, after)
<1> DEFINE new == HandleEvent(state, layers, event, roster)
<1>0. /\ roster \in SUBSET Players /\ ~ state.panicked
      /\ Due(state, layers, roster, base, fresh, event.id, after)
  BY DEF Happens
<1>1. event.type \in {"ClientConnected", "ClientDisconnected"}
      /\ ProgramOK(state) /\ state.view \in SUBSET Players
  BY Zenon DEF Events, Handles, Due, Happens
<1>2. CASE event.type = "ClientDisconnected"
  <2>1. new = Left(state, layers, event.id)
    BY <1>0, <1>2 DEF HandleEvent
  <2>2. HandlesOne(Left(state, layers, event.id), state, layers, roster, base, after)
    BY <1>0, LeftServes, Zenon
  <2> QED BY <2>1, <2>2, Zenon
<1>3. CASE event.type # "ClientDisconnected" /\ app = "chat"
  <2>1. new = ChatConnected(state, layers, event.id)
    BY <1>0, <1>3 DEF HandleEvent
  <2>2. event.id \in layers.netcode
    BY <1>0, <1>1, <2>1 DEF ChatConnected, ProgramOK
  <2>3. HandlesOne(ChatConnected(state, layers, event.id), state, layers, roster, base, after)
    BY <1>0, <1>3, <2>2, ChatConnectedServes, Zenon
  <2> QED BY <2>1, <2>3, Zenon
<1>4. CASE event.type # "ClientDisconnected" /\ app = "game"
  <2>1. new = Welcome(state, layers, event.id, roster)
    BY <1>0, <1>4 DEF HandleEvent, GameConnected, Welcome
  <2>2. HandlesOne(Welcome(state, layers, event.id, roster), state, layers, roster, base, after)
    BY <1>0, <1>4, ConnectedServes, Zenon
  <2> QED BY <2>1, <2>2, Zenon
<1>5. CASE event.type # "ClientDisconnected" /\ app # "chat" /\ app # "game"
  <2>1. new = Welcome(state, layers, event.id, state.view)
    BY <1>0, <1>5 DEF HandleEvent, SimpleConnected, Welcome
  <2>2. HandlesOne(Welcome(state, layers, event.id, state.view), state, layers, roster, base,
                   after)
    BY <1>0, <1>1, <1>5, ConnectedServes, Zenon
  <2> QED BY <2>1, <2>2, Zenon
<1> QED BY <1>2, <1>3, <1>4, <1>5, Zenon

LEMMA HandleEventsServes ==
  ASSUME NEW state, NEW layers, layers.server.events \in Seq(Events),
         ClientsId(layers.server) \subseteq Ids, NEW base,
         Handles(state, layers, state.view, base, {id \in Ids : ~ Touched(layers, id)}),
         NEW new, new = HandleEvents(state, layers), ~ new.panicked
  PROVE  Handles(new, layers, state.view, base, Ids) /\ new.projectile = state.projectile
<1> DEFINE events == layers.server.events
           n == Len(events)
           roster == state.view
           Fresh(k) == {id \in Ids : ~ Touched(layers, id) \/ \E j \in 1 .. k : events[j].id = id}
<1>1. n \in Nat /\ DOMAIN events = 1 .. n /\ \A k \in 1 .. n : events[k] \in Events
  OBVIOUS
<1>2. PICK handled : Handling(handled, state, layers) /\ new = handled[n]
  BY HandlingExists
<1>3. roster \in SUBSET Players
  BY Zenon DEF Handles
<1>4. Fresh(0) = {id \in Ids : ~ Touched(layers, id)}
  OBVIOUS
<1>5. Fresh(n) = Ids
  BY <1>1, Zenon DEF Touched
<1>6. \A k \in Nat : Fresh(k + 1) \subseteq Fresh(k) \cup {events[k + 1].id}
  <2> TAKE k \in Nat
  <2>1. 1 .. k + 1 = (1 .. k) \cup {k + 1}
    OBVIOUS
  <2> QED BY <2>1
<1> DEFINE Done(k) == \/ handled[k].panicked
                      \/ /\ Handles(handled[k], layers, roster, base, Fresh(k))
                         /\ handled[k].projectile = state.projectile
           S == {k \in Nat : k <= n => Done(k)}
<1>7. Done(0)
  BY <1>2, <1>4, Zenon DEF Handling
<1> HIDE DEF Fresh, n
<1>8. ASSUME NEW k \in Nat, k + 1 <= n, Done(k) PROVE Done(k + 1)
  <2>1. k + 1 \in 1 .. n /\ (k + 1) - 1 = k
    BY <1>1, <1>8
  <2>2. handled[k + 1] = HandleEvent(handled[k], layers, events[k + 1], roster)
    BY <1>2, <2>1, Zenon DEF Handling, n
  <2>3. CASE handled[k].panicked
    BY <2>2, <2>3, Zenon DEF HandleEvent
  <2>4. CASE ~ handled[k].panicked /\ ~ handled[k + 1].panicked
    <3>1. events[k + 1] \in Events
      BY <1>1, <2>1
    <3>2. Fresh(k + 1) \in SUBSET (Fresh(k) \cup {events[k + 1].id})
      BY <1>6, Zenon
    <3> HIDE DEF events, roster
    <3>3. /\ Handles(handled[k], layers, roster, base, Fresh(k))
          /\ handled[k].projectile = state.projectile
      BY <1>8, <2>4, Zenon
    <3>4. Happens(handled[k], layers, roster, base, Fresh(k), events[k + 1], Fresh(k + 1))
      BY <1>3, <2>4, <3>1, <3>2, <3>3, Zenon DEF Due, Events, Happens
    <3>5. HandlesOne(HandleEvent(handled[k], layers, events[k + 1], roster), handled[k], layers,
                     roster, base, Fresh(k + 1))
      BY <2>2, <2>4, <3>4, HandleEventServes, Zenon
    <3> QED BY <2>2, <3>3, <3>5, Zenon DEF HandlesOne
  <2> QED BY <2>3, <2>4, Zenon
<1> HIDE DEF Done
<1>9. 0 \in S /\ \A k \in Nat : k \in S => k + 1 \in S
  <2>1. 0 \in S
    BY <1>7
  <2>2. ASSUME NEW k \in Nat, k \in S, k + 1 <= n PROVE Done(k + 1)
    <3>1. k <= n
      BY <1>1, <2>2
    <3> QED BY <1>8, <2>2, <3>1, SMTT(20)
  <2> QED BY <2>1, <2>2
<1> HIDE DEF S
<1>10. n \in S
  BY <1>1, <1>9, SetInduction, SMTT(20)
<1>11. Done(n)
  BY <1>1, <1>10 DEF S
<1> QED BY <1>2, <1>5, <1>11, Zenon DEF Done

ServesAll(state, layers, base) ==
  \A id \in ClientsId(layers.server) :
    Serves(app, base[id], state.sent[id], state.view, state.projectile)

LEMMA HandleMessagesServes ==
  ASSUME NEW state, ProgramOK(state), DOMAIN state.sent = Ids, state.view \in SUBSET Players,
         NEW layers, ClientsId(layers.server) \subseteq Ids,
         ClientsId(layers.server) \subseteq state.view, NEW base, ServesAll(state, layers, base),
         app \in {"chat", "game", "simple"}, state.projectile => app = "game", NEW from,
         NEW new, new = HandleMessages(state, layers, from)
  PROVE  /\ DOMAIN new.sent = Ids /\ new.view = state.view /\ ServesAll(new, layers, base)
         /\ new.projectile => app = "game"
<1>1. CASE new = state
  BY <1>1
<1>2. CASE app = "chat" /\ from \in ClientsId(layers.server)
  <2> DEFINE m == [type |-> "Says", id |-> from]
  <2>1. new = Broadcast(state, layers, m)
    BY <1>2 DEF HandleMessages, ReadsText
  <2>2. Broadcasts(new, state, layers, m)
    BY <2>1, BroadcastFacts, Zenon
  <2>3. ASSUME NEW id \in ClientsId(layers.server)
        PROVE  Serves(app, base[id], new.sent[id], new.view, new.projectile)
    <3>1. Serves("chat", base[id], state.sent[id], state.view, state.projectile)
      BY <1>2, Zenon DEF ServesAll
    <3>2. from \in state.view
      BY <1>2
    <3>3. Serves("chat", base[id], Append(state.sent[id], m), state.view, state.projectile)
      BY <3>1, <3>2, ServesSays, Zenon
    <3> HIDE DEF m
    <3> QED BY <1>2, <2>2, <3>3, Zenon DEF Broadcasts
  <2> HIDE DEF m
  <2> QED BY <1>2, <2>2, <2>3, Zenon DEF ServesAll, Broadcasts
<1>3. CASE app = "game" /\ new # state
  <2> DEFINE shot == [state EXCEPT !.projectile = TRUE]
             m == [type |-> "Spawn"]
  <2>1. new = Broadcast(shot, layers, m)
    BY <1>3 DEF HandleMessages, ReadsAttack
  <2>2. /\ ProgramOK(shot) /\ shot.view = state.view /\ shot.sent = state.sent
        /\ shot.projectile = TRUE
    BY DEF ProgramOK
  <2> HIDE DEF shot
  <2>3. Broadcasts(new, shot, layers, m)
    BY <2>1, <2>2, BroadcastFacts, Zenon
  <2>4. ASSUME NEW id \in ClientsId(layers.server)
        PROVE  Serves(app, base[id], new.sent[id], new.view, new.projectile)
    <3>1. Serves("game", base[id], state.sent[id], state.view, state.projectile)
      BY <1>3, Zenon DEF ServesAll
    <3>2. Serves("game", base[id], Append(state.sent[id], m), state.view, TRUE)
      BY <3>1, ServesProjectile, Zenon
    <3> HIDE DEF m
    <3> QED BY <1>3, <2>2, <2>3, <3>2, Zenon DEF Broadcasts
  <2> HIDE DEF m
  <2> QED BY <1>3, <2>2, <2>3, <2>4, Zenon DEF ServesAll, Broadcasts
<1> QED BY <1>1, <1>2, <1>3, Zenon DEF HandleMessages

-----------------------------------------------------------------------------
IInv == Told(view, server) /\ LayersAgree

LEMMA LayersFacts == IInv => LayersOK(view, ClientsId(server), Layers)
BY DEF IInv, LayersAgree, LayersOK, Layers, Kept

LEMMA NewServerOK ==
  ASSUME server' = NewRenetServer, netcode' = {}, view' = NewView
  PROVE  IInv'
<1>1. /\ DOMAIN NewRenetServer = {"connections", "events"}
      /\ NewRenetServer.events = <<>> /\ DOMAIN NewRenetServer.connections = {}
  BY DEF NewRenetServer
<1>2. NewView \cap Ids = {}
  BY AppsAssumption DEF NewView
<1>3. Told(view', server')
  BY <1>1, <1>2, DrainedOK
<1> QED BY <1>1, <1>3 DEF IInv, LayersAgree

LEMMA InitIInv == Init => IInv
<1> SUFFICES ASSUME Init PROVE IInv
  OBVIOUS
<1>1. server = NewRenetServer /\ netcode = {} /\ view = NewView
  BY DEF Init
<1>2. /\ DOMAIN NewRenetServer = {"connections", "events"}
      /\ NewRenetServer.events = <<>> /\ DOMAIN NewRenetServer.connections = {}
  BY DEF NewRenetServer
<1>3. NewView \cap Ids = {}
  BY AppsAssumption DEF NewView
<1>4. Told(view, server)
  BY <1>1, <1>2, <1>3, DrainedOK
<1> QED BY <1>1, <1>2, <1>4 DEF IInv, LayersAgree

\* A step that leaves the two layers, and what the application knows, in order.
LEMMA BecomesOK ==
  ASSUME NEW layers, LayersOK(view, ClientsId(server), layers), Becomes(layers), view' = view
  PROVE  IInv'
BY DEF LayersOK, Becomes, IInv, LayersAgree

LEMMA UpdatedOK ==
  ASSUME IInv, NEW arrivals \in Arrivals, NEW timed_out, NEW order \in Orders
  PROVE  LayersOK(view, ClientsId(server), Updated(arrivals, timed_out, order))
<1> DEFINE updated == DropAll(Received(Layers, arrivals), timed_out, order)
<1>1. LayersOK(view, ClientsId(server), Received(Layers, arrivals))
  BY LayersFacts, ReceivedOK
<1>2. LayersOK(view, ClientsId(server), updated)
  BY <1>1, DropAllOK
<1>3. Updated(arrivals, timed_out, order) = DropAll(updated, DisconnectionsId(updated.server), order)
  BY DEF Updated
<1> HIDE DEF updated
<1> QED BY <1>2, <1>3, DropAllOK

\* A step of the server's connections alone.
LEMMA DisconnectStep ==
  ASSUME IInv, NEW ids, NEW reason, server' = DisconnectWithReason(server, ids, reason),
         netcode' = netcode, view' = view
  PROVE  IInv'
<1>1. Told(view, server') /\ DOMAIN server'.connections = DOMAIN server.connections
  BY DisconnectOK DEF IInv
<1> QED BY <1>1 DEF IInv, LayersAgree

LEMMA LocalStep ==
  ASSUME IInv, NEW id \in LocalIds, netcode' = netcode, view' = view,
         server' \in {server, AddConnection(server, id), RemoveConnection(server, id)}
  PROVE  IInv'
<1>1. id \in Ids /\ Told(view, server)
  BY IdsAssumption DEF IInv
<1>2. Told(view, server') /\ DOMAIN server'.connections \ LocalIds = DOMAIN server.connections \ LocalIds
  BY <1>1, AddConnectionOK, RemoveConnectionOK
<1> QED BY <1>2 DEF IInv, LayersAgree

LEMMA TransportStep == IInv /\ TransportNext => IInv'
<1> SUFFICES ASSUME IInv, TransportNext PROVE IInv'
  OBVIOUS
<1>1. CASE Updates
  BY <1>1, UpdatedOK, BecomesOK DEF Updates, Update
<1>2. CASE \E arrivals \in Arrivals : UpdateFails(arrivals)
  BY <1>2, LayersFacts, ReceivedOK, BecomesOK DEF UpdateFails
<1>3. CASE \E order \in Orders : TransportDisconnectAll(order)
  BY <1>3, LayersFacts, DropAllOK, BecomesOK DEF TransportDisconnectAll
<1>4. CASE \E ids \in (SUBSET Ids) \ {{}} : SendFails(ids) \/ Kick(ids)
  BY <1>4, DisconnectStep DEF SendFails, Kick
<1>5. CASE GetEvent
  <2>1. Told(view', server') /\ netcode' = netcode
    BY <1>5, PopOK DEF IInv, GetEvent
  <2>2. server'.connections = server.connections
    BY <1>5 DEF IInv, Told, GetEvent
  <2> QED BY <2>1, <2>2 DEF IInv, LayersAgree
<1>6. ASSUME NEW id \in LocalIds,
             \/ NewLocalClient(id) \/ DisconnectLocalClient(id) \/ LocalClientDisconnects(id)
      PROVE  IInv'
  BY <1>6, LocalStep DEF NewLocalClient, DisconnectLocalClient, LocalClientDisconnects
<1>7. ASSUME NEW id \in LocalIds, NEW c \in BOOLEAN, NEW s \in BOOLEAN, ProcessLocalClient(id, c, s)
      PROVE  IInv'
  <2>1. netcode' = netcode /\ view' = view
        /\ (server' = server \/ server' = DisconnectWithReason(server, {id}, "Error"))
    BY <1>7 DEF ProcessLocalClient
  <2> QED BY <2>1, LocalStep, DisconnectStep
<1> QED BY <1>1, <1>2, <1>3, <1>4, <1>5, <1>6, <1>7 DEF TransportNext

\* The second half of a frame: the program takes all events, then the messages.
LEMMA FrameEndsOK ==
  ASSUME NEW layers, LayersOK(view, ClientsId(server), layers), NEW from,
         FrameEnds(HandleMessages(HandleEvents(Before(layers), layers), layers, from), layers)
  PROVE  IInv'
<1> DEFINE before == Before(layers)
           handled == HandleEvents(before, layers)
           state == HandleMessages(handled, layers, from)
<1>1. ProgramOK(before) /\ before.view = view
  BY Zenon DEF Before, ProgramOK
<1>2. Told(view, layers.server) /\ layers.netcode = DOMAIN layers.server.connections \ LocalIds
  BY Zenon DEF LayersOK
<1> HIDE DEF before
<1>3. /\ ProgramOK(handled)
      /\ handled.panicked \/ handled.view \cap Ids = DOMAIN layers.server.connections
  BY <1>1, <1>2, HandleEventsOK, Zenon
<1> HIDE DEF handled
<1>4. SameRoster(state, handled)
  BY <1>3, HandleMessagesOK, Zenon
<1>5. FrameEnds(state, layers)
  BY DEF handled, before
<1> HIDE DEF state
<1>6. CASE state.panicked
  BY <1>5, <1>6, NewServerOK DEF FrameEnds, Panics
<1>7. CASE ~ state.panicked
  <2>1. /\ server' = [layers.server EXCEPT !.events = <<>>] /\ netcode' = layers.netcode
        /\ view' = state.view
    BY <1>5, <1>7 DEF FrameEnds
  <2>2. /\ DOMAIN server' = {"connections", "events"} /\ server'.events = <<>>
        /\ server'.connections = layers.server.connections
    BY <1>2, <2>1 DEF Told
  <2>3. view' \cap Ids = DOMAIN server'.connections
    BY <1>3, <1>4, <1>7, <2>1, <2>2 DEF SameRoster
  <2>4. Told(view', server')
    BY <2>2, <2>3, DrainedOK, Zenon
  <2> QED BY <1>2, <2>1, <2>2, <2>4 DEF IInv, LayersAgree
<1> QED BY <1>6, <1>7

LEMMA NextIInv == IInv /\ [Next]_vars => IInv'
<1> SUFFICES ASSUME IInv, [Next]_vars PROVE IInv'
  OBVIOUS
<1>0. ASSUME UNCHANGED transportVars PROVE IInv'
  BY <1>0 DEF IInv, LayersAgree, transportVars
<1>1. CASE AnyCall
  BY <1>1, TransportStep DEF AnyCall
<1>2. CASE Frames
  BY <1>2, UpdatedOK, FrameEndsOK DEF Frames, Frame
<1>3. CASE \E arrivals \in Arrivals, from \in RemoteIds : FrameFails(arrivals, from)
  <2>1. PICK arrivals \in Arrivals, from \in RemoteIds : FrameFails(arrivals, from)
    BY <1>3
  <2>2. LayersOK(view, ClientsId(server), Received(Layers, arrivals))
    BY LayersFacts, ReceivedOK
  <2>3. CASE Panics
    BY <2>3, NewServerOK DEF Panics
  <2> QED BY <2>1, <2>2, <2>3, FrameEndsOK DEF FrameFails
<1>4. CASE HostSays \/ BotAutocast \/ ProjectileRemoved \/ Restart
           \/ \E id \in RemoteIds : ReceiveMessage(id)
  BY <1>0, <1>4, Zenon DEF HostSays, BotAutocast, ProjectileRemoved, Restart, ReceiveMessage
<1>5. CASE SpawnBot
  <2>1. view' = view \cup {Bot} /\ server' = server /\ netcode' = netcode
    BY <1>5 DEF SpawnBot
  <2>2. Told(view', server')
    BY <2>1, AppsAssumption, OtherPlayerOK DEF IInv
  <2> QED BY <2>1, <2>2 DEF IInv, LayersAgree
<1>6. CASE \E id \in RemoteIds : HostKicks(id) \/ SendFailsIn(id)
  BY <1>6, DisconnectStep DEF HostKicks, SendFailsIn, Kick, SendFails
<1>7. CASE UNCHANGED vars
  BY <1>0, <1>7 DEF vars
<1> QED BY <1>1, <1>2, <1>3, <1>4, <1>5, <1>6, <1>7 DEF Next

(***************************************************************************)
(* Whatever a program does, and whatever packets, timeouts and socket      *)
(* errors it meets: handle_server_result keeps the RenetServer and the     *)
(* NetcodeServer in step, through every early return of update.            *)
(***************************************************************************)
THEOREM TransportLayersAgree == Spec => []LayersAgree
<1>1. IInv => LayersAgree
  BY DEF IInv
<1> QED BY <1>1, InitIInv, NextIInv, PTL DEF Spec

(***************************************************************************)
(* The events of a RenetServer, however many of them wait, tell a program  *)
(* of every client once when it comes and once when it goes: an event is   *)
(* pushed where a connection enters or leaves the map, and nowhere else.   *)
(***************************************************************************)
THEOREM EventsAreTrue == Spec => []EventsTellTheTruth
<1>1. IInv => EventsTellTheTruth
  BY ToldIsTheTruth DEF IInv
<1> QED BY <1>1, InitIInv, NextIInv, PTL DEF Spec

-----------------------------------------------------------------------------
(***************************************************************************)
(* The rosters of a program that works in frames, between its frames.  The *)
(* program that makes any call sends no messages of its own.               *)
(***************************************************************************)
Rosters ==
  /\ app \in Apps
  /\ app = "any" => sent = [id \in Ids |-> <<>>] /\ replica = [id \in Ids |-> NewReplica]
  /\ app # "any" =>
       /\ server.events = <<>> /\ DOMAIN sent = Ids /\ DOMAIN replica = Ids
       /\ view \subseteq Players /\ (app = "chat" => Host \in view) /\ (projectile => app = "game")
       /\ \A id \in ClientsId(server) : Serves(app, replica[id], sent[id], view, projectile)

LEMMA ClientsFacts ==
  ASSUME IInv
  PROVE  /\ DOMAIN server = {"connections", "events"} /\ ClientsId(server) \subseteq Ids
         /\ server.events = <<>> => ClientsId(server) \subseteq view
<1>1. DOMAIN server = {"connections", "events"} /\ DOMAIN server.connections \subseteq Ids
  BY DEF IInv, Told
<1>2. ASSUME server.events = <<>> PROVE DOMAIN server.connections \subseteq view
  <2>1. Len(server.events) = 0
    BY <1>2
  <2> QED BY <2>1 DEF IInv, Told, Replays
<1> QED BY <1>1, <1>2 DEF ClientsId

LEMMA NewViewFacts == NewView \subseteq Players /\ (app = "chat" => Host \in NewView)
BY SMTT(20) DEF NewView, Players

LEMMA InitRosters == Init => Rosters
<1> SUFFICES ASSUME Init PROVE Rosters
  OBVIOUS
<1>1. server.events = <<>> /\ ClientsId(server) = {}
  BY DEF Init, NewRenetServer, ClientsId
<1> QED BY <1>1, NewViewFacts DEF Init, Rosters

LEMMA PanicsRosters ==
  ASSUME Rosters, app # "any", Panics
  PROVE  Rosters'
<1>1. server'.events = <<>> /\ ClientsId(server') = {}
  BY DEF Panics, NewRenetServer, ClientsId
<1> QED BY <1>1, NewViewFacts, Zenon DEF Panics, Rosters

\* A frame.
LEMMA FrameRosters ==
  ASSUME Rosters, app # "any", NEW layers, LayersOK(view, ClientsId(server), layers), NEW from,
         FrameEnds(HandleMessages(HandleEvents(Before(layers), layers), layers, from), layers)
  PROVE  Rosters'
<1> DEFINE before == Before(layers)
           handled == HandleEvents(before, layers)
           state == HandleMessages(handled, layers, from)
           base == [id \in Ids |-> IF Touched(layers, id) THEN NewReplica ELSE replica[id]]
           clients == ClientsId(layers.server)
           old == {id \in Ids : ~ Touched(layers, id)}
<1>1. /\ app \in {"chat", "game", "simple"} /\ app \in Apps /\ view \in SUBSET Players
      /\ app = "chat" => Host \in view
      /\ projectile => app = "game"
      /\ \A id \in ClientsId(server) : Serves(app, replica[id], sent[id], view, projectile)
  BY AppsAssumption, Zenon DEF Rosters
<1>2. /\ Told(view, layers.server) /\ layers.server.events \in Seq(Events)
      /\ DOMAIN layers.server = {"connections", "events"}
      /\ DOMAIN layers.server.connections \subseteq Ids
  BY Zenon DEF LayersOK, Told
<1>3. clients \subseteq DOMAIN layers.server.connections /\ clients \subseteq Ids
  BY <1>2, Zenon DEF ClientsId
<1>4. \A id \in clients : id \in ClientsId(server) \/ Touched(layers, id)
  BY Zenon DEF LayersOK, Kept, Touched
<1>5. /\ ProgramOK(before) /\ before.view = view /\ ~ before.panicked
      /\ before.projectile = projectile /\ DOMAIN before.sent = Ids
      /\ \A id \in Ids : before.sent[id] = IF Touched(layers, id) THEN <<>> ELSE sent[id]
  BY Zenon DEF Before, ProgramOK
<1>6. \A id \in Ids : base[id] = IF Touched(layers, id) THEN NewReplica ELSE replica[id]
  OBVIOUS
<1>7. FrameEnds(state, layers)
  OBVIOUS
<1>8. \A id \in Ids : id \in old <=> ~ Touched(layers, id)
  OBVIOUS
<1> HIDE DEF before, base, clients, old
<1>9. Handles(before, layers, view, base, old)
  <2>1. ASSUME NEW id \in clients
        PROVE  Follows(app, base[id], before.sent[id], id, view, view, id \in old, projectile)
    <3>1. CASE Touched(layers, id)
      <4>1. base[id] = NewReplica /\ before.sent[id] = <<>> /\ ~ (id \in old)
        BY <1>3, <1>5, <1>6, <1>8, <3>1, Zenon
      <4> QED BY <4>1, NewFollows, Zenon
    <3>2. CASE ~ Touched(layers, id)
      <4>1. Serves(app, replica[id], sent[id], view, projectile)
        BY <1>1, <1>4, <3>2, Zenon
      <4>2. base[id] = replica[id] /\ before.sent[id] = sent[id]
        BY <1>3, <1>5, <1>6, <3>2, Zenon
      <4> QED BY <4>1, <4>2, ServesFollows, Zenon
    <3> QED BY <3>1, <3>2, Zenon
  <2> QED BY <1>1, <1>5, <2>1, Zenon DEF Handles, clients
<1>10. /\ ProgramOK(handled)
       /\ handled.panicked \/ handled.view \cap Ids = DOMAIN layers.server.connections
  BY <1>2, <1>5, HandleEventsOK, Zenon
<1> HIDE DEF handled
<1>11. SameRoster(state, handled)
  BY <1>10, HandleMessagesOK, Zenon
<1>12. CASE handled.panicked
  <2>1. state.panicked
    BY <1>11, <1>12, Zenon DEF SameRoster
  <2> QED BY <1>7, <2>1, PanicsRosters DEF FrameEnds
<1>13. CASE ~ handled.panicked
  <2>1. Handles(handled, layers, view, base, Ids) /\ handled.projectile = projectile
    <3>1. Handles(before, layers, before.view, base, {id \in Ids : ~ Touched(layers, id)})
      BY <1>5, <1>9, Zenon DEF old
    <3> QED BY <1>2, <1>3, <1>5, <1>13, <3>1, HandleEventsServes, Zenon DEF handled, clients
  <2>2. clients \subseteq handled.view
    BY <1>3, <1>10, <1>13
  <2>3. ServesAll(handled, layers, base)
    <3> SUFFICES ASSUME NEW id \in clients
                 PROVE  Serves(app, base[id], handled.sent[id], handled.view, handled.projectile)
      BY Zenon DEF ServesAll, clients
    <3>1. Follows(app, base[id], handled.sent[id], id, view, handled.view, id \in Ids,
                  handled.projectile)
      BY <2>1, Zenon DEF Handles, clients
    <3> QED BY <1>3, <2>2, <3>1, FollowsServes, Zenon
  <2>4. DOMAIN handled.sent = Ids /\ handled.view \in SUBSET Players
        /\ (Host \in view => Host \in handled.view)
    BY <2>1, Zenon DEF Handles
  <2>5. /\ DOMAIN state.sent = Ids /\ state.view = handled.view /\ ServesAll(state, layers, base)
        /\ state.projectile => app = "game"
    BY <1>1, <1>3, <1>10, <2>1, <2>2, <2>3, <2>4, HandleMessagesServes, Zenon DEF clients
  <2>6. ~ state.panicked
    BY <1>11, <1>13, Zenon DEF SameRoster
  <2> HIDE DEF state
  <2>7. /\ server' = [layers.server EXCEPT !.events = <<>>] /\ app' = app
        /\ view' = state.view /\ sent' = state.sent /\ projectile' = state.projectile
        /\ replica' = base
    BY <1>7, <2>6 DEF FrameEnds, base
  <2>8. server'.events = <<>> /\ ClientsId(server') = clients
    BY <1>2, <2>7 DEF ClientsId, IsDisconnected, clients
  <2>9. DOMAIN replica' = Ids
    BY <2>7 DEF base
  <2>10. \A id \in ClientsId(server') : Serves(app', replica'[id], sent'[id], view', projectile')
    BY <2>5, <2>7, <2>8 DEF ServesAll, clients
  <2> QED BY <1>1, <2>4, <2>5, <2>7, <2>8, <2>9, <2>10 DEF Rosters
<1> QED BY <1>12, <1>13

\* A message to all clients between two frames.
LEMMA BetweenFrames ==
  ASSUME IInv, Rosters, app # "any", NEW message,
         sent' = Broadcast(Before(Layers), Layers, message).sent
  PROVE  /\ DOMAIN sent' = Ids
         /\ \A id \in ClientsId(server) : sent'[id] = Append(sent[id], message)
<1> DEFINE before == Before(Layers)
           new == Broadcast(before, Layers, message)
<1>1. server.events = <<>> /\ Layers.server = server
  BY Zenon DEF Rosters, Layers
<1>2. \A id : ~ Touched(Layers, id)
  BY <1>1 DEF Touched
<1>3. ProgramOK(before) /\ \A id \in Ids : before.sent[id] = sent[id]
  BY <1>2, Zenon DEF Before, ProgramOK
<1> HIDE DEF before
<1>4. Broadcasts(new, before, Layers, message)
  BY <1>3, BroadcastFacts, Zenon
<1>5. sent' = new.sent
  BY DEF before
<1> HIDE DEF new
<1>6. DOMAIN new.sent = Ids
      /\ \A id \in Ids : id \in ClientsId(server) => new.sent[id] = Append(before.sent[id], message)
  BY <1>1, <1>4, Zenon DEF Broadcasts
<1> QED BY <1>3, <1>5, <1>6, ClientsFacts, Zenon

\* A step between frames that serves every client keeps the rosters.
LEMMA ServedRosters ==
  ASSUME Rosters, app # "any", app' = app, server' = server, replica' = replica,
         DOMAIN sent' = Ids, view' \subseteq Players, view \subseteq view', projectile' => app = "game",
         \A id \in ClientsId(server) : Serves(app, replica[id], sent'[id], view', projectile')
  PROVE  Rosters'
BY Zenon DEF Rosters

\* A client is disconnected between frames.
LEMMA DisconnectRosters ==
  ASSUME IInv, Rosters, app # "any", NEW ids, NEW reason, reason # "Connected",
         server' = DisconnectWithReason(server, ids, reason), UNCHANGED <<view, appVars>>
  PROVE  Rosters'
<1>1. server'.events = server.events /\ ClientsId(server') \subseteq ClientsId(server)
  BY DisconnectClients DEF IInv
<1> QED BY <1>1, Zenon DEF Rosters, appVars

LEMMA NextRosters == IInv /\ Rosters /\ [Next]_vars => Rosters'
<1> SUFFICES ASSUME IInv, Rosters, [Next]_vars PROVE Rosters'
  OBVIOUS
<1>1. CASE AnyCall
  BY <1>1, Zenon DEF AnyCall, appVars, Rosters
<1>2. CASE Frames
  <2>1. PICK arrivals \in Arrivals, timed_out \in SUBSET netcode, order \in Orders, from \in Ids :
          Frame(arrivals, timed_out, order, from)
    BY <1>2 DEF Frames
  <2>2. LayersOK(view, ClientsId(server), Updated(arrivals, timed_out, order))
    BY UpdatedOK
  <2> QED BY <2>1, <2>2, FrameRosters DEF Frame, Framed
<1>3. CASE \E arrivals \in Arrivals, from \in RemoteIds : FrameFails(arrivals, from)
  <2>1. PICK arrivals \in Arrivals, from \in RemoteIds : FrameFails(arrivals, from)
    BY <1>3
  <2>2. LayersOK(view, ClientsId(server), Received(Layers, arrivals))
    BY LayersFacts, ReceivedOK
  <2>3. app # "any"
    BY <2>1 DEF FrameFails, Framed
  <2>4. CASE Panics
    BY <2>3, <2>4, PanicsRosters
  <2> QED BY <2>1, <2>2, <2>3, <2>4, FrameRosters DEF FrameFails
<1>4. CASE HostSays
  <2> DEFINE m == [type |-> "Says", id |-> Host]
  <2>1. /\ app = "chat" /\ sent' = Broadcast(Before(Layers), Layers, m).sent
        /\ UNCHANGED <<server, view, app, replica, projectile>>
    BY <1>4 DEF HostSays, transportVars
  <2>2. /\ DOMAIN sent' = Ids
        /\ \A id \in ClientsId(server) : sent'[id] = Append(sent[id], m)
    BY <2>1, BetweenFrames
  <2>3. view \in SUBSET Players /\ Host \in view
    BY <2>1, Zenon DEF Rosters
  <2>4. ASSUME NEW id \in ClientsId(server)
        PROVE  Serves("chat", replica[id], Append(sent[id], m), view, projectile)
    <3>1. Serves("chat", replica[id], sent[id], view, projectile)
      BY <2>1, Zenon DEF Rosters
    <3> QED BY <2>3, <3>1, ServesSays, Zenon
  <2> HIDE DEF m
  <2>5. \A id \in ClientsId(server) : Serves(app, replica[id], sent'[id], view', projectile')
    BY <2>1, <2>2, <2>4, Zenon
  <2>6. projectile' => app = "game"
    BY <2>1 DEF Rosters
  <2> QED BY <2>1, <2>2, <2>3, <2>5, <2>6, ServedRosters, Zenon
<1>5. CASE SpawnBot
  <2>1. /\ app = "game" /\ sent' = Broadcast(Before(Layers), Layers, Joins(Bot)).sent
        /\ view' = view \cup {Bot} /\ UNCHANGED <<server, app, replica, projectile>>
    BY <1>5 DEF SpawnBot
  <2>2. /\ DOMAIN sent' = Ids
        /\ \A id \in ClientsId(server) : sent'[id] = Append(sent[id], Joins(Bot))
    BY <2>1, BetweenFrames
  <2>3. Bot \in Players /\ view \subseteq Players
    BY <2>1, Zenon DEF Rosters, Players
  <2>4. ASSUME NEW id \in ClientsId(server)
        PROVE  Serves(app, replica[id], sent'[id], view', projectile')
    <3>1. Serves(app, replica[id], sent[id], view, projectile)
      BY <2>1, Zenon DEF Rosters
    <3>2. Serves(app, replica[id], Append(sent[id], Joins(Bot)), view \cup {Bot}, projectile)
      BY <2>3, <3>1, ServesJoins, Zenon
    <3> QED BY <2>1, <2>2, <3>2, Zenon
  <2> QED BY <2>1, <2>2, <2>3, <2>4, ServedRosters, Zenon
<1>6. CASE BotAutocast \/ ProjectileRemoved
  <2>1. PICK x \in {"Spawn", "Despawn"} :
          /\ app # "any" /\ (x = "Spawn" => projectile')
          /\ sent' = Broadcast(Before(Layers), Layers, [type |-> x]).sent
          /\ UNCHANGED <<server, view, app, replica>> /\ app = "game"
    BY <1>6, Zenon DEF BotAutocast, ProjectileRemoved, Framed, Rosters, transportVars
  <2> DEFINE m == [type |-> x]
  <2>2. /\ DOMAIN sent' = Ids
        /\ \A id \in ClientsId(server) : sent'[id] = Append(sent[id], m)
    BY <2>1, BetweenFrames
  <2>3. ASSUME NEW id \in ClientsId(server)
        PROVE  Serves("game", replica[id], Append(sent[id], m), view, projectile')
    <3>1. Serves("game", replica[id], sent[id], view, projectile)
      BY <2>1, Zenon DEF Rosters
    <3> QED BY <2>1, <3>1, ServesProjectile, Zenon
  <2> HIDE DEF m
  <2>4. \A id \in ClientsId(server) : Serves(app, replica[id], sent'[id], view', projectile')
    BY <2>1, <2>2, <2>3, Zenon
  <2>5. view' \subseteq Players
    BY <2>1, Zenon DEF Rosters
  <2> QED BY <2>1, <2>2, <2>4, <2>5, ServedRosters, Zenon
<1>7. CASE Restart \/ UNCHANGED vars
  <2>1. UNCHANGED <<server, view, app, sent, replica, projectile>>
    BY <1>7 DEF Restart, vars, transportVars, appVars
  <2> QED BY <2>1, Zenon DEF Rosters
<1>8. CASE \E id \in RemoteIds : HostKicks(id) \/ SendFailsIn(id)
  BY <1>8, DisconnectRosters DEF HostKicks, SendFailsIn, Kick, SendFails, Framed
<1>9. ASSUME NEW id \in RemoteIds, ReceiveMessage(id) PROVE Rosters'
  <2>1. /\ id \in ClientsId(server) /\ sent[id] # <<>>
        /\ replica' = [replica EXCEPT ![id] = Apply(@, Head(sent[id]))]
        /\ sent' = [sent EXCEPT ![id] = Tail(@)]
        /\ UNCHANGED <<server, view, app, projectile>>
    BY <1>9 DEF ReceiveMessage, transportVars
  <2>2. id \in Ids
    BY IdsAssumption
  <2>3. app # "any"
    BY <2>1, <2>2, Zenon DEF Rosters
  <2>4. DOMAIN sent = Ids /\ DOMAIN replica = Ids
        /\ \A x \in ClientsId(server) : Serves(app, replica[x], sent[x], view, projectile)
    BY <2>3, Zenon DEF Rosters
  <2>5. /\ DOMAIN sent' = Ids /\ DOMAIN replica' = Ids
        /\ sent'[id] = Tail(sent[id]) /\ replica'[id] = ApplyOf(app, replica[id], Head(sent[id]))
        /\ \A x \in Ids : x # id => sent'[x] = sent[x] /\ replica'[x] = replica[x]
    BY <2>1, <2>2, <2>4, Zenon DEF Apply, ApplyOf
  <2>6. ASSUME NEW x \in ClientsId(server)
        PROVE  Serves(app, replica'[x], sent'[x], view, projectile)
    <3>1. CASE x = id
      BY <2>1, <2>4, <2>5, <3>1, ServesTail
    <3>2. CASE x # id
      BY <2>4, <2>5, <3>2, ClientsFacts, Zenon
    <3> QED BY <3>1, <3>2, Zenon
  <2> QED BY <2>1, <2>3, <2>5, <2>6, Zenon DEF Rosters
<1> QED BY <1>1, <1>2, <1>3, <1>4, <1>5, <1>6, <1>7, <1>8, <1>9 DEF Next

\* What the properties need: every connected client has such a reading.
LEMMA ClientShows ==
  ASSUME IInv, Rosters, NEW id \in ClientsId(server)
  PROVE  \E last : /\ Shows(app, replica[id], sent[id], last) /\ (last.projectile => projectile)
                   /\ app # "any" => /\ view \subseteq last.players
                                     /\ app # "game" => last.players = view
<1>1. CASE app = "any"
  <2>1. id \in Ids
    BY ClientsFacts
  <2>2. sent[id] = <<>> /\ replica[id] = NewReplica
    BY <1>1, <2>1 DEF Rosters
  <2>3. ~ NewReplica.projectile
    BY DEF NewReplica
  <2> QED BY <1>1, <2>2, <2>3, ShowsNothing
<1>2. CASE app # "any"
  <2>1. Serves(app, replica[id], sent[id], view, projectile)
    BY <1>2 DEF Rosters
  <2> QED BY <2>1, Zenon DEF Serves
<1> QED BY <1>1, <1>2, Zenon

(***************************************************************************)
(* For every number of players and every mix of joins, leaves, kicks and   *)
(* errors in a frame: the messages a server program queues for a client    *)
(* lead it to the roster the program has.                                  *)
(***************************************************************************)
THEOREM RostersDoConverge == Spec => []RostersConverge
<1>1. IInv /\ Rosters => RostersConverge
  <2> SUFFICES ASSUME IInv, Rosters, app # "any", NEW id \in ClientsId(server)
               PROVE  /\ view \subseteq Reads(id, Len(sent[id])).players
                      /\ app # "game" => Reads(id, Len(sent[id])).players = view
    BY DEF RostersConverge
  <2> QED BY ClientShows, ShowsRead, Zenon
<1> QED BY <1>1, InitIInv, NextIInv, InitRosters, NextRosters, PTL DEF Spec

(***************************************************************************)
(* The chat never queues a text for a client before the name of its        *)
(* author: the events of a frame are handled before its messages, and a    *)
(* new client gets all names with its InitClient.                          *)
(***************************************************************************)
THEOREM AuthorsAreAlwaysKnown == Spec => []AuthorsAreKnown
<1>1. IInv /\ Rosters => AuthorsAreKnown
  <2> SUFFICES ASSUME IInv, Rosters, NEW id \in ClientsId(server), NEW k \in DOMAIN sent[id],
                      sent[id][k].type = "Says"
               PROVE  sent[id][k].id \in Reads(id, k - 1).players
    BY Zenon DEF AuthorsAreKnown
  <2> QED BY ClientShows, ShowsRead, Zenon
<1> QED BY <1>1, InitIInv, NextIInv, InitRosters, NextRosters, PTL DEF Spec

(***************************************************************************)
(* A client of the game that has read its messages shows no projectile     *)
(* that the game has removed: every removal is told to every client.       *)
(***************************************************************************)
THEOREM ProjectilesDoEnd == Spec => []ProjectilesEnd
<1>1. IInv /\ Rosters => ProjectilesEnd
  <2> SUFFICES ASSUME IInv, Rosters, NEW id \in ClientsId(server),
                      Reads(id, Len(sent[id])).projectile
               PROVE  projectile
    BY DEF ProjectilesEnd
  <2> QED BY ClientShows, ShowsRead, Zenon
<1> QED BY <1>1, InitIInv, NextIInv, InitRosters, NextRosters, PTL DEF Spec
=============================================================================
