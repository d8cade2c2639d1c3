------------------------- MODULE EventQueuesProofs -------------------------
(***************************************************************************)
(* The safety of EventQueues, for any number of workers, days, events,     *)
(* failing calls and restarts and any size of the two channels: that no    *)
(* counter runs ahead of what was done, and that what the counters and the *)
(* log channel miss was dropped or lost for a reason.                      *)
(***************************************************************************)
EXTENDS EventQueues, SequenceTheorems, FiniteSetTheorems, TLAPS

(* The constants are numbers. *)
LEMMA Constants ==
  /\ MetricQueueSize \in Nat /\ MetricQueueSize >= 1
  /\ AuditQueueSize \in Nat /\ AuditQueueSize >= 1
  /\ MaxDeletes \in Nat /\ MaxDay \in Nat
  /\ IsFiniteSet(Workers) /\ Cardinality(Workers) \in Nat
<1>1. IsFiniteSet(Workers)
    BY EventQueuesAssumption
<1>2. Cardinality(Workers) \in Nat
    BY <1>1, FS_CardinalityType
<1> QED BY <1>1, <1>2, EventQueuesAssumption

(* Sequences of calls none of which counts. *)
Plain == {s \in Seq(Call) : \A n \in 1 .. Len(s) : s[n] \notin Columns}

(* Two of them in a row are one. *)
LEMMA PlainJoined ==
  ASSUME NEW s \in Plain, NEW t \in Plain
  PROVE  s \o t \in Plain /\ Len(s \o t) = Len(s) + Len(t)
<1>1. s \in Seq(Call) /\ t \in Seq(Call)
    BY DEF Plain
<1>2. /\ s \o t \in Seq(Call)
      /\ Len(s \o t) = Len(s) + Len(t)
      /\ \A n \in 1 .. Len(s) + Len(t) : (s \o t)[n] = IF n <= Len(s) THEN s[n] ELSE t[n - Len(s)]
    BY <1>1, ConcatProperties
<1>3. Len(s) \in Nat /\ Len(t) \in Nat
    BY <1>1, LenProperties
<1>4. ASSUME NEW n \in 1 .. Len(s \o t) PROVE (s \o t)[n] \notin Columns
  <2>1. CASE n <= Len(s)
      BY <1>2, <1>3, <2>1 DEF Plain
  <2>2. CASE n > Len(s)
    <3>1. n - Len(s) \in 1 .. Len(t) /\ (s \o t)[n] = t[n - Len(s)]
        BY <1>2, <1>3, <2>2
    <3> QED BY <3>1 DEF Plain
  <2> QED BY <1>2, <1>3, <2>1, <2>2
<1> QED BY <1>2, <1>4 DEF Plain

(* What a handler sets out to do counts nothing yet. *)
LEMMA PlansArePlain == \A plan \in Plans : plan \in Plain /\ plan # <<>>
<1>1. /\ <<"audit">> \in Plain /\ <<"strike">> \in Plain /\ <<"kick">> \in Plain
      /\ <<"delete", "strike">> \in Plain
    BY DEF Plain, Call, Columns
<1>2. ASSUME NEW k \in 1 .. MaxDeletes
      PROVE  /\ [n \in 1 .. k |-> "delete"] \in Plain
             /\ Len([n \in 1 .. k |-> "delete"]) = k /\ k \in Nat
  <2> DEFINE s == [n \in 1 .. k |-> "delete"]
  <2>1. k \in Nat
      BY Constants
  <2>2. "delete" \in Call /\ "delete" \notin Columns
      BY DEF Call, Columns
  <2>3. s \in [1 .. k -> Call]
      BY <2>2
  <2>4. s \in Seq(Call) /\ Len(s) = k
      BY <2>1, <2>3
  <2>5. \A n \in 1 .. Len(s) : s[n] = "delete"
      BY <2>4
  <2> HIDE DEF s
  <2>6. s \in Plain
      BY <2>2, <2>4, <2>5 DEF Plain
  <2> QED BY <2>1, <2>4, <2>6 DEF s
<1>3. ASSUME NEW plan \in Flood PROVE plan \in Plain /\ Len(plan) \in Nat /\ Len(plan) >= 1
  <2>1. PICK k \in 1 .. MaxDeletes : plan = [n \in 1 .. k |-> "delete"] \o <<"audit">>
      BY DEF Flood
  <2>2. plan \in Plain /\ Len(plan) = k + 1 /\ k \in Nat
      BY <1>1, <1>2, <2>1, PlainJoined
  <2> QED BY <2>2
<1>4. ASSUME NEW plan \in Flood PROVE plan \o <<"strike">> \in Plain /\ plan \o <<"strike">> # <<>>
  <2>1. plan \o <<"strike">> \in Plain /\ Len(plan \o <<"strike">>) = Len(plan) + 1
      BY <1>1, <1>3, PlainJoined
  <2>2. Len(plan \o <<"strike">>) # 0
      BY <1>3, <2>1
  <2> QED BY <2>1, <2>2
<1>5. \A plan \in Flood : plan # <<>>
    BY <1>3
<1>6. <<"delete", "strike">> # <<>> /\ <<"kick">> # <<>>
    OBVIOUS
<1>7. \A plan \in Plans : \/ plan \in Flood
                          \/ \E p \in Flood : plan = p \o <<"strike">>
                          \/ plan = <<"delete", "strike">> \/ plan = <<"kick">>
    BY DEF Plans
<1> QED BY <1>1, <1>3, <1>4, <1>5, <1>6, <1>7

(* What a handler's call leads to first: nothing, a count, or the ban that  *)
(* a third strike has for a consequence.                                    *)
Firsts == {<<>>} \cup {<<c>> : c \in Columns} \cup {<<"strikes_issued", "ban">>}

(* Only the next call of a handler may be one that counts. *)
Tidy == \A h \in Workers : \A n \in 2 .. Len(handler[h]) : handler[h][n] \notin Columns

(* A handler that moves on: what it does next is the first of what its call *)
(* leads to, or a call it had planned.                                      *)
LEMMA HandlerMoves ==
  ASSUME TypeOK, Tidy, NEW h \in Workers, NEW first \in Firsts,
         handler[h] # <<>>, Goes(h, first)
  PROVE  /\ handler' \in [Workers -> Seq(Call)] /\ Tidy'
         /\ \A g \in Workers \ {h} : handler'[g] = handler[g]
         /\ IF first = <<>>
            THEN handler'[h] # <<>> => Head(handler'[h]) \notin Columns
            ELSE handler'[h] # <<>> /\ Head(handler'[h]) = first[1]
<1> DEFINE rest == Tail(handler[h])
           next == first \o rest
<1>1. handler \in [Workers -> Seq(Call)] /\ handler[h] \in Seq(Call)
    BY DEF TypeOK
<1>2. /\ rest \in Seq(Call) /\ Len(rest) \in Nat
      /\ Len(rest) = Len(handler[h]) - 1 /\ Len(handler[h]) \in Nat
      /\ \A n \in 1 .. Len(rest) : rest[n] = handler[h][n + 1]
    BY <1>1, HeadTailProperties, LenProperties
<1>3. \A n \in 1 .. Len(rest) : rest[n] \notin Columns
  <2>1. \A n \in 1 .. Len(rest) : n + 1 \in 2 .. Len(handler[h])
      BY <1>2
  <2> QED BY <1>2, <2>1 DEF Tidy
<1>4. /\ first \in Seq(Call) /\ Len(first) \in Nat
      /\ \A n \in 2 .. Len(first) : first[n] \notin Columns
      /\ first = <<>> <=> Len(first) = 0
  <2>1. CASE first = <<>>
      BY <2>1
  <2>2. ASSUME NEW c \in Columns, first = <<c>> PROVE <1>4
      BY <2>2 DEF Call
  <2>3. CASE first = <<"strikes_issued", "ban">>
      BY <2>3 DEF Call, Columns
  <2> QED BY <2>1, <2>2, <2>3 DEF Firsts
<1> HIDE DEF rest
<1>5. /\ next \in Seq(Call) /\ Len(next) = Len(first) + Len(rest)
      /\ \A n \in 1 .. Len(first) + Len(rest) :
           next[n] = IF n <= Len(first) THEN first[n] ELSE rest[n - Len(first)]
  <2>1. rest \in Seq(Call) /\ first \in Seq(Call)
      BY <1>2, <1>4
  <2> QED BY <2>1, ConcatProperties
<1> HIDE DEF next
<1>6. handler'[h] = next /\ \A g \in Workers \ {h} : handler'[g] = handler[g]
    BY <1>1 DEF Goes, next, rest
<1>7. handler' \in [Workers -> Seq(Call)]
    BY <1>1, <1>5 DEF Goes, next, rest
<1>8. \A n \in 2 .. Len(next) : next[n] \notin Columns
  <2> SUFFICES ASSUME NEW n \in 2 .. Len(next) PROVE next[n] \notin Columns
      OBVIOUS
  <2>1. CASE n <= Len(first)
      BY <1>2, <1>4, <1>5, <2>1
  <2>2. CASE n > Len(first)
    <3>1. n - Len(first) \in 1 .. Len(rest) /\ next[n] = rest[n - Len(first)]
        BY <1>2, <1>4, <1>5, <2>2
    <3> QED BY <1>3, <3>1
  <2> QED BY <1>2, <1>4, <1>5, <2>1, <2>2
<1>9. Tidy'
  <2> SUFFICES ASSUME NEW g \in Workers, NEW n \in 2 .. Len(handler'[g])
               PROVE  handler'[g][n] \notin Columns
      BY DEF Tidy
  <2>1. CASE g = h
      BY <1>6, <1>8, <2>1
  <2>2. CASE g # h
      BY <1>6, <2>2 DEF Tidy
  <2> QED BY <2>1, <2>2
<1>10. CASE first = <<>>
  <2>1. next # <<>> => Head(next) \notin Columns
    <3> SUFFICES ASSUME next # <<>> PROVE Head(next) \notin Columns
        OBVIOUS
    <3>1. Len(next) >= 1 /\ Len(next) = Len(rest) /\ Len(first) = 0
        BY <1>2, <1>4, <1>5, <1>10
    <3>2. next[1] = rest[1] /\ 1 \in 1 .. Len(rest)
        BY <1>2, <1>5, <3>1
    <3>3. Head(next) = next[1]
        BY <1>5, <3>1
    <3> QED BY <1>3, <3>2, <3>3
  <2> QED BY <1>6, <1>7, <1>9, <1>10, <2>1
<1>11. CASE first # <<>>
  <2>1. Len(first) >= 1
      BY <1>4, <1>11
  <2>2. Len(next) >= 1 /\ 1 <= Len(first) + Len(rest)
      BY <1>2, <1>4, <1>5, <2>1
  <2>3. next # <<>> /\ Head(next) = next[1]
      BY <1>5, <2>2
  <2>4. next[1] = first[1]
      BY <1>2, <1>4, <1>5, <2>1, <2>2
  <2> QED BY <1>6, <1>7, <1>9, <1>11, <2>3, <2>4
<1> QED BY <1>10, <1>11

----------------------------------------------------------------------------
(* One more of c was done, or is counted, in the totals from today on. *)
LEMMA BehindStep ==
  ASSUME TypeOK, NEW c \in Columns
  PROVE  /\ Happens(c) => /\ behind' \in [Days -> [Columns -> Int]]
                          /\ \A d \in Days, e \in Columns : behind'[d][e] =
                               IF e = c /\ d >= today THEN behind[d][e] + 1 ELSE behind[d][e]
         /\ Counts(c) => /\ behind' \in [Days -> [Columns -> Int]]
                         /\ \A d \in Days, e \in Columns : behind'[d][e] =
                              IF e = c /\ d >= today THEN behind[d][e] - 1 ELSE behind[d][e]
<1>1. /\ behind \in [Days -> [Columns -> Int]]
      /\ \A d \in Days : d \in Later <=> d >= today
  <2>1. today \in Nat /\ MaxDay \in Nat /\ \A d \in Days : d \in Nat /\ d <= MaxDay
      BY Constants DEF TypeOK, Days
  <2> QED BY <2>1 DEF TypeOK, Later
<1>2. ASSUME Happens(c)
      PROVE  /\ behind' \in [Days -> [Columns -> Int]]
             /\ \A d \in Days, e \in Columns : behind'[d][e] =
                  IF e = c /\ d >= today THEN behind[d][e] + 1 ELSE behind[d][e]
  <2>1. behind' = [d \in Days |->
                     [behind[d] EXCEPT ![c] = IF d \in Later THEN @ + 1 ELSE @]]
      BY <1>2 DEF Happens
  <2>2. \A d \in Days : /\ behind'[d] \in [Columns -> Int]
                        /\ \A e \in Columns : behind'[d][e] =
                             IF e = c /\ d >= today THEN behind[d][e] + 1 ELSE behind[d][e]
      BY <1>1, <2>1
  <2>3. behind' \in [Days -> [Columns -> Int]]
      BY <2>1, <2>2
  <2> QED BY <2>2, <2>3
<1>3. ASSUME Counts(c)
      PROVE  /\ behind' \in [Days -> [Columns -> Int]]
             /\ \A d \in Days, e \in Columns : behind'[d][e] =
                  IF e = c /\ d >= today THEN behind[d][e] - 1 ELSE behind[d][e]
  <2>1. behind' = [d \in Days |->
                     [behind[d] EXCEPT ![c] = IF d \in Later THEN @ - 1 ELSE @]]
      BY <1>3 DEF Counts
  <2>2. \A d \in Days : /\ behind'[d] \in [Columns -> Int]
                        /\ \A e \in Columns : behind'[d][e] =
                             IF e = c /\ d >= today THEN behind[d][e] - 1 ELSE behind[d][e]
      BY <1>1, <2>1
  <2>3. behind' \in [Days -> [Columns -> Int]]
      BY <2>1, <2>2
  <2> QED BY <2>2, <2>3
<1> QED BY <1>2, <1>3

(* What the calls of a handler that moderate lead to. *)
LEMMA Moderates ==
  ASSUME NEW h \in Workers, Delete(h) \/ Strike(h) \/ Ban(h)
  PROVE  /\ Quiet /\ UNCHANGED <<metrics, audits, dropped>>
         /\ handler[h] # <<>> /\ Head(handler[h]) \notin Columns
         /\ \E first \in Firsts :
              /\ Goes(h, first)
              /\ \/ first # <<>> /\ Happens(first[1]) /\ first[1] \in Columns /\ Works
                 \/ first = <<>> /\ behind' = behind /\ Fails
                 \/ first = <<>> /\ (\E c \in Columns : Happens(c)) /\ Fails
                 \/ first = <<"spammers_kicked">> /\ behind' = behind /\ Fails
<1>0. /\ <<>> \in Firsts /\ \A c \in Columns : <<c>> \in Firsts
      /\ <<"strikes_issued", "ban">> \in Firsts
      /\ "messages_deleted" \in Columns /\ "strikes_issued" \in Columns
      /\ "spammers_kicked" \in Columns
      /\ {"delete", "strike", "ban", "kick"} \cap Columns = {}
    BY DEF Firsts, Columns
<1>1. CASE Delete(h)
  <2>1. /\ Quiet /\ UNCHANGED <<metrics, audits, dropped>>
        /\ handler[h] # <<>> /\ Head(handler[h]) \notin Columns
      BY <1>0, <1>1 DEF Delete, Calls
  <2>2. CASE Goes(h, <<"messages_deleted">>) /\ Happens("messages_deleted") /\ Works
    <3>1. <<"messages_deleted">> # <<>> /\ <<"messages_deleted">>[1] = "messages_deleted"
        OBVIOUS
    <3> QED BY <1>0, <2>1, <2>2, <3>1
  <2>3. CASE Goes(h, <<>>) /\ Fails /\ UNCHANGED behind
      BY <1>0, <2>1, <2>3
  <2> QED BY <1>1, <2>2, <2>3 DEF Delete
<1>2. CASE Strike(h)
  <2>1. /\ Quiet /\ UNCHANGED <<metrics, audits, dropped>>
        /\ handler[h] # <<>> /\ Head(handler[h]) \notin Columns
      BY <1>0, <1>2 DEF Strike, Calls
  <2>2. ASSUME NEW first \in {<<"strikes_issued">>, <<"strikes_issued", "ban">>},
               Goes(h, first), Happens("strikes_issued"), Works
        PROVE  first \in Firsts /\ first # <<>> /\ first[1] = "strikes_issued"
    <3>1. CASE first = <<"strikes_issued">>
        BY <1>0, <3>1
    <3>2. CASE first = <<"strikes_issued", "ban">>
        BY <1>0, <3>2
    <3> QED BY <2>2, <3>1, <3>2
  <2>3. CASE /\ Goes(h, <<>>) /\ Fails
             /\ Happens("strikes_issued") \/ UNCHANGED behind
      BY <1>0, <2>1, <2>3
  <2>4. \/ \E first \in {<<"strikes_issued">>, <<"strikes_issued", "ban">>} :
             Goes(h, first) /\ Happens("strikes_issued") /\ Works
        \/ /\ Goes(h, <<>>) /\ Fails
           /\ Happens("strikes_issued") \/ UNCHANGED behind
      BY <1>2 DEF Strike
  <2>5. ASSUME NEW first \in {<<"strikes_issued">>, <<"strikes_issued", "ban">>},
               Goes(h, first), Happens("strikes_issued"), Works
        PROVE  \E f \in Firsts : /\ Goes(h, f) /\ f # <<>> /\ Happens(f[1])
                                 /\ f[1] \in Columns /\ Works
      BY <1>0, <2>2, <2>5
  <2>6. CASE \E first \in Firsts : /\ Goes(h, first) /\ first # <<>> /\ Happens(first[1])
                                   /\ first[1] \in Columns /\ Works
      BY <2>1, <2>6
  <2> QED BY <2>3, <2>4, <2>5, <2>6
<1>3. CASE Ban(h)
  <2>1. /\ Quiet /\ UNCHANGED <<metrics, audits, dropped>>
        /\ handler[h] # <<>> /\ Head(handler[h]) \notin Columns
      BY <1>0, <1>3 DEF Ban, Calls
  <2>2. CASE Goes(h, <<"spammers_kicked">>) /\ Happens("spammers_kicked") /\ Works
    <3>1. <<"spammers_kicked">> # <<>> /\ <<"spammers_kicked">>[1] = "spammers_kicked"
        OBVIOUS
    <3> QED BY <1>0, <2>1, <2>2, <3>1
  <2>3. CASE Goes(h, <<"spammers_kicked">>) /\ Fails /\ UNCHANGED behind
      BY <1>0, <2>1, <2>3
  <2>4. CASE Goes(h, <<>>) /\ Fails /\ UNCHANGED behind
      BY <1>0, <2>1, <2>4
  <2>5. \/ Goes(h, <<"spammers_kicked">>) /\ Happens("spammers_kicked") /\ Works
        \/ Goes(h, IF Calls(h, "ban") THEN <<"spammers_kicked">> ELSE <<>>)
             /\ Fails /\ UNCHANGED behind
      BY <1>3 DEF Ban
  <2>6. \/ Goes(h, <<"spammers_kicked">>) /\ Happens("spammers_kicked") /\ Works
        \/ Goes(h, <<"spammers_kicked">>) /\ Fails /\ UNCHANGED behind
        \/ Goes(h, <<>>) /\ Fails /\ UNCHANGED behind
    <3>1. CASE Calls(h, "ban")
        BY <2>5, <3>1
    <3>2. CASE ~Calls(h, "ban")
        BY <2>5, <3>2
    <3> QED BY <3>1, <3>2
  <2> QED BY <2>2, <2>3, <2>4, <2>6
<1> QED BY <1>1, <1>2, <1>3

----------------------------------------------------------------------------
(* A handler has but one event to put at a time. *)
TypeInv == TypeOK /\ Tidy

(* At the start nothing is under way. *)
LEMMA TypeInit == Init => TypeInv
<1> SUFFICES ASSUME Init PROVE TypeInv
    OBVIOUS
<1>1. /\ today \in Days /\ due \in BOOLEAN /\ rows \subseteq Days /\ said \subseteq Days
      /\ dropped \in [metrics : Nat, audits : Nat]
      /\ acts \in Nat /\ faults \in Nat /\ crashes \in Nat
    BY Constants DEF Init, Days
<1>2. behind \in [Days -> [Columns -> Int]]
    BY DEF Init
<1>3. <<>> \in Seq(Call) /\ <<>> \in Seq(Columns) /\ Len(<<>>) = 0
    OBVIOUS
<1>4. /\ metricCh \in Seq(Columns) /\ Len(metricCh) <= MetricQueueSize
      /\ counting \in Seq(Columns) /\ Len(counting) <= 1
    BY <1>3, Constants DEF Init
<1>5. auditCh \in 0 .. AuditQueueSize /\ logging \in {0, 1} /\ unlogged \in Int
    BY Constants DEF Init
<1>6. handler \in [Workers -> Seq(Call)] /\ \A h \in Workers : handler[h] = <<>>
    BY <1>3 DEF Init
<1>7. Tidy
    BY <1>3, <1>6 DEF Tidy
<1> QED BY <1>1, <1>2, <1>4, <1>5, <1>6, <1>7 DEF TypeInv, TypeOK

(* Failing calls are counted up. *)
LEMMA FaultsType ==
  ASSUME TypeOK, Works \/ Fails
  PROVE  faults' \in Nat /\ faults' >= faults
BY DEF TypeOK, Works, Fails

(* The steps of a handler keep the types. *)
LEMMA HandlerType ==
  ASSUME TypeInv, NEW h \in Workers, Begin(h) \/ HandlerStep(h)
  PROVE  TypeInv'
<1>0. TypeOK /\ Tidy /\ <<>> \in Firsts
    BY DEF TypeInv, Firsts
<1>1. CASE Begin(h)
  <2>1. PICK plan \in Plans : handler' = [handler EXCEPT ![h] = plan]
      BY <1>1 DEF Begin
  <2>2. plan \in Seq(Call) /\ \A n \in 1 .. Len(plan) : plan[n] \notin Columns
      BY PlansArePlain DEF Plain
  <2>3. handler \in [Workers -> Seq(Call)]
      BY <1>0 DEF TypeOK
  <2>4. handler' \in [Workers -> Seq(Call)]
      BY <2>1, <2>2, <2>3
  <2>5. handler'[h] = plan /\ \A g \in Workers \ {h} : handler'[g] = handler[g]
      BY <2>1, <2>3
  <2>6. Len(plan) \in Nat
      BY <2>2, LenProperties
  <2>7. Tidy'
    <3> SUFFICES ASSUME NEW g \in Workers, NEW n \in 2 .. Len(handler'[g])
                 PROVE  handler'[g][n] \notin Columns
        BY DEF Tidy
    <3>1. CASE g = h
        BY <2>2, <2>5, <2>6, <3>1
    <3>2. CASE g # h
        BY <1>0, <2>5, <3>2 DEF Tidy
    <3> QED BY <3>1, <3>2
  <2>8. TypeOK'
    <3>1. UNCHANGED <<today, due, rows, said, behind, metricCh, counting, auditCh, logging,
                      dropped, unlogged, faults, crashes>>
        BY <1>1 DEF Begin, Works, calendar, metrics, audits
    <3>2. acts' \in Nat
        BY <1>0, <1>1 DEF Begin, TypeOK
    <3> QED BY <1>0, <2>4, <3>1, <3>2 DEF TypeOK
  <2> QED BY <2>7, <2>8 DEF TypeInv
<1>2. CASE Delete(h) \/ Strike(h) \/ Ban(h)
  <2>1. /\ Quiet /\ UNCHANGED <<metrics, audits, dropped>> /\ handler[h] # <<>>
        /\ \E first \in Firsts :
              /\ Goes(h, first)
              /\ \/ first # <<>> /\ Happens(first[1]) /\ first[1] \in Columns /\ Works
                 \/ first = <<>> /\ behind' = behind /\ Fails
                 \/ first = <<>> /\ (\E c \in Columns : Happens(c)) /\ Fails
                 \/ first = <<"spammers_kicked">> /\ behind' = behind /\ Fails
      BY <1>2, Moderates
  <2>2. PICK first \in Firsts :
              /\ Goes(h, first)
              /\ \/ first # <<>> /\ Happens(first[1]) /\ first[1] \in Columns /\ Works
                 \/ first = <<>> /\ behind' = behind /\ Fails
                 \/ first = <<>> /\ (\E c \in Columns : Happens(c)) /\ Fails
                 \/ first = <<"spammers_kicked">> /\ behind' = behind /\ Fails
      BY <2>1
  <2>3. handler' \in [Workers -> Seq(Call)] /\ Tidy'
      BY <1>0, <2>1, <2>2, HandlerMoves
  <2>4. behind' = behind \/ \E c \in Columns : Happens(c)
      BY <2>2
  <2>5. behind' \in [Days -> [Columns -> Int]]
    <3>1. CASE behind' = behind
        BY <1>0, <3>1 DEF TypeOK
    <3>2. CASE \E c \in Columns : Happens(c)
        BY <1>0, <3>2, BehindStep
    <3> QED BY <2>4, <3>1, <3>2
  <2>6. faults' \in Nat
      BY <1>0, <2>2, FaultsType
  <2>7. UNCHANGED <<today, due, rows, said, metricCh, counting, auditCh, logging,
                    dropped, unlogged, acts, crashes>>
      BY <2>1 DEF Quiet, calendar, metrics, audits
  <2>8. TypeOK'
      BY <1>0, <2>3, <2>5, <2>6, <2>7 DEF TypeOK
  <2> QED BY <2>3, <2>8 DEF TypeInv
<1>3. CASE Track(h)
  <2>1. /\ Quiet /\ UNCHANGED <<rows, counting, audits, behind>> /\ handler[h] # <<>>
        /\ Head(handler[h]) \in Columns /\ Goes(h, <<>>) /\ Works
        /\ \/ Len(metricCh) < MetricQueueSize /\ dropped' = dropped
              /\ metricCh' = Append(metricCh, Head(handler[h]))
           \/ metricCh' = metricCh /\ dropped' = [dropped EXCEPT !.metrics = @ + 1]
      BY <1>3 DEF Track
  <2>2. handler' \in [Workers -> Seq(Call)] /\ Tidy'
      BY <1>0, <2>1, HandlerMoves
  <2>3. metricCh \in Seq(Columns) /\ Len(metricCh) \in Nat /\ Len(metricCh) <= MetricQueueSize
      BY <1>0 DEF TypeOK
  <2>4. metricCh' \in Seq(Columns) /\ Len(metricCh') <= MetricQueueSize
    <3>1. CASE /\ Len(metricCh) < MetricQueueSize
               /\ metricCh' = Append(metricCh, Head(handler[h]))
      <4>1. metricCh' \in Seq(Columns) /\ Len(metricCh') = Len(metricCh) + 1
          BY <2>1, <2>3, <3>1, AppendProperties
      <4> QED BY <2>3, <3>1, <4>1, Constants
    <3>2. CASE metricCh' = metricCh
        BY <2>3, <3>2
    <3> QED BY <2>1, <3>1, <3>2
  <2>5. dropped' \in [metrics : Nat, audits : Nat]
      BY <1>0, <2>1 DEF TypeOK
  <2>6. UNCHANGED <<today, due, rows, said, behind, counting, auditCh, logging,
                    unlogged, acts, faults, crashes>>
      BY <2>1 DEF Quiet, Works, calendar, audits
  <2>7. TypeOK'
      BY <1>0, <2>2, <2>4, <2>5, <2>6 DEF TypeOK
  <2> QED BY <2>2, <2>7 DEF TypeInv
<1>4. CASE Audit(h)
  <2>1. /\ Quiet /\ UNCHANGED <<logging, metrics, behind>> /\ handler[h] # <<>>
        /\ Goes(h, <<>>) /\ Works /\ unlogged' = unlogged + 1
        /\ \/ auditCh < AuditQueueSize /\ dropped' = dropped /\ auditCh' = auditCh + 1
           \/ auditCh' = auditCh /\ dropped' = [dropped EXCEPT !.audits = @ + 1]
      BY <1>4 DEF Audit, Calls
  <2>2. handler' \in [Workers -> Seq(Call)] /\ Tidy'
      BY <1>0, <2>1, HandlerMoves
  <2>3. auditCh' \in 0 .. AuditQueueSize /\ unlogged' \in Int
      BY SMTT(20), <1>0, <2>1, Constants DEF TypeOK
  <2>4. dropped' \in [metrics : Nat, audits : Nat]
      BY <1>0, <2>1 DEF TypeOK
  <2>5. UNCHANGED <<today, due, rows, said, behind, metricCh, counting, logging,
                    acts, faults, crashes>>
      BY <2>1 DEF Quiet, Works, calendar, metrics
  <2>6. TypeOK'
      BY <1>0, <2>2, <2>3, <2>4, <2>5 DEF TypeOK
  <2> QED BY <2>2, <2>6 DEF TypeInv
<1> QED BY <1>1, <1>2, <1>3, <1>4 DEF HandlerStep

(* What metricWorker has in hand is one column or none. *)
LEMMA InHandType ==
  ASSUME TypeOK, counting # <<>>
  PROVE  Head(counting) \in Columns /\ Len(counting) = 1 /\ counting[1] = Head(counting)
<1>1. counting \in Seq(Columns) /\ Len(counting) \in Nat /\ Len(counting) <= 1
    BY LenProperties DEF TypeOK
<1>2. Head(counting) \in Columns /\ Len(counting) # 0
    BY <1>1, HeadTailProperties, EmptySeq
<1> QED BY <1>1, <1>2

(* What the two workers of the queues, the days and a restart do. *)
LEMMA WorkerType ==
  ASSUME TypeInv, TakeMetric \/ TrackMetric \/ TakeAudit \/ Log \/ Midnight \/ Report \/ Restart
  PROVE  TypeInv'
<1>0. TypeOK /\ Tidy
    BY DEF TypeInv
<1>8. handler' = handler => Tidy'
    BY <1>0 DEF Tidy
<1>1. CASE TakeMetric
  <2>1. metricCh \in Seq(Columns) /\ metricCh # <<>> /\ Len(metricCh) \in Nat
      BY <1>0, <1>1, LenProperties DEF TypeOK, TakeMetric
  <2>2. /\ Head(metricCh) \in Columns /\ Tail(metricCh) \in Seq(Columns)
        /\ Len(Tail(metricCh)) = Len(metricCh) - 1
      BY <2>1, HeadTailProperties
  <2>3. counting' = <<Head(metricCh)>> /\ metricCh' = Tail(metricCh)
      BY <1>1 DEF TakeMetric
  <2>4. counting' \in Seq(Columns) /\ Len(counting') <= 1
      BY <2>2, <2>3
  <2>5. metricCh' \in Seq(Columns) /\ Len(metricCh') <= MetricQueueSize
      BY <1>0, <2>1, <2>2, <2>3, Constants DEF TypeOK
  <2>6. UNCHANGED <<today, due, rows, said, behind, auditCh, logging, unlogged, handler,
                    dropped, acts, faults, crashes>>
      BY <1>1 DEF TakeMetric, Quiet, Works, calendar, audits
  <2>7. TypeOK'
      BY <1>0, <2>4, <2>5, <2>6 DEF TypeOK
  <2> QED BY <1>8, <2>6, <2>7 DEF TypeInv
<1>2. CASE TrackMetric
  <2>1. /\ counting # <<>> /\ counting' = <<>>
        /\ CountIt \/ CountNot
        /\ Works \/ Fails
        /\ UNCHANGED <<today, due, said, metricCh, auditCh, logging, unlogged, handler,
                       dropped, acts, crashes>>
      BY <1>2 DEF TrackMetric, Quiet, calendar, audits
  <2>2. Head(counting) \in Columns
      BY <1>0, <2>1, InHandType
  <2>3. behind' \in [Days -> [Columns -> Int]] /\ rows' \subseteq Days
    <3>1. CASE CountIt
      <4>1. behind' \in [Days -> [Columns -> Int]]
          BY <1>0, <2>2, <3>1, BehindStep DEF CountIt
      <4> QED BY <1>0, <3>1, <4>1 DEF CountIt, TypeOK
    <3>2. CASE CountNot
        BY <1>0, <3>2 DEF CountNot, TypeOK
    <3> QED BY <2>1, <3>1, <3>2
  <2>4. faults' \in Nat
      BY <1>0, <2>1, FaultsType
  <2>5. counting' \in Seq(Columns) /\ Len(counting') <= 1
      BY <2>1
  <2>6. TypeOK'
      BY <1>0, <2>1, <2>3, <2>4, <2>5 DEF TypeOK
  <2> QED BY <1>8, <2>1, <2>6 DEF TypeInv
<1>3. CASE TakeAudit
  <2>1. UNCHANGED <<today, due, rows, said, behind, metricCh, counting, unlogged, handler,
                    dropped, acts, faults, crashes>>
      BY <1>3 DEF TakeAudit, Quiet, Works, calendar, metrics
  <2>2. auditCh' \in 0 .. AuditQueueSize /\ logging' \in {0, 1}
      BY <1>0, <1>3, Constants DEF TypeOK, TakeAudit
  <2>3. TypeOK'
      BY <1>0, <2>1, <2>2 DEF TypeOK
  <2> QED BY <1>8, <2>1, <2>3 DEF TypeInv
<1>4. CASE Log
  <2>1. UNCHANGED <<today, due, rows, said, behind, metricCh, counting, auditCh, handler,
                    dropped, acts, crashes>>
      BY <1>4 DEF Log, Quiet, calendar, metrics
  <2>2. unlogged' \in Int /\ logging' \in {0, 1}
      BY <1>0, <1>4 DEF TypeOK, Log
  <2>3. faults' \in Nat
      BY <1>0, <1>4, FaultsType DEF Log
  <2>4. TypeOK'
      BY <1>0, <2>1, <2>2, <2>3 DEF TypeOK
  <2> QED BY <1>8, <2>1, <2>4 DEF TypeInv
<1>5. CASE Midnight
  <2>1. UNCHANGED <<rows, said, behind, metricCh, counting, auditCh, logging, unlogged,
                    handler, dropped, acts, faults, crashes>>
      BY <1>5 DEF Midnight, Works, metrics, audits
  <2>2. today' \in Days /\ due' \in BOOLEAN
      BY <1>0, <1>5, Constants DEF Midnight, TypeOK, Days
  <2>3. TypeOK'
      BY <1>0, <2>1, <2>2 DEF TypeOK
  <2> QED BY <1>8, <2>1, <2>3 DEF TypeInv
<1>6. CASE Report
  <2>1. UNCHANGED <<today, rows, behind, metricCh, counting, auditCh, logging, unlogged,
                    handler, dropped, acts, crashes>>
      BY <1>6 DEF Report, metrics, audits
  <2>2. said' \subseteq Days /\ due' \in BOOLEAN
      BY <1>0, <1>6 DEF Report, TypeOK
  <2>3. faults' \in Nat
      BY <1>0, <1>6, FaultsType DEF Report
  <2>4. TypeOK'
      BY <1>0, <2>1, <2>2, <2>3 DEF TypeOK
  <2> QED BY <1>8, <2>1, <2>4 DEF TypeInv
<1>7. CASE Restart
  <2>1. UNCHANGED <<today, said, rows, behind, dropped, acts, unlogged, faults>>
      BY <1>7 DEF Restart, Works
  <2>2. <<>> \in Seq(Call) /\ <<>> \in Seq(Columns) /\ Len(<<>>) = 0
      OBVIOUS
  <2>3. /\ handler' \in [Workers -> Seq(Call)]
        /\ \A h \in Workers : handler'[h] = <<>>
      BY <1>7, <2>2 DEF Restart
  <2>4. /\ metricCh' \in Seq(Columns) /\ Len(metricCh') <= MetricQueueSize
        /\ counting' \in Seq(Columns) /\ Len(counting') <= 1
      BY <1>7, <2>2, Constants DEF Restart
  <2>5. auditCh' \in 0 .. AuditQueueSize /\ logging' \in {0, 1}
      BY <1>7, Constants DEF Restart
  <2>9. due' \in BOOLEAN
      BY Zenon, <1>7 DEF Restart
  <2>6. crashes' \in Nat
      BY <1>0, <1>7 DEF Restart, TypeOK
  <2>7. TypeOK'
      BY <1>0, <2>1, <2>3, <2>4, <2>5, <2>6, <2>9 DEF TypeOK
  <2>8. Tidy'
      BY <2>2, <2>3 DEF Tidy
  <2> QED BY <2>7, <2>8 DEF TypeInv
<1> QED BY <1>1, <1>2, <1>3, <1>4, <1>5, <1>6, <1>7

(* Every step keeps the types. *)
LEMMA TypeStep == TypeInv /\ [Next]_vars => TypeInv'
<1> SUFFICES ASSUME TypeInv, [Next]_vars PROVE TypeInv'
    OBVIOUS
<1>1. CASE UNCHANGED vars
  <2>1. UNCHANGED <<today, due, rows, said, behind, metricCh, counting, auditCh, logging,
                    unlogged, handler, dropped, acts, faults, crashes>>
      BY <1>1 DEF vars, calendar, metrics, audits
  <2>2. TypeOK'
      BY <2>1 DEF TypeInv, TypeOK
  <2>3. Tidy'
      BY <2>1 DEF TypeInv, Tidy
  <2> QED BY <2>2, <2>3 DEF TypeInv
<1> QED BY <1>1, HandlerType, WorkerType DEF Next

(* The tables, queues and counters keep their types, and no queue outgrows  *)
(* its size.                                                                *)
THEOREM TypeCorrect == Spec => []TypeOK
<1>1. TypeInv => TypeOK
    BY DEF TypeInv
<1> QED BY <1>1, TypeInit, TypeStep, PTL DEF Spec

----------------------------------------------------------------------------
(* The column whose count a handler is about to put into the queue. *)
Bears(h) ==
  IF handler[h] # <<>> /\ Head(handler[h]) \in Columns THEN Head(handler[h]) ELSE "none"
Bearing(c) == {h \in Workers : Bears(h) = c}

(* How often a column is in a queue. *)
At(q, c) == {n \in 1 .. Len(q) : q[n] = c}
CountIn(q, c) == Cardinality(At(q, c))

(* Two sets of workers that differ in one of them at most. *)
LEMMA Swap ==
  ASSUME NEW A \in SUBSET Workers, NEW B \in SUBSET Workers, NEW h, A \ {h} = B \ {h}
  PROVE  /\ Cardinality(A) \in Nat /\ Cardinality(B) \in Nat
         /\ Cardinality(B) = Cardinality(A) + (IF h \in B THEN 1 ELSE 0)
                                            - (IF h \in A THEN 1 ELSE 0)
<1>1. IsFiniteSet(A) /\ IsFiniteSet(B)
    BY Constants, FS_Subset
<1>2. Cardinality(A) \in Nat /\ Cardinality(B) \in Nat
    BY <1>1, FS_CardinalityType
<1>3. /\ Cardinality(A \ {h}) = IF h \in A THEN Cardinality(A) - 1 ELSE Cardinality(A)
      /\ Cardinality(B \ {h}) = IF h \in B THEN Cardinality(B) - 1 ELSE Cardinality(B)
    BY <1>1, FS_RemoveElement
<1>4. Cardinality(A \ {h}) = Cardinality(B \ {h})
    OBVIOUS
<1> QED BY <1>2, <1>3, <1>4

(* Who bears what when one handler moves. *)
LEMMA Passes ==
  ASSUME NEW h \in Workers, \A g \in Workers \ {h} : handler'[g] = handler[g]
  PROVE  /\ \A c \in Columns :
              /\ Cardinality(Bearing(c)) \in Nat /\ Cardinality(Bearing(c)') \in Nat
              /\ Cardinality(Bearing(c)') =
                   Cardinality(Bearing(c)) + (IF Bears(h)' = c THEN 1 ELSE 0)
                                           - (IF Bears(h) = c THEN 1 ELSE 0)
         /\ Cardinality(ToTrack) \in Nat /\ Cardinality(ToTrack') \in Nat
         /\ Cardinality(ToTrack') =
              Cardinality(ToTrack) + (IF Bears(h)' # "none" THEN 1 ELSE 0)
                                   - (IF Bears(h) # "none" THEN 1 ELSE 0)
<1>1. \A g \in Workers \ {h} : Bears(g)' = Bears(g)
    BY DEF Bears
<1>2. /\ \A g \in Workers : g \in ToTrack <=> Bears(g) # "none"
      /\ \A g \in Workers : g \in ToTrack' <=> Bears(g)' # "none"
      /\ ToTrack \subseteq Workers /\ ToTrack' \subseteq Workers
  <2>1. "none" \notin Columns
      BY DEF Columns
  <2> QED BY <2>1 DEF ToTrack, Bears
<1>3. ASSUME NEW c \in Columns
      PROVE  /\ Cardinality(Bearing(c)) \in Nat /\ Cardinality(Bearing(c)') \in Nat
             /\ Cardinality(Bearing(c)') =
                  Cardinality(Bearing(c)) + (IF Bears(h)' = c THEN 1 ELSE 0)
                                          - (IF Bears(h) = c THEN 1 ELSE 0)
  <2>1. /\ \A g \in Workers : g \in Bearing(c) <=> Bears(g) = c
        /\ \A g \in Workers : g \in Bearing(c)' <=> Bears(g)' = c
        /\ Bearing(c) \subseteq Workers /\ Bearing(c)' \subseteq Workers
      BY DEF Bearing
  <2>2. Bearing(c) \ {h} = Bearing(c)' \ {h}
      BY <1>1, <2>1
  <2>3. /\ Cardinality(Bearing(c)) \in Nat /\ Cardinality(Bearing(c)') \in Nat
        /\ Cardinality(Bearing(c)') =
             Cardinality(Bearing(c)) + (IF h \in Bearing(c)' THEN 1 ELSE 0)
                                     - (IF h \in Bearing(c) THEN 1 ELSE 0)
      BY <2>1, <2>2, Swap
  <2> QED BY <2>1, <2>3
<1>4. ToTrack \ {h} = ToTrack' \ {h}
    BY <1>1, <1>2
<1>5. /\ Cardinality(ToTrack) \in Nat /\ Cardinality(ToTrack') \in Nat
      /\ Cardinality(ToTrack') =
           Cardinality(ToTrack) + (IF h \in ToTrack' THEN 1 ELSE 0)
                                - (IF h \in ToTrack THEN 1 ELSE 0)
    BY <1>2, <1>4, Swap
<1> QED BY <1>2, <1>3, <1>5

(* A queue holds a number of each column, ... *)
LEMMA CountType ==
  ASSUME NEW q \in Seq(Columns), NEW c
  PROVE  IsFiniteSet(At(q, c)) /\ CountIn(q, c) \in Nat
<1>1. IsFiniteSet(1 .. Len(q))
  <2>1. Len(q) \in Int
      BY LenProperties
  <2> QED BY <2>1, FS_Interval
<1>2. At(q, c) \subseteq 1 .. Len(q)
    BY DEF At
<1>3. IsFiniteSet(At(q, c))
    BY <1>1, <1>2, FS_Subset
<1> QED BY <1>3, FS_CardinalityType DEF CountIn

(* ... none when it is empty, ... *)
LEMMA CountEmpty == \A c : CountIn(<<>>, c) = 0
<1>1. \A c : At(<<>>, c) = {}
    BY DEF At
<1> QED BY <1>1, FS_EmptySet DEF CountIn

(* ... one more of what is appended ... *)
LEMMA CountAppend ==
  ASSUME NEW q \in Seq(Columns), NEW e \in Columns, NEW c
  PROVE  CountIn(Append(q, e), c) = CountIn(q, c) + (IF e = c THEN 1 ELSE 0)
<1> DEFINE r == Append(q, e)
           end == Len(q) + 1
<1>1. Len(q) \in Nat
    BY LenProperties
<1>2. /\ Len(r) = end /\ r[end] = e
      /\ \A n \in 1 .. Len(q) : r[n] = q[n]
    BY AppendProperties
<1>3. IsFiniteSet(At(q, c)) /\ CountIn(q, c) \in Nat
    BY CountType
<1>4. end \notin At(q, c)
    BY <1>1 DEF At
<1> HIDE DEF r
<1>5. CASE e = c
  <2>1. At(r, c) = At(q, c) \cup {end}
      BY <1>1, <1>2, <1>5 DEF At
  <2>2. Cardinality(At(r, c)) = Cardinality(At(q, c)) + 1
      BY <1>3, <1>4, <2>1, FS_AddElement
  <2> QED BY <1>5, <2>2 DEF CountIn, r
<1>6. CASE e # c
  <2>1. At(r, c) = At(q, c)
      BY <1>1, <1>2, <1>6 DEF At
  <2> QED BY <1>3, <1>6, <2>1 DEF CountIn, r
<1> QED BY <1>5, <1>6

(* ... and one less of what is taken from its head. *)
LEMMA CountTail ==
  ASSUME NEW q \in Seq(Columns), q # <<>>, NEW c
  PROVE  CountIn(Tail(q), c) = CountIn(q, c) - (IF Head(q) = c THEN 1 ELSE 0)
<1> DEFINE t == Tail(q)
           f == [n \in At(t, c) |-> n + 1]
           rest == At(q, c) \ {1}
<1>1. Len(q) \in Nat /\ Len(q) >= 1 /\ Head(q) = q[1]
  <2>1. Len(q) \in Nat /\ Len(q) # 0
      BY LenProperties, EmptySeq
  <2> QED BY <2>1
<1>2. /\ t \in Seq(Columns) /\ Len(t) = Len(q) - 1
      /\ \A n \in 1 .. Len(t) : t[n] = q[n + 1]
    BY HeadTailProperties
<1>3. IsFiniteSet(At(t, c)) /\ IsFiniteSet(At(q, c)) /\ CountIn(q, c) \in Nat
    BY <1>2, CountType
<1> HIDE DEF t
<1>4. f \in Bijection(At(t, c), rest)
  <2>1. \A n \in At(t, c) : n \in Nat /\ n + 1 \in rest
      BY <1>1, <1>2 DEF At
  <2>2. f \in [At(t, c) -> rest]
      BY <2>1
  <2>3. ASSUME NEW m \in rest PROVE m - 1 \in At(t, c) /\ f[m - 1] = m
    <3>1. m \in 2 .. Len(q) /\ q[m] = c
        BY <1>1 DEF At
    <3>2. m - 1 \in 1 .. Len(t) /\ (m - 1) + 1 = m
        BY <1>1, <1>2, <3>1
    <3>3. m - 1 \in At(t, c)
        BY <1>2, <3>1, <3>2 DEF At
    <3> QED BY <3>2, <3>3
  <2>4. \A m, n \in At(t, c) : f[m] = f[n] => m = n
      BY <2>1
  <2> HIDE DEF f, rest
  <2>5. \A m \in rest : \E n \in At(t, c) : f[n] = m
      BY <2>3
  <2> QED BY <2>2, <2>4, <2>5 DEF Bijection, Injection, Surjection, IsInjective
<1>5. Cardinality(rest) = Cardinality(At(t, c))
  <2> HIDE DEF f, rest
  <2>1. ExistsBijection(At(t, c), rest)
      BY <1>4 DEF ExistsBijection
  <2> QED BY <1>3, <2>1, FS_Bijection
<1>6. Cardinality(rest) = IF 1 \in At(q, c) THEN CountIn(q, c) - 1 ELSE CountIn(q, c)
    BY <1>3, FS_RemoveElement DEF CountIn
<1>7. 1 \in At(q, c) <=> Head(q) = c
    BY <1>1 DEF At
<1> QED BY <1>3, <1>5, <1>6, <1>7 DEF CountIn, t

----------------------------------------------------------------------------
(* What is on its way to a counter was done, or tried and counted as if. *)
Tokens(c) == Cardinality(Bearing(c)) + CountIn(metricCh, c) + CountIn(counting, c)
Pardon(c) == IF c = "spammers_kicked" THEN faults ELSE 0

Honest ==
  \A d \in Days, c \in Columns : d >= today => Tokens(c) <= behind[d][c] + Pardon(c)

HonestInv == TypeInv /\ CountsAreHonest /\ Honest

(* These are numbers. *)
LEMMA TokensType ==
  ASSUME TypeInv, NEW c \in Columns
  PROVE  /\ Cardinality(Bearing(c)) \in Nat /\ CountIn(metricCh, c) \in Nat
         /\ CountIn(counting, c) \in Nat /\ Tokens(c) \in Nat /\ Pardon(c) \in Nat
<1>1. Cardinality(Bearing(c)) \in Nat
  <2>1. Bearing(c) \subseteq Workers
      BY DEF Bearing
  <2> QED BY <2>1, Constants, FS_Subset, FS_CardinalityType
<1>2. CountIn(metricCh, c) \in Nat /\ CountIn(counting, c) \in Nat
    BY CountType DEF TypeInv, TypeOK
<1>3. Pardon(c) \in Nat
    BY DEF Pardon, TypeInv, TypeOK
<1> QED BY <1>1, <1>2, <1>3 DEF Tokens

(* In every state, ... *)
LEMMA TokensAreNumbers == TypeInv => \A c \in Columns : Tokens(c) \in Nat
BY TokensType

(* ... so in the next. *)
LEMMA TokensNext == TypeInv' => \A c \in Columns : Tokens(c)' \in Nat
<1>1. (TypeInv => \A c \in Columns : Tokens(c) \in Nat)'
    BY TokensAreNumbers, PTL
<1> QED BY <1>1

(* A step that leaves the days before as they are needs to be honest about  *)
(* those from today on.                                                     *)
LEMMA HonestKept ==
  ASSUME HonestInv, TypeInv', Honest', faults' >= faults,
         \A d \in Days, c \in Columns : d < today' => behind'[d][c] = behind[d][c]
  PROVE  HonestInv'
<1> SUFFICES ASSUME NEW d \in Days, NEW c \in Columns
             PROVE  behind'[d][c] >= IF c = "spammers_kicked" THEN -faults' ELSE 0
    BY DEF HonestInv, CountsAreHonest
<1>1. d \in Nat /\ today' \in Nat /\ behind'[d][c] \in Int /\ faults' \in Nat
    BY SMTT(20), Constants DEF TypeInv, TypeOK, Days
<1>2. faults \in Nat /\ behind[d][c] \in Int
    BY SMTT(20) DEF HonestInv, TypeInv, TypeOK
<1>3. CASE d < today'
  <2>1. behind[d][c] >= IF c = "spammers_kicked" THEN -faults ELSE 0
      BY DEF HonestInv, CountsAreHonest
  <2>2. behind'[d][c] = behind[d][c]
      BY <1>3
  <2> QED BY <1>1, <1>2, <2>1, <2>2
<1>4. CASE d >= today'
  <2>1. Tokens(c)' <= behind'[d][c] + Pardon(c)'
      BY <1>4 DEF Honest
  <2>2. Tokens(c)' \in Nat
      BY TokensNext
  <2>3. Pardon(c)' = IF c = "spammers_kicked" THEN faults' ELSE 0
      BY DEF Pardon
  <2> QED BY <1>1, <2>1, <2>2, <2>3
<1> QED BY <1>1, <1>3, <1>4

(* A handler that begins has nothing to count, ... *)
LEMMA BeginBears ==
  ASSUME TypeInv, NEW h \in Workers, Begin(h)
  PROVE  /\ \A g \in Workers \ {h} : handler'[g] = handler[g]
         /\ Bears(h) = "none" /\ Bears(h)' = "none"
<1>1. PICK plan \in Plans : handler' = [handler EXCEPT ![h] = plan]
    BY DEF Begin
<1>2. handler \in [Workers -> Seq(Call)] /\ handler[h] = <<>>
    BY DEF TypeInv, TypeOK, Begin
<1>3. handler'[h] = plan /\ \A g \in Workers \ {h} : handler'[g] = handler[g]
    BY <1>1, <1>2
<1>4. Head(plan) \notin Columns
  <2>1. plan \in Seq(Call) /\ plan # <<>> /\ \A n \in 1 .. Len(plan) : plan[n] \notin Columns
      BY PlansArePlain DEF Plain
  <2>2. Len(plan) \in Nat /\ Len(plan) # 0
      BY <2>1, LenProperties, EmptySeq
  <2>3. Head(plan) = plan[1] /\ 1 \in 1 .. Len(plan)
      BY <2>1, <2>2
  <2> QED BY <2>1, <2>3
<1> QED BY <1>2, <1>3, <1>4 DEF Bears

(* ... and one that moves on may have. *)
LEMMA GoesBears ==
  ASSUME TypeInv, NEW h \in Workers, NEW first \in Firsts, handler[h] # <<>>, Goes(h, first)
  PROVE  /\ \A g \in Workers \ {h} : handler'[g] = handler[g]
         /\ first = <<>> => Bears(h)' = "none"
         /\ first # <<>> => first[1] \in Columns /\ Bears(h)' = first[1]
<1>1. /\ \A g \in Workers \ {h} : handler'[g] = handler[g]
      /\ IF first = <<>>
         THEN handler'[h] # <<>> => Head(handler'[h]) \notin Columns
         ELSE handler'[h] # <<>> /\ Head(handler'[h]) = first[1]
    BY HandlerMoves DEF TypeInv
<1>2. first # <<>> => first[1] \in Columns
  <2>1. ASSUME NEW c \in Columns, first = <<c>> PROVE first[1] \in Columns
      BY <2>1
  <2>2. CASE first = <<"strikes_issued", "ban">>
      BY <2>2 DEF Columns
  <2> QED BY <2>1, <2>2 DEF Firsts
<1> QED BY <1>1, <1>2 DEF Bears

(* Honesty in terms of how much a step changes. *)
LEMMA Balance ==
  ASSUME NEW t \in Int, NEW b \in Int, NEW p \in Int, t <= b + p,
         NEW t2 \in Int, NEW b2 \in Int, NEW p2 \in Int, t2 - t <= (b2 - b) + (p2 - p)
  PROVE  t2 <= b2 + p2
OBVIOUS

(* For every day still to come and every column. *)
LEMMA HonestBy ==
  ASSUME HonestInv, TypeInv', faults' >= faults, today' >= today,
         \A d \in Days, c \in Columns : d < today' => behind'[d][c] = behind[d][c],
         \A d \in Days, c \in Columns : d >= today' =>
           Tokens(c)' - Tokens(c) <= (behind'[d][c] - behind[d][c]) + (Pardon(c)' - Pardon(c))
  PROVE  HonestInv'
<1>1. ASSUME NEW d \in Days, NEW c \in Columns, d >= today'
      PROVE  Tokens(c)' <= behind'[d][c] + Pardon(c)'
  <2>1. d \in Nat /\ today \in Nat /\ today' \in Nat
      BY Constants DEF HonestInv, TypeInv, TypeOK, Days
  <2>2. Tokens(c) \in Int /\ Pardon(c) \in Int /\ behind[d][c] \in Int
    <3>1. TypeInv /\ behind \in [Days -> [Columns -> Int]]
        BY DEF HonestInv, TypeInv, TypeOK
    <3>2. Tokens(c) \in Nat /\ Pardon(c) \in Nat
        BY <3>1, TokensType
    <3> QED BY <3>1, <3>2
  <2>3. Tokens(c)' \in Int
      BY TokensNext
  <2>4. Pardon(c)' \in Int /\ behind'[d][c] \in Int
      BY DEF TypeInv, TypeOK, Pardon
  <2>5. Tokens(c) <= behind[d][c] + Pardon(c)
      BY <1>1, <2>1 DEF HonestInv, Honest
  <2>6. Tokens(c)' - Tokens(c) <= (behind'[d][c] - behind[d][c]) + (Pardon(c)' - Pardon(c))
      BY <1>1
  <2> QED BY <2>2, <2>3, <2>4, <2>5, <2>6, Balance
<1>2. Honest'
    BY <1>1 DEF Honest
<1> QED BY <1>2, HonestKept

(* The steps of a handler are honest. *)
LEMMA HandlerHonest ==
  ASSUME HonestInv, TypeInv', NEW h \in Workers, Begin(h) \/ HandlerStep(h)
  PROVE  HonestInv'
<1>0. /\ TypeInv /\ TypeOK /\ today \in Nat /\ faults \in Nat
      /\ \A d \in Days : d \in Nat
      /\ \A d \in Days, c \in Columns : behind[d][c] \in Int
      /\ <<>> \in Firsts /\ "spammers_kicked" \in Columns /\ "none" \notin Columns
  <2>1. TypeInv /\ TypeOK
      BY DEF HonestInv, TypeInv
  <2>2. today \in Days /\ faults \in Nat /\ behind \in [Days -> [Columns -> Int]]
      BY <2>1 DEF TypeOK
  <2>3. <<>> \in Firsts /\ "spammers_kicked" \in Columns /\ "none" \notin Columns
      BY DEF Firsts, Columns
  <2>4. \A d \in Days : d \in Nat
      BY Constants DEF Days
  <2> QED BY <2>1, <2>2, <2>3, <2>4
<1>1. \A c \in Columns : /\ Cardinality(Bearing(c)) \in Nat /\ CountIn(metricCh, c) \in Nat
                         /\ CountIn(counting, c) \in Nat /\ Pardon(c) \in Nat
    BY <1>0, TokensType
<1>2. CASE Begin(h)
  <2>1. UNCHANGED <<today, behind, faults, metricCh, counting>>
      BY <1>2 DEF Begin, Works, calendar, metrics
  <2>2. ASSUME NEW c \in Columns PROVE Tokens(c)' = Tokens(c) /\ Pardon(c)' = Pardon(c)
    <3>1. Cardinality(Bearing(c)') = Cardinality(Bearing(c))
        BY SMTT(20), <1>0, <1>1, <1>2, BeginBears, Passes
    <3> QED BY <2>1, <3>1 DEF Tokens, Pardon
  <2>3. \A c \in Columns : Tokens(c) \in Nat
      BY <1>0, TokensType
  <2> QED BY SMTT(20), <1>0, <1>1, <2>1, <2>2, <2>3, HonestBy
<1>3. CASE Delete(h) \/ Strike(h) \/ Ban(h)
  <2>1. /\ Quiet /\ UNCHANGED <<metrics, audits, dropped>> /\ handler[h] # <<>>
        /\ Head(handler[h]) \notin Columns
        /\ \E first \in Firsts :
              /\ Goes(h, first)
              /\ \/ first # <<>> /\ Happens(first[1]) /\ first[1] \in Columns /\ Works
                 \/ first = <<>> /\ behind' = behind /\ Fails
                 \/ first = <<>> /\ (\E c \in Columns : Happens(c)) /\ Fails
                 \/ first = <<"spammers_kicked">> /\ behind' = behind /\ Fails
      BY <1>3, Moderates
  <2>2. PICK first \in Firsts :
              /\ Goes(h, first)
              /\ \/ first # <<>> /\ Happens(first[1]) /\ first[1] \in Columns /\ Works
                 \/ first = <<>> /\ behind' = behind /\ Fails
                 \/ first = <<>> /\ (\E c \in Columns : Happens(c)) /\ Fails
                 \/ first = <<"spammers_kicked">> /\ behind' = behind /\ Fails
      BY <2>1
  <2>3. UNCHANGED <<today, metricCh, counting>>
      BY <2>1 DEF Quiet, calendar, metrics
  <2>4. /\ \A g \in Workers \ {h} : handler'[g] = handler[g]
        /\ Bears(h) = "none"
        /\ first = <<>> => Bears(h)' = "none"
        /\ first # <<>> => first[1] \in Columns /\ Bears(h)' = first[1]
      BY <1>0, <2>1, <2>2, GoesBears DEF Bears
  <2>5. ASSUME NEW c \in Columns
        PROVE  Tokens(c)' - Tokens(c) = IF Bears(h)' = c THEN 1 ELSE 0
    <3>1. /\ Cardinality(Bearing(c)) \in Nat /\ Cardinality(Bearing(c)') \in Nat
          /\ Cardinality(Bearing(c)') =
               Cardinality(Bearing(c)) + (IF Bears(h)' = c THEN 1 ELSE 0)
                                       - (IF Bears(h) = c THEN 1 ELSE 0)
        BY <2>4, Passes
    <3>2. Bears(h) # c
        BY <1>0, <2>4
    <3>3. CountIn(metricCh', c) = CountIn(metricCh, c) /\ CountIn(counting', c) = CountIn(counting, c)
        BY <2>3
    <3>4. /\ Tokens(c)' = Cardinality(Bearing(c)') + CountIn(metricCh', c) + CountIn(counting', c)
          /\ Tokens(c) = Cardinality(Bearing(c)) + CountIn(metricCh, c) + CountIn(counting, c)
        BY DEF Tokens
    <3> HIDE DEF Bears, Bearing, CountIn
    <3>5. CASE Bears(h)' = c
        BY <1>1, <3>1, <3>2, <3>3, <3>4, <3>5
    <3>6. CASE Bears(h)' # c
        BY <1>1, <3>1, <3>2, <3>3, <3>4, <3>6
    <3> QED BY <3>5, <3>6
  <2>6. faults' >= faults
      BY <1>0, <2>2, FaultsType
  <2>7. ASSUME NEW d \in Days, NEW c \in Columns
        PROVE  /\ d < today' => behind'[d][c] = behind[d][c]
               /\ d >= today' => Tokens(c)' - Tokens(c) <=
                                  (behind'[d][c] - behind[d][c]) + (Pardon(c)' - Pardon(c))
    <3>0. /\ behind[d][c] \in Int /\ Pardon(c) \in Nat /\ faults \in Nat /\ today' = today
          /\ d \in Nat /\ today \in Nat
        BY <1>0, <1>1, <2>3
    <3>5. Pardon(c)' \in Nat
        BY DEF Pardon, TypeInv, TypeOK
    <3>1. CASE first # <<>> /\ Happens(first[1]) /\ first[1] \in Columns /\ Works
      <4>1. behind'[d][c] =
              IF c = first[1] /\ d >= today THEN behind[d][c] + 1 ELSE behind[d][c]
          BY <1>0, <3>1, BehindStep
      <4>2. Pardon(c)' = Pardon(c)
          BY <3>1 DEF Pardon, Works
      <4>3. Bears(h)' = first[1]
          BY <2>4, <3>1
      <4> QED BY <2>5, <3>0, <4>1, <4>2, <4>3
    <3>2. CASE first = <<>> /\ behind' = behind /\ Fails
      <4>1. Bears(h)' # c /\ faults' = faults + 1
          BY <1>0, <2>4, <3>2 DEF Fails
      <4>2. Pardon(c)' - Pardon(c) >= 0
          BY <3>0, <4>1 DEF Pardon
      <4>3. behind'[d][c] = behind[d][c] /\ Tokens(c)' - Tokens(c) = 0
          BY <2>5, <3>2, <4>1
      <4> QED BY <3>0, <3>5, <4>2, <4>3
    <3>3. CASE first = <<>> /\ (\E e \in Columns : Happens(e)) /\ Fails
      <4>1. Bears(h)' # c /\ faults' = faults + 1
          BY <1>0, <2>4, <3>3 DEF Fails
      <4>2. Pardon(c)' - Pardon(c) >= 0
          BY <3>0, <4>1 DEF Pardon
      <4>3. PICK e \in Columns : Happens(e)
          BY <3>3
      <4>4. behind'[d][c] =
              IF c = e /\ d >= today THEN behind[d][c] + 1 ELSE behind[d][c]
          BY <1>0, <4>3, BehindStep
      <4>5. Tokens(c)' - Tokens(c) = 0
          BY <2>5, <4>1
      <4>6. behind'[d][c] \in Int /\ behind'[d][c] >= behind[d][c] /\ (d < today => behind'[d][c] = behind[d][c])
          BY <3>0, <4>4
      <4> QED BY <3>0, <3>5, <4>2, <4>5, <4>6
    <3>4. CASE first = <<"spammers_kicked">> /\ behind' = behind /\ Fails
      <4>1. Bears(h)' = "spammers_kicked" /\ faults' = faults + 1
          BY <2>4, <3>4 DEF Fails
      <4>2. Pardon(c)' - Pardon(c) = IF c = "spammers_kicked" THEN 1 ELSE 0
          BY <3>0, <4>1 DEF Pardon
      <4>3. behind'[d][c] = behind[d][c]
          BY <3>4
      <4>4. Tokens(c)' - Tokens(c) = IF c = "spammers_kicked" THEN 1 ELSE 0
          BY <2>5, <4>1
      <4> QED BY <3>0, <3>5, <4>2, <4>3, <4>4
    <3> QED BY <2>2, <3>1, <3>2, <3>3, <3>4
  <2> QED BY <1>0, <2>3, <2>6, <2>7, HonestBy
<1>4. CASE Track(h)
  <2>1. /\ Quiet /\ UNCHANGED <<rows, counting, audits, behind>> /\ handler[h] # <<>>
        /\ Head(handler[h]) \in Columns /\ Goes(h, <<>>) /\ Works
        /\ metricCh' = Append(metricCh, Head(handler[h])) \/ metricCh' = metricCh
      BY <1>4 DEF Track
  <2>2. UNCHANGED <<today, behind, faults, counting>>
      BY <2>1 DEF Quiet, Works, calendar
  <2>3. /\ \A g \in Workers \ {h} : handler'[g] = handler[g]
        /\ Bears(h)' = "none" /\ Bears(h) = Head(handler[h])
      BY <1>0, <2>1, GoesBears DEF Bears
  <2>4. ASSUME NEW c \in Columns
        PROVE  Tokens(c)' - Tokens(c) <= 0 /\ Pardon(c)' - Pardon(c) = 0
    <3>1. /\ Cardinality(Bearing(c)') \in Nat
          /\ Cardinality(Bearing(c)') =
               Cardinality(Bearing(c)) - (IF Bears(h) = c THEN 1 ELSE 0)
      <4>1. /\ Cardinality(Bearing(c)) \in Nat /\ Cardinality(Bearing(c)') \in Nat
            /\ Cardinality(Bearing(c)') =
                 Cardinality(Bearing(c)) + (IF Bears(h)' = c THEN 1 ELSE 0)
                                         - (IF Bears(h) = c THEN 1 ELSE 0)
          BY <2>3, Passes
      <4>2. Bears(h)' # c
          BY <1>0, <2>3
      <4> QED BY <4>1, <4>2
    <3>2. /\ CountIn(metricCh', c) \in Nat
          /\ CountIn(metricCh', c) <= CountIn(metricCh, c) + (IF Bears(h) = c THEN 1 ELSE 0)
      <4>1. CASE metricCh' = Append(metricCh, Head(handler[h]))
        <5>1. metricCh \in Seq(Columns)
            BY <1>0 DEF TypeOK
        <5>2. CountIn(metricCh', c) =
                CountIn(metricCh, c) + (IF Head(handler[h]) = c THEN 1 ELSE 0)
            BY <2>1, <4>1, <5>1, CountAppend
        <5> QED BY <1>1, <2>3, <5>2
      <4>2. CASE metricCh' = metricCh
          BY <1>1, <4>2
      <4> QED BY <2>1, <4>1, <4>2
    <3>3. CountIn(counting', c) = CountIn(counting, c)
        BY <2>2
    <3>4. /\ Tokens(c)' = Cardinality(Bearing(c)') + CountIn(metricCh', c) + CountIn(counting', c)
          /\ Tokens(c) = Cardinality(Bearing(c)) + CountIn(metricCh, c) + CountIn(counting, c)
        BY DEF Tokens
    <3>5. Pardon(c)' = Pardon(c)
        BY <2>2 DEF Pardon
    <3> HIDE DEF Bears, Bearing, CountIn
    <3>6. Tokens(c)' - Tokens(c) <= 0
      <4>1. CASE Bears(h) = c
          BY <1>1, <3>1, <3>2, <3>3, <3>4, <4>1
      <4>2. CASE Bears(h) # c
          BY <1>1, <3>1, <3>2, <3>3, <3>4, <4>2
      <4> QED BY <4>1, <4>2
    <3> QED BY <1>1, <3>5, <3>6
  <2>5. /\ faults' >= faults /\ today' >= today
        /\ \A d \in Days, c \in Columns : behind'[d][c] - behind[d][c] = 0
      BY <1>0, <2>2
  <2> QED BY <1>0, <2>2, <2>4, <2>5, HonestBy
<1>5. CASE Audit(h)
  <2>1. /\ handler[h] # <<>> /\ Head(handler[h]) \notin Columns /\ Goes(h, <<>>)
        /\ UNCHANGED <<today, behind, faults, counting, metricCh>>
    <3>1. "audit" \notin Columns
        BY DEF Columns
    <3> QED BY <1>5, <3>1 DEF Audit, Calls, Quiet, Works, calendar, metrics
  <2>2. /\ \A g \in Workers \ {h} : handler'[g] = handler[g]
        /\ Bears(h)' = "none" /\ Bears(h) = "none"
      BY <1>0, <2>1, GoesBears DEF Bears
  <2>3. ASSUME NEW c \in Columns PROVE Tokens(c)' = Tokens(c) /\ Pardon(c)' = Pardon(c)
    <3>1. Cardinality(Bearing(c)') = Cardinality(Bearing(c))
      <4>1. /\ Cardinality(Bearing(c)) \in Nat
            /\ Cardinality(Bearing(c)') =
                 Cardinality(Bearing(c)) + (IF Bears(h)' = c THEN 1 ELSE 0)
                                         - (IF Bears(h) = c THEN 1 ELSE 0)
          BY <2>2, Passes
      <4>2. Bears(h)' # c /\ Bears(h) # c
          BY <1>0, <2>2
      <4> QED BY <4>1, <4>2
    <3> QED BY <2>1, <3>1 DEF Tokens, Pardon
  <2>4. \A c \in Columns : Tokens(c) \in Nat
      BY <1>0, TokensType
  <2> QED BY <1>0, <1>1, <2>1, <2>3, <2>4, HonestBy
<1> QED BY <1>2, <1>3, <1>4, <1>5 DEF HandlerStep

(* Those of the workers of the queues, the days and a restart are. *)
LEMMA WorkerHonest ==
  ASSUME HonestInv, TypeInv',
         TakeMetric \/ TrackMetric \/ TakeAudit \/ Log \/ Midnight \/ Report \/ Restart
  PROVE  HonestInv'
<1>0. /\ TypeInv /\ TypeOK /\ today \in Nat /\ faults \in Nat
      /\ \A d \in Days : d \in Nat
      /\ \A d \in Days, c \in Columns : behind[d][c] \in Int
  <2>1. TypeInv /\ TypeOK
      BY DEF HonestInv, TypeInv
  <2>2. today \in Days /\ faults \in Nat /\ behind \in [Days -> [Columns -> Int]]
      BY <2>1 DEF TypeOK
  <2>3. \A d \in Days : d \in Nat
      BY Constants DEF Days
  <2> QED BY <2>1, <2>2, <2>3
<1>1. \A c \in Columns : /\ Cardinality(Bearing(c)) \in Nat /\ CountIn(metricCh, c) \in Nat
                         /\ CountIn(counting, c) \in Nat /\ Pardon(c) \in Nat
                         /\ Tokens(c) \in Nat
    BY <1>0, TokensType
<1>2. /\ handler' = handler => \A c : Bearing(c)' = Bearing(c)
      /\ UNCHANGED <<handler, metricCh, counting>> => \A c : Tokens(c)' = Tokens(c)
    BY DEF Bearing, Bears, Tokens
<1>3. \A c \in Columns : Pardon(c)' \in Nat /\ (faults' >= faults => Pardon(c)' >= Pardon(c))
    BY <1>0 DEF Pardon, TypeInv, TypeOK
<1>4. CASE TakeMetric
  <2>1. /\ counting = <<>> /\ metricCh # <<>> /\ metricCh \in Seq(Columns)
        /\ counting' = <<Head(metricCh)>> /\ metricCh' = Tail(metricCh)
        /\ UNCHANGED <<today, behind, faults, handler>>
      BY <1>0, <1>4 DEF TakeMetric, Quiet, Works, calendar, TypeOK
  <2>2. ASSUME NEW c \in Columns PROVE Tokens(c)' = Tokens(c) /\ Pardon(c)' = Pardon(c)
    <3>1. CountIn(metricCh', c) = CountIn(metricCh, c) - (IF Head(metricCh) = c THEN 1 ELSE 0)
        BY <2>1, CountTail
    <3>2. CountIn(counting, c) = 0 /\ CountIn(counting', c) = IF Head(metricCh) = c THEN 1 ELSE 0
      <4>1. counting' = Append(<<>>, Head(metricCh)) /\ <<>> \in Seq(Columns)
          BY <2>1
      <4>2. Head(metricCh) \in Columns
          BY <2>1, HeadTailProperties
      <4>3. CountIn(<<>>, c) = 0
          BY CountEmpty
      <4>4. CountIn(Append(<<>>, Head(metricCh)), c) =
              CountIn(<<>>, c) + (IF Head(metricCh) = c THEN 1 ELSE 0)
          BY <4>1, <4>2, CountAppend
      <4>5. CountIn(counting', c) = CountIn(Append(<<>>, Head(metricCh)), c)
          BY <4>1
      <4>6. CountIn(counting, c) = 0
          BY <2>1, <4>3
      <4> HIDE DEF CountIn
      <4> QED BY <4>3, <4>4, <4>5, <4>6
    <3>3. /\ Tokens(c)' = Cardinality(Bearing(c)') + CountIn(metricCh', c) + CountIn(counting', c)
          /\ Tokens(c) = Cardinality(Bearing(c)) + CountIn(metricCh, c) + CountIn(counting, c)
        BY DEF Tokens
    <3>4. Cardinality(Bearing(c)') = Cardinality(Bearing(c))
        BY <1>2, <2>1
    <3>5. Pardon(c)' = Pardon(c)
        BY <2>1 DEF Pardon
    <3> HIDE DEF Bearing, CountIn
    <3> QED BY <1>1, <3>1, <3>2, <3>3, <3>4, <3>5
  <2>3. ASSUME NEW d \in Days, NEW c \in Columns
        PROVE  /\ behind'[d][c] = behind[d][c]
               /\ Tokens(c)' - Tokens(c) <=
                                  (behind'[d][c] - behind[d][c]) + (Pardon(c)' - Pardon(c))
    <3>1. /\ behind'[d][c] = behind[d][c] /\ Tokens(c)' = Tokens(c) /\ Tokens(c) \in Nat
          /\ Pardon(c)' = Pardon(c) /\ Pardon(c) \in Nat /\ behind[d][c] \in Int
        BY <1>0, <1>1, <2>1, <2>2
    <3> QED BY <3>1
  <2>4. faults' >= faults /\ today' >= today
      BY <1>0, <2>1
  <2> QED BY <2>3, <2>4, HonestBy
<1>5. CASE TrackMetric
  <2>1. /\ counting # <<>> /\ counting' = <<>>
        /\ CountIt \/ CountNot
        /\ Works \/ Fails
        /\ UNCHANGED <<today, handler, metricCh>>
      BY <1>5 DEF TrackMetric, Quiet, calendar
  <2>2. /\ Head(counting) \in Columns /\ counting = <<Head(counting)>>
        /\ <<>> \in Seq(Columns)
    <3>0. TypeOK /\ counting # <<>>
        BY <1>0, <2>1
    <3>1. Head(counting) \in Columns /\ Len(counting) = 1 /\ counting[1] = Head(counting)
        BY <3>0, InHandType
    <3>2. counting \in Seq(Columns)
        BY <1>0 DEF TypeOK
    <3> QED BY <3>1, <3>2
  <2>3. faults' >= faults
      BY <1>0, <2>1, FaultsType
  <2>4. ASSUME NEW c \in Columns
        PROVE  /\ Tokens(c)' = Tokens(c) - (IF Head(counting) = c THEN 1 ELSE 0)
               /\ Tokens(c)' \in Int /\ Pardon(c)' >= Pardon(c)
    <3>1. CountIn(counting, c) = (IF Head(counting) = c THEN 1 ELSE 0) /\ CountIn(counting', c) = 0
      <4>1. counting = Append(<<>>, Head(counting))
          BY <2>2
      <4>2. CountIn(<<>>, c) = 0
          BY CountEmpty
      <4>3. CountIn(Append(<<>>, Head(counting)), c) =
              CountIn(<<>>, c) + (IF Head(counting) = c THEN 1 ELSE 0)
          BY <2>2, CountAppend
      <4>4. CountIn(counting, c) = CountIn(Append(<<>>, Head(counting)), c)
          BY <4>1
      <4>5. CountIn(counting', c) = 0
          BY <2>1, <4>2
      <4> HIDE DEF CountIn
      <4> QED BY <4>2, <4>3, <4>4, <4>5
    <3>2. /\ Tokens(c)' = Cardinality(Bearing(c)') + CountIn(metricCh', c) + CountIn(counting', c)
          /\ Tokens(c) = Cardinality(Bearing(c)) + CountIn(metricCh, c) + CountIn(counting, c)
        BY DEF Tokens
    <3>3. /\ Cardinality(Bearing(c)') = Cardinality(Bearing(c))
          /\ CountIn(metricCh', c) = CountIn(metricCh, c)
        BY <1>2, <2>1
    <3>4. Pardon(c)' >= Pardon(c)
        BY <1>3, <2>3
    <3> HIDE DEF Bearing, CountIn
    <3> QED BY <1>1, <3>1, <3>2, <3>3, <3>4
  <2>5. ASSUME NEW d \in Days, NEW c \in Columns
        PROVE  /\ d < today' => behind'[d][c] = behind[d][c]
               /\ d >= today' => Tokens(c)' - Tokens(c) <=
                                  (behind'[d][c] - behind[d][c]) + (Pardon(c)' - Pardon(c))
    <3>0. /\ behind[d][c] \in Int /\ Pardon(c) \in Nat /\ today' = today /\ Tokens(c) \in Nat
          /\ d \in Nat /\ today \in Nat /\ Pardon(c)' \in Nat /\ Pardon(c)' >= Pardon(c)
          /\ Tokens(c)' = Tokens(c) - (IF Head(counting) = c THEN 1 ELSE 0)
        BY <1>0, <1>1, <1>3, <2>1, <2>4
    <3>1. CASE CountIt
      <4>1. behind'[d][c] =
              IF c = Head(counting) /\ d >= today THEN behind[d][c] - 1 ELSE behind[d][c]
          BY <1>0, <2>2, <3>1, BehindStep DEF CountIt
      <4> QED BY <3>0, <4>1
    <3>2. CASE CountNot
      <4>1. behind'[d][c] = behind[d][c]
          BY <3>2 DEF CountNot
      <4> QED BY <3>0, <4>1
    <3> QED BY <2>1, <3>1, <3>2
  <2>6. today' >= today
      BY <1>0, <2>1
  <2> QED BY <2>3, <2>5, <2>6, HonestBy
<1>6. CASE TakeAudit \/ Log \/ Midnight \/ Report
  <2>1. /\ UNCHANGED <<behind, handler, metricCh, counting>>
        /\ today' = today \/ today' = today + 1
        /\ Works \/ Fails
      BY <1>6 DEF TakeAudit, Log, Midnight, Report, Works, Quiet, calendar, metrics
  <2>2. faults' >= faults /\ today' >= today
      BY <1>0, <2>1, FaultsType
  <2>3. ASSUME NEW d \in Days, NEW c \in Columns
        PROVE  /\ behind'[d][c] = behind[d][c]
               /\ Tokens(c)' - Tokens(c) <=
                                  (behind'[d][c] - behind[d][c]) + (Pardon(c)' - Pardon(c))
    <3>1. /\ behind'[d][c] = behind[d][c] /\ Tokens(c)' = Tokens(c)
          /\ Pardon(c)' >= Pardon(c) /\ Pardon(c)' \in Nat /\ Pardon(c) \in Nat
          /\ Tokens(c) \in Nat /\ behind[d][c] \in Int
        BY <1>0, <1>1, <1>2, <1>3, <2>1, <2>2
    <3> QED BY <3>1
  <2> QED BY <2>2, <2>3, HonestBy
<1>7. CASE Restart
  <2>1. /\ UNCHANGED <<today, behind, faults>>
        /\ \A h \in Workers : handler'[h] = <<>>
        /\ metricCh' = <<>> /\ counting' = <<>>
      BY <1>7 DEF Restart, Works
  <2>2. \A c \in Columns : Tokens(c)' = 0
    <3> SUFFICES ASSUME NEW c \in Columns PROVE Tokens(c)' = 0
        OBVIOUS
    <3>1. \A h \in Workers : Bears(h)' = "none"
        BY <2>1 DEF Bears
    <3>2. Bearing(c)' = {}
      <4>1. "none" # c
          BY DEF Columns
      <4> QED BY <3>1, <4>1 DEF Bearing
    <3>3. CountIn(metricCh', c) = 0 /\ CountIn(counting', c) = 0
        BY <2>1, CountEmpty
    <3> QED BY <3>2, <3>3, FS_EmptySet DEF Tokens
  <2>3. ASSUME NEW d \in Days, NEW c \in Columns
        PROVE  /\ behind'[d][c] = behind[d][c]
               /\ Tokens(c)' - Tokens(c) <=
                                  (behind'[d][c] - behind[d][c]) + (Pardon(c)' - Pardon(c))
    <3>1. /\ behind'[d][c] = behind[d][c] /\ Tokens(c)' = 0 /\ Tokens(c) \in Nat
          /\ Pardon(c)' = Pardon(c) /\ Pardon(c) \in Nat /\ behind[d][c] \in Int
        BY <1>0, <1>1, <2>1, <2>2 DEF Pardon
    <3> QED BY <3>1
  <2>4. faults' >= faults /\ today' >= today
      BY <1>0, <2>1
  <2> QED BY <2>3, <2>4, HonestBy
<1> QED BY <1>4, <1>5, <1>6, <1>7

(* Every step is honest. *)
LEMMA HonestStep == HonestInv /\ TypeInv' /\ [Next]_vars => HonestInv'
<1> SUFFICES ASSUME HonestInv, TypeInv', [Next]_vars PROVE HonestInv'
    OBVIOUS
<1>1. CASE UNCHANGED vars
  <2>1. UNCHANGED <<today, behind, handler, metricCh, counting, faults>>
      BY <1>1 DEF vars, calendar, metrics
  <2>2. CountsAreHonest'
      BY <2>1 DEF HonestInv, CountsAreHonest
  <2>3. Honest'
      BY <2>1 DEF HonestInv, Honest, Tokens, Pardon, Bearing, Bears
  <2> QED BY <2>2, <2>3 DEF HonestInv
<1> QED BY <1>1, HandlerHonest, WorkerHonest DEF Next

(* At the start nothing was done. *)
LEMMA HonestInit == Init => HonestInv
<1> SUFFICES ASSUME Init PROVE HonestInv
    OBVIOUS
<1>1. /\ \A d \in Days, c \in Columns : behind[d][c] = 0
      /\ \A h \in Workers : handler[h] = <<>>
      /\ metricCh = <<>> /\ counting = <<>> /\ faults = 0
    BY DEF Init
<1>2. \A c \in Columns : Tokens(c) = 0 /\ Pardon(c) = 0
  <2> SUFFICES ASSUME NEW c \in Columns PROVE Tokens(c) = 0 /\ Pardon(c) = 0
      OBVIOUS
  <2>1. Bearing(c) = {}
    <3>1. "none" # c
        BY DEF Columns
    <3> QED BY <1>1, <3>1 DEF Bearing, Bears
  <2>2. CountIn(metricCh, c) = 0 /\ CountIn(counting, c) = 0
      BY <1>1, CountEmpty
  <2>3. Pardon(c) = 0
      BY <1>1 DEF Pardon
  <2> QED BY <2>1, <2>2, <2>3, FS_EmptySet DEF Tokens
<1>3. CountsAreHonest
    BY <1>1 DEF CountsAreHonest
<1>4. Honest
    BY <1>1, <1>2 DEF Honest
<1> QED BY <1>3, <1>4, TypeInit DEF HonestInv

(* No counter runs ahead of what was done, but for the bans that failed:    *)
(* what is counted was in a handler's hands once, for something it did.     *)
THEOREM CountsStayHonest == Spec => []CountsAreHonest
<1>1. HonestInv => CountsAreHonest
    BY DEF HonestInv
<1> QED BY <1>1, HonestInit, HonestStep, TypeInit, TypeStep, PTL DEF Spec

----------------------------------------------------------------------------
(* What the ends of the process may have taken with them. *)
Died == crashes * (MetricQueueSize + 1 + Cardinality(Workers))
DiedAudits == crashes * (AuditQueueSize + 1)

(* The two parts of LossesHaveReasons. *)
MetricsLost == Uncounted(behind[MaxDay]) - OnTheWay <= dropped.metrics + faults + Died
AuditsLost ==
  LogChannel => unlogged - auditCh - logging <= dropped.audits + faults + DiedAudits

LossInv == TypeInv /\ MetricsLost /\ AuditsLost

(* What they are made of is numbers. *)
LEMMA LossTypes ==
  TypeInv =>
    /\ Uncounted(behind[MaxDay]) \in Int /\ Cardinality(ToTrack) \in Nat
    /\ Len(metricCh) \in Nat /\ Len(counting) \in Nat
    /\ dropped.metrics \in Nat /\ dropped.audits \in Nat
    /\ faults \in Nat /\ Died \in Nat /\ DiedAudits \in Nat
    /\ unlogged \in Int /\ auditCh \in Nat /\ logging \in Nat
<1> SUFFICES ASSUME TypeInv
             PROVE  /\ Uncounted(behind[MaxDay]) \in Int /\ Cardinality(ToTrack) \in Nat
                    /\ Len(metricCh) \in Nat /\ Len(counting) \in Nat
                    /\ dropped.metrics \in Nat /\ dropped.audits \in Nat
                    /\ faults \in Nat /\ Died \in Nat /\ DiedAudits \in Nat
                    /\ unlogged \in Int /\ auditCh \in Nat /\ logging \in Nat
    OBVIOUS
<1>1. TypeOK
    BY DEF TypeInv
<1>2. Uncounted(behind[MaxDay]) \in Int
  <2>1. MaxDay \in Days
      BY Constants DEF Days
  <2>2. \A c \in Columns : behind[MaxDay][c] \in Int
      BY <1>1, <2>1 DEF TypeOK
  <2> QED BY <2>2 DEF Uncounted, Columns
<1>3. Cardinality(ToTrack) \in Nat
  <2>1. ToTrack \subseteq Workers
      BY DEF ToTrack
  <2> QED BY <2>1, Constants, FS_Subset, FS_CardinalityType
<1>4. /\ Len(metricCh) \in Nat /\ Len(counting) \in Nat
      /\ dropped.metrics \in Nat /\ dropped.audits \in Nat
      /\ faults \in Nat /\ crashes \in Nat
      /\ unlogged \in Int /\ auditCh \in Nat /\ logging \in Nat
    BY <1>1, Constants DEF TypeOK
<1>5. Died \in Nat /\ DiedAudits \in Nat
    BY <1>4, Constants DEF Died, DiedAudits
<1> QED BY <1>2, <1>3, <1>4, <1>5

(* They are in the next state as well. *)
LEMMA LossTypesNext ==
  TypeInv' =>
    /\ Uncounted(behind'[MaxDay]) \in Int /\ Cardinality(ToTrack') \in Nat
    /\ Len(metricCh') \in Nat /\ Len(counting') \in Nat
    /\ dropped'.metrics \in Nat /\ dropped'.audits \in Nat
    /\ faults' \in Nat /\ Died' \in Nat /\ DiedAudits' \in Nat
    /\ unlogged' \in Int /\ auditCh' \in Nat /\ logging' \in Nat
<1>1. (TypeInv =>
         /\ Uncounted(behind[MaxDay]) \in Int /\ Cardinality(ToTrack) \in Nat
         /\ Len(metricCh) \in Nat /\ Len(counting) \in Nat
         /\ dropped.metrics \in Nat /\ dropped.audits \in Nat
         /\ faults \in Nat /\ Died \in Nat /\ DiedAudits \in Nat
         /\ unlogged \in Int /\ auditCh \in Nat /\ logging \in Nat)'
    BY LossTypes, PTL
<1> QED BY <1>1 DEF Uncounted

(* A step may add to what is missing what it adds to what is on its way and *)
(* to what explains it, for the counters ...                                *)
LEMMA MetricsBy ==
  ASSUME LossInv, NEW u \in Int, NEW w \in Int, NEW r \in Int, u - w <= r,
         Uncounted(behind'[MaxDay]) = Uncounted(behind[MaxDay]) + u,
         OnTheWay' = OnTheWay + w,
         dropped'.metrics + faults' + Died' = (dropped.metrics + faults + Died) + r
  PROVE  MetricsLost'
<1>0. TypeInv
    BY DEF LossInv
<1>1. /\ Uncounted(behind[MaxDay]) \in Int /\ OnTheWay \in Int
      /\ dropped.metrics + faults + Died \in Int
  <2>1. /\ Uncounted(behind[MaxDay]) \in Int /\ Cardinality(ToTrack) \in Nat
        /\ Len(metricCh) \in Nat /\ Len(counting) \in Nat
        /\ dropped.metrics \in Nat /\ faults \in Nat /\ Died \in Nat
      BY <1>0, LossTypes
  <2>2. OnTheWay \in Int
      BY <2>1 DEF OnTheWay
  <2> QED BY <2>1, <2>2
<1>2. Uncounted(behind[MaxDay]) - OnTheWay <= dropped.metrics + faults + Died
    BY DEF LossInv, MetricsLost
<1>3. (Uncounted(behind[MaxDay]) + u) - (OnTheWay + w) <= (dropped.metrics + faults + Died) + r
    BY <1>1, <1>2
<1>4. Uncounted(behind'[MaxDay]) - OnTheWay' <= dropped'.metrics + faults' + Died'
    BY <1>3
<1> QED BY <1>4 DEF MetricsLost, Uncounted

(* ... and for the log channel. *)
LEMMA AuditsBy ==
  ASSUME LossInv, NEW u \in Int, NEW w \in Int, NEW r \in Int, LogChannel => u - w <= r,
         unlogged' = unlogged + u, auditCh' + logging' = auditCh + logging + w,
         auditCh' \in Int, logging' \in Int,
         dropped'.audits + faults' + DiedAudits' = (dropped.audits + faults + DiedAudits) + r
  PROVE  AuditsLost'
<1> SUFFICES ASSUME LogChannel
             PROVE  unlogged' - auditCh' - logging' <= dropped'.audits + faults' + DiedAudits'
    BY DEF AuditsLost
<1>0. TypeInv
    BY DEF LossInv
<1>1. /\ unlogged \in Int /\ auditCh \in Int /\ logging \in Int
      /\ dropped.audits + faults + DiedAudits \in Int
  <2>1. /\ unlogged \in Int /\ auditCh \in Nat /\ logging \in Nat
        /\ dropped.audits \in Nat /\ faults \in Nat /\ DiedAudits \in Nat
      BY <1>0, LossTypes
  <2> QED BY <2>1
<1>2. unlogged - auditCh - logging <= dropped.audits + faults + DiedAudits
    BY DEF LossInv, AuditsLost
<1>3. (unlogged + u) - (auditCh + logging + w) <= (dropped.audits + faults + DiedAudits) + r
    BY <1>1, <1>2
<1>4. unlogged' \in Int /\ unlogged' = unlogged + u
    BY <1>1
<1>5. unlogged' - auditCh' - logging' = unlogged' - (auditCh' + logging')
    BY <1>4
<1>6. unlogged' - auditCh' - logging' = (unlogged + u) - (auditCh + logging + w)
    BY <1>4, <1>5
<1> QED BY <1>3, <1>6

(* One more, or one less, of a column is one more or less in all. *)
LEMMA UncountedStep ==
  ASSUME TypeInv, NEW c \in Columns
  PROVE  /\ Happens(c) => Uncounted(behind'[MaxDay]) = Uncounted(behind[MaxDay]) + 1
         /\ Counts(c) => Uncounted(behind'[MaxDay]) = Uncounted(behind[MaxDay]) - 1
<1>0. TypeOK /\ behind \in [Days -> [Columns -> Int]] /\ today \in Days
    BY DEF TypeInv, TypeOK
<1>1. MaxDay \in Days /\ MaxDay >= today
    BY <1>0, Constants DEF Days
<1>2. \A e \in Columns : behind[MaxDay][e] \in Int
    BY <1>0, <1>1
<1>3. CASE Happens(c)
  <2>1. \A e \in Columns : behind'[MaxDay][e] =
          IF e = c THEN behind[MaxDay][e] + 1 ELSE behind[MaxDay][e]
      BY <1>0, <1>1, <1>3, BehindStep
  <2>2. Uncounted(behind'[MaxDay]) = Uncounted(behind[MaxDay]) + 1
      BY <1>2, <2>1 DEF Uncounted, Columns
  <2>3. ~Counts(c)
    <3> SUFFICES ASSUME Counts(c) PROVE FALSE
        OBVIOUS
    <3>1. behind'[MaxDay][c] = behind[MaxDay][c] - 1
        BY <1>0, <1>1, BehindStep
    <3> QED BY <1>2, <2>1, <3>1
  <2> QED BY <2>2, <2>3
<1>4. CASE Counts(c)
  <2>1. \A e \in Columns : behind'[MaxDay][e] =
          IF e = c THEN behind[MaxDay][e] - 1 ELSE behind[MaxDay][e]
      BY <1>0, <1>1, <1>4, BehindStep
  <2>2. Uncounted(behind'[MaxDay]) = Uncounted(behind[MaxDay]) - 1
      BY <1>2, <2>1 DEF Uncounted, Columns
  <2>3. ~Happens(c)
    <3> SUFFICES ASSUME Happens(c) PROVE FALSE
        OBVIOUS
    <3>1. behind'[MaxDay][c] = behind[MaxDay][c] + 1
        BY <1>0, <1>1, BehindStep
    <3> QED BY <1>2, <2>1, <3>1
  <2> QED BY <2>2, <2>3
<1> QED BY <1>3, <1>4

(* The steps of a handler lose nothing without a reason. *)
LEMMA HandlerLoss ==
  ASSUME LossInv, TypeInv', NEW h \in Workers, Begin(h) \/ HandlerStep(h)
  PROVE  MetricsLost' /\ AuditsLost'
<1>0. TypeInv /\ TypeOK /\ <<>> \in Firsts /\ "none" \notin Columns
    BY DEF LossInv, TypeInv, Firsts, Columns
<1>1. /\ Uncounted(behind[MaxDay]) \in Int /\ Cardinality(ToTrack) \in Nat
      /\ Len(metricCh) \in Nat /\ Len(counting) \in Nat
      /\ dropped.metrics \in Nat /\ dropped.audits \in Nat
      /\ faults \in Nat /\ Died \in Nat /\ DiedAudits \in Nat
      /\ unlogged \in Int /\ auditCh \in Nat /\ logging \in Nat
    BY <1>0, LossTypes
<1>2. /\ OnTheWay = Len(metricCh) + Len(counting) + Cardinality(ToTrack)
      /\ OnTheWay' = Len(metricCh') + Len(counting') + Cardinality(ToTrack')
    BY DEF OnTheWay
<1>3. crashes' = crashes => Died' = Died /\ DiedAudits' = DiedAudits
    BY DEF Died, DiedAudits
<1> HIDE DEF Uncounted, OnTheWay, Died, DiedAudits, ToTrack
<1>4. CASE Begin(h)
  <2>1. UNCHANGED <<behind, faults, crashes, metricCh, counting, dropped, unlogged, auditCh, logging>>
      BY <1>4 DEF Begin, Works, metrics, audits
  <2>2. Cardinality(ToTrack') = Cardinality(ToTrack)
    <3>1. /\ Cardinality(ToTrack') =
               Cardinality(ToTrack) + (IF Bears(h)' # "none" THEN 1 ELSE 0)
                                    - (IF Bears(h) # "none" THEN 1 ELSE 0)
          /\ Bears(h) = "none" /\ Bears(h)' = "none"
        BY <1>0, <1>4, BeginBears, Passes
    <3> QED BY <1>1, <3>1
  <2>3. Died' = Died /\ DiedAudits' = DiedAudits
      BY <1>3, <2>1
  <2>4. OnTheWay' = OnTheWay
      BY <1>2, <2>1, <2>2
  <2>5. /\ Uncounted(behind'[MaxDay]) = Uncounted(behind[MaxDay]) + 0
        /\ OnTheWay' = OnTheWay + 0
        /\ dropped'.metrics + faults' + Died' = (dropped.metrics + faults + Died) + 0
    <3>1. OnTheWay \in Int
        BY <1>1, <1>2
    <3> QED BY <1>1, <2>1, <2>3, <2>4, <3>1
  <2>6. /\ unlogged' = unlogged + 0 /\ auditCh' + logging' = auditCh + logging + 0
        /\ auditCh' \in Int /\ logging' \in Int
        /\ dropped'.audits + faults' + DiedAudits' = (dropped.audits + faults + DiedAudits) + 0
      BY <1>1, <2>1, <2>3
  <2> QED BY <2>5, <2>6, MetricsBy, AuditsBy
<1>5. CASE Delete(h) \/ Strike(h) \/ Ban(h)
  <2>1. /\ Quiet /\ UNCHANGED <<metrics, audits, dropped>> /\ handler[h] # <<>>
        /\ Head(handler[h]) \notin Columns
        /\ \E first \in Firsts :
              /\ Goes(h, first)
              /\ \/ first # <<>> /\ Happens(first[1]) /\ first[1] \in Columns /\ Works
                 \/ first = <<>> /\ behind' = behind /\ Fails
                 \/ first = <<>> /\ (\E c \in Columns : Happens(c)) /\ Fails
                 \/ first = <<"spammers_kicked">> /\ behind' = behind /\ Fails
      BY <1>5, Moderates
  <2>2. PICK first \in Firsts :
              /\ Goes(h, first)
              /\ \/ first # <<>> /\ Happens(first[1]) /\ first[1] \in Columns /\ Works
                 \/ first = <<>> /\ behind' = behind /\ Fails
                 \/ first = <<>> /\ (\E c \in Columns : Happens(c)) /\ Fails
                 \/ first = <<"spammers_kicked">> /\ behind' = behind /\ Fails
      BY <2>1
  <2>3. UNCHANGED <<metricCh, counting, dropped, unlogged, auditCh, logging, crashes>>
      BY <2>1 DEF Quiet, metrics, audits
  <2>4. Cardinality(ToTrack') = Cardinality(ToTrack) + (IF first = <<>> THEN 0 ELSE 1)
    <3>1. /\ \A g \in Workers \ {h} : handler'[g] = handler[g]
          /\ Bears(h) = "none" /\ (Bears(h)' = "none" <=> first = <<>>)
        BY <1>0, <2>1, <2>2, GoesBears DEF Bears
    <3>2. Cardinality(ToTrack') =
               Cardinality(ToTrack) + (IF Bears(h)' # "none" THEN 1 ELSE 0)
                                    - (IF Bears(h) # "none" THEN 1 ELSE 0)
        BY <3>1, Passes
    <3> HIDE DEF Bears
    <3> QED BY <1>1, <3>1, <3>2
  <2>5. \E u, w, r \in 0 .. 1 :
          /\ Uncounted(behind'[MaxDay]) = Uncounted(behind[MaxDay]) + u
          /\ Cardinality(ToTrack') = Cardinality(ToTrack) + w
          /\ faults' = faults + r /\ u <= w + r
    <3>1. CASE first # <<>> /\ Happens(first[1]) /\ first[1] \in Columns /\ Works
      <4>1. /\ Uncounted(behind'[MaxDay]) = Uncounted(behind[MaxDay]) + 1
            /\ Cardinality(ToTrack') = Cardinality(ToTrack) + 1
            /\ faults' = faults + 0
          BY <1>0, <1>1, <2>4, <3>1, UncountedStep DEF Works
      <4> QED BY <4>1
    <3>2. CASE first = <<>> /\ behind' = behind /\ Fails
      <4>1. /\ Uncounted(behind'[MaxDay]) = Uncounted(behind[MaxDay]) + 0
            /\ Cardinality(ToTrack') = Cardinality(ToTrack) + 0
            /\ faults' = faults + 1
          BY <1>1, <2>4, <3>2 DEF Fails
      <4> QED BY <4>1
    <3>3. CASE first = <<>> /\ (\E c \in Columns : Happens(c)) /\ Fails
      <4>1. Uncounted(behind'[MaxDay]) = Uncounted(behind[MaxDay]) + 1
          BY <1>0, <3>3, UncountedStep
      <4>2. /\ Cardinality(ToTrack') = Cardinality(ToTrack) + 0
            /\ faults' = faults + 1
          BY <1>1, <2>4, <3>3 DEF Fails
      <4> QED BY <4>1, <4>2
    <3>4. CASE first = <<"spammers_kicked">> /\ behind' = behind /\ Fails
      <4>1. /\ Uncounted(behind'[MaxDay]) = Uncounted(behind[MaxDay]) + 0
            /\ Cardinality(ToTrack') = Cardinality(ToTrack) + 1
            /\ faults' = faults + 1
          BY <1>1, <2>4, <3>4 DEF Fails
      <4> QED BY <4>1
    <3> QED BY <2>2, <3>1, <3>2, <3>3, <3>4
  <2>6. PICK u, w, r \in 0 .. 1 :
          /\ Uncounted(behind'[MaxDay]) = Uncounted(behind[MaxDay]) + u
          /\ Cardinality(ToTrack') = Cardinality(ToTrack) + w
          /\ faults' = faults + r /\ u <= w + r
      BY <2>5
  <2>7. /\ OnTheWay' = OnTheWay + w /\ u - w <= r
        /\ u \in Int /\ w \in Int /\ r \in Int
      BY <1>1, <1>2, <2>3, <2>6
  <2>8. dropped'.metrics + faults' + Died' = (dropped.metrics + faults + Died) + r
      BY SMTT(20), <1>1, <1>3, <2>3, <2>6
  <2>9. /\ unlogged' = unlogged + 0 /\ auditCh' + logging' = auditCh + logging + 0
        /\ auditCh' \in Int /\ logging' \in Int /\ 0 - 0 <= r
      BY <1>1, <2>3, <2>6
  <2>10. dropped'.audits + faults' + DiedAudits' = (dropped.audits + faults + DiedAudits) + r
      BY SMTT(20), <1>1, <1>3, <2>3, <2>6
  <2>11. MetricsLost'
      BY <2>6, <2>7, <2>8, MetricsBy
  <2>12. AuditsLost'
      BY <2>7, <2>9, <2>10, AuditsBy
  <2> QED BY <2>11, <2>12
<1>6. CASE Track(h)
  <2>1. /\ UNCHANGED <<behind, faults, crashes, counting, unlogged, auditCh, logging>>
        /\ handler[h] # <<>> /\ Head(handler[h]) \in Columns /\ Goes(h, <<>>)
        /\ \/ dropped' = dropped /\ metricCh' = Append(metricCh, Head(handler[h]))
           \/ metricCh' = metricCh /\ dropped' = [dropped EXCEPT !.metrics = @ + 1]
      BY <1>6 DEF Track, Quiet, Works, audits
  <2>2. Cardinality(ToTrack') = Cardinality(ToTrack) - 1
    <3>1. /\ \A g \in Workers \ {h} : handler'[g] = handler[g]
          /\ Bears(h) # "none" /\ Bears(h)' = "none"
        BY <1>0, <2>1, GoesBears DEF Bears
    <3>2. Cardinality(ToTrack') =
               Cardinality(ToTrack) + (IF Bears(h)' # "none" THEN 1 ELSE 0)
                                    - (IF Bears(h) # "none" THEN 1 ELSE 0)
        BY <3>1, Passes
    <3> HIDE DEF Bears
    <3> QED BY <1>1, <3>1, <3>2
  <2>3. \E m \in 0 .. 1 : /\ Len(metricCh') = Len(metricCh) + m
                          /\ dropped'.metrics = dropped.metrics + (1 - m)
                          /\ dropped'.audits = dropped.audits
    <3>1. dropped \in [metrics : Nat, audits : Nat] /\ metricCh \in Seq(Columns)
        BY <1>0 DEF TypeOK
    <3>2. CASE dropped' = dropped /\ metricCh' = Append(metricCh, Head(handler[h]))
      <4>1. Len(metricCh') = Len(metricCh) + 1
          BY <2>1, <3>1, <3>2, AppendProperties
      <4> QED BY <1>1, <3>2, <4>1
    <3>3. CASE metricCh' = metricCh /\ dropped' = [dropped EXCEPT !.metrics = @ + 1]
      <4>1. dropped'.metrics = dropped.metrics + 1 /\ dropped'.audits = dropped.audits
          BY <3>1, <3>3
      <4> QED BY <1>1, <3>3, <4>1
    <3> QED BY <2>1, <3>2, <3>3
  <2>4. PICK m \in 0 .. 1 : /\ Len(metricCh') = Len(metricCh) + m
                            /\ dropped'.metrics = dropped.metrics + (1 - m)
                            /\ dropped'.audits = dropped.audits
      BY <2>3
  <2>5. UNCHANGED <<behind, faults, crashes, counting, unlogged, auditCh, logging>>
      BY <2>1
  <2>6. /\ m - 1 \in Int /\ 1 - m \in Int /\ 0 - (m - 1) <= 1 - m
      OBVIOUS
  <2>7. Uncounted(behind'[MaxDay]) = Uncounted(behind[MaxDay]) + 0
      BY <1>1, <2>5
  <2>8. OnTheWay' = OnTheWay + (m - 1)
      BY <1>1, <1>2, <2>2, <2>4, <2>5
  <2>9. dropped'.metrics + faults' + Died' = (dropped.metrics + faults + Died) + (1 - m)
      BY <1>1, <1>3, <2>4, <2>5
  <2>10. /\ unlogged' = unlogged + 0 /\ auditCh' + logging' = auditCh + logging + 0
         /\ auditCh' \in Int /\ logging' \in Int
      BY <1>1, <2>5
  <2>11. dropped'.audits + faults' + DiedAudits' = (dropped.audits + faults + DiedAudits) + 0
      BY <1>1, <1>3, <2>4, <2>5
  <2>12. MetricsLost'
      BY <2>6, <2>7, <2>8, <2>9, MetricsBy
  <2>13. AuditsLost'
      BY <2>10, <2>11, AuditsBy
  <2> QED BY <2>12, <2>13
<1>7. CASE Audit(h)
  <2>1. /\ UNCHANGED <<behind, faults, crashes, metricCh, counting, logging>>
        /\ handler[h] # <<>> /\ Head(handler[h]) \notin Columns /\ Goes(h, <<>>)
        /\ unlogged' = unlogged + 1
        /\ \/ dropped' = dropped /\ auditCh' = auditCh + 1
           \/ auditCh' = auditCh /\ dropped' = [dropped EXCEPT !.audits = @ + 1]
    <3>1. "audit" \notin Columns
        BY DEF Columns
    <3> QED BY <1>7, <3>1 DEF Audit, Calls, Quiet, Works, metrics
  <2>2. Cardinality(ToTrack') = Cardinality(ToTrack)
    <3>1. /\ \A g \in Workers \ {h} : handler'[g] = handler[g]
          /\ Bears(h) = "none" /\ Bears(h)' = "none"
        BY <1>0, <2>1, GoesBears DEF Bears
    <3>2. Cardinality(ToTrack') =
               Cardinality(ToTrack) + (IF Bears(h)' # "none" THEN 1 ELSE 0)
                                    - (IF Bears(h) # "none" THEN 1 ELSE 0)
        BY <3>1, Passes
    <3> HIDE DEF Bears
    <3> QED BY <1>1, <3>1, <3>2
  <2>3. \E m \in 0 .. 1 : /\ auditCh' = auditCh + m
                          /\ dropped'.audits = dropped.audits + (1 - m)
                          /\ dropped'.metrics = dropped.metrics
    <3>1. dropped \in [metrics : Nat, audits : Nat]
        BY <1>0 DEF TypeOK
    <3>2. CASE dropped' = dropped /\ auditCh' = auditCh + 1
        BY <1>1, <3>2
    <3>3. CASE auditCh' = auditCh /\ dropped' = [dropped EXCEPT !.audits = @ + 1]
      <4>1. dropped'.audits = dropped.audits + 1 /\ dropped'.metrics = dropped.metrics
          BY <3>1, <3>3
      <4> QED BY <1>1, <3>3, <4>1
    <3> QED BY <2>1, <3>2, <3>3
  <2>4. PICK m \in 0 .. 1 : /\ auditCh' = auditCh + m
                            /\ dropped'.audits = dropped.audits + (1 - m)
                            /\ dropped'.metrics = dropped.metrics
      BY <2>3
  <2>5. UNCHANGED <<behind, faults, crashes, metricCh, counting, logging>>
        /\ unlogged' = unlogged + 1
      BY <2>1
  <2>6. m \in Int /\ 1 - m \in Int /\ 1 - m <= 1 - m
      OBVIOUS
  <2>7. Uncounted(behind'[MaxDay]) = Uncounted(behind[MaxDay]) + 0
      BY <1>1, <2>5
  <2>8. OnTheWay' = OnTheWay + 0
      BY <1>1, <1>2, <2>2, <2>5
  <2>9. dropped'.metrics + faults' + Died' = (dropped.metrics + faults + Died) + 0
      BY <1>1, <1>3, <2>4, <2>5
  <2>10. /\ auditCh' + logging' = auditCh + logging + m
         /\ auditCh' \in Int /\ logging' \in Int
      BY <1>1, <2>4, <2>5
  <2>11. dropped'.audits + faults' + DiedAudits' =
           (dropped.audits + faults + DiedAudits) + (1 - m)
      BY <1>1, <1>3, <2>4, <2>5
  <2>12. MetricsLost'
      BY <2>7, <2>8, <2>9, MetricsBy
  <2>13. AuditsLost'
      BY <2>5, <2>6, <2>10, <2>11, AuditsBy
  <2> QED BY <2>12, <2>13
<1> QED BY <1>4, <1>5, <1>6, <1>7 DEF HandlerStep

(* One more end of the process. *)
LEMMA OneMore ==
  ASSUME NEW n \in Nat, NEW k \in Nat
  PROVE  (n + 1) * k = n * k + k
OBVIOUS

(* No end of a process takes more than the queue, the worker's hand and one *)
(* event of each handler.                                                   *)
LEMMA OnTheWayIsSmall ==
  ASSUME TypeInv
  PROVE  /\ OnTheWay \in Nat
         /\ OnTheWay <= MetricQueueSize + 1 + Cardinality(Workers)
         /\ auditCh + logging <= AuditQueueSize + 1
<1>1. TypeOK
    BY DEF TypeInv
<1>2. /\ Len(metricCh) \in Nat /\ Len(metricCh) <= MetricQueueSize
      /\ Len(counting) \in Nat /\ Len(counting) <= 1
      /\ auditCh \in 0 .. AuditQueueSize /\ logging \in {0, 1}
    BY <1>1, LenProperties DEF TypeOK
<1>3. Cardinality(ToTrack) \in Nat /\ Cardinality(ToTrack) <= Cardinality(Workers)
  <2>1. ToTrack \subseteq Workers
      BY DEF ToTrack
  <2> QED BY <2>1, Constants, FS_Subset, FS_CardinalityType
<1>4. auditCh + logging <= AuditQueueSize + 1
    BY <1>2, Constants
<1>5. OnTheWay = Len(metricCh) + Len(counting) + Cardinality(ToTrack)
    BY DEF OnTheWay
<1> QED BY <1>2, <1>3, <1>4, <1>5, Constants

(* The workers of the queues, the days and a restart lose nothing without a *)
(* reason.                                                                  *)
LEMMA WorkerLoss ==
  ASSUME LossInv, TypeInv',
         TakeMetric \/ TrackMetric \/ TakeAudit \/ Log \/ Midnight \/ Report \/ Restart
  PROVE  MetricsLost' /\ AuditsLost'
<1>0. TypeInv /\ TypeOK
    BY DEF LossInv, TypeInv
<1>1. /\ Uncounted(behind[MaxDay]) \in Int /\ Cardinality(ToTrack) \in Nat
      /\ Len(metricCh) \in Nat /\ Len(counting) \in Nat
      /\ dropped.metrics \in Nat /\ dropped.audits \in Nat
      /\ faults \in Nat /\ Died \in Nat /\ DiedAudits \in Nat
      /\ unlogged \in Int /\ auditCh \in Nat /\ logging \in Nat
    BY <1>0, LossTypes
<1>2. /\ OnTheWay = Len(metricCh) + Len(counting) + Cardinality(ToTrack)
      /\ OnTheWay' = Len(metricCh') + Len(counting') + Cardinality(ToTrack')
    BY DEF OnTheWay
<1>3. /\ crashes' = crashes => Died' = Died /\ DiedAudits' = DiedAudits
      /\ handler' = handler => Cardinality(ToTrack') = Cardinality(ToTrack)
    BY DEF Died, DiedAudits, ToTrack
<1>4. ASSUME Works \/ Fails PROVE \E r \in 0 .. 1 : faults' = faults + r
  <2>1. CASE Works
    <3>1. faults' = faults + 0
        BY <1>1, <2>1 DEF Works
    <3> QED BY <3>1
  <2>2. CASE Fails
    <3>1. faults' = faults + 1
        BY <2>2 DEF Fails
    <3> QED BY <3>1
  <2> QED BY <1>4, <2>1, <2>2
<1> HIDE DEF Uncounted, OnTheWay, Died, DiedAudits, ToTrack
<1>5. CASE TakeMetric
  <2>1. /\ UNCHANGED <<behind, faults, crashes, handler, dropped, unlogged, auditCh, logging>>
        /\ counting = <<>> /\ counting' = <<Head(metricCh)>>
        /\ metricCh # <<>> /\ metricCh' = Tail(metricCh)
      BY <1>5 DEF TakeMetric, Quiet, Works, audits
  <2>2. /\ Len(metricCh') = Len(metricCh) - 1
        /\ Len(counting) = 0 /\ Len(counting') = 1
    <3>1. metricCh \in Seq(Columns)
        BY <1>0 DEF TypeOK
    <3> QED BY <2>1, <3>1, HeadTailProperties
  <2>3. Uncounted(behind'[MaxDay]) = Uncounted(behind[MaxDay]) + 0
      BY <1>1, <2>1
  <2>4. OnTheWay' = OnTheWay + 0
      BY <1>1, <1>2, <1>3, <2>1, <2>2
  <2>5. dropped'.metrics + faults' + Died' = (dropped.metrics + faults + Died) + 0
      BY <1>1, <1>3, <2>1
  <2>6. /\ unlogged' = unlogged + 0 /\ auditCh' + logging' = auditCh + logging + 0
        /\ auditCh' \in Int /\ logging' \in Int
        /\ dropped'.audits + faults' + DiedAudits' = (dropped.audits + faults + DiedAudits) + 0
      BY <1>1, <1>3, <2>1
  <2>7. MetricsLost'
      BY <2>3, <2>4, <2>5, MetricsBy
  <2> QED BY <2>6, <2>7, AuditsBy
<1>6. CASE TrackMetric
  <2>1. /\ UNCHANGED <<crashes, handler, dropped, unlogged, auditCh, logging, metricCh>>
        /\ counting # <<>> /\ counting' = <<>>
      BY <1>6 DEF TrackMetric, Quiet, audits
  <2>2. Len(counting) = 1 /\ Len(counting') = 0 /\ Head(counting) \in Columns
      BY <1>0, <2>1, InHandType
  <2>3. \E u, r \in 0 .. 1 : /\ Uncounted(behind'[MaxDay]) = Uncounted(behind[MaxDay]) - u
                             /\ faults' = faults + r /\ 1 - u <= r
    <3>1. CASE CountIt /\ (Works \/ Fails)
      <4>1. Uncounted(behind'[MaxDay]) = Uncounted(behind[MaxDay]) - 1
          BY <1>0, <2>2, <3>1, UncountedStep DEF CountIt
      <4>2. PICK r \in 0 .. 1 : faults' = faults + r
          BY <1>4, <3>1
      <4> QED BY <4>1, <4>2
    <3>2. CASE CountNot /\ Fails
      <4>1. Uncounted(behind'[MaxDay]) = Uncounted(behind[MaxDay]) - 0 /\ faults' = faults + 1
          BY <1>1, <3>2 DEF CountNot, Fails
      <4> QED BY <4>1
    <3> QED BY <1>6, <3>1, <3>2 DEF TrackMetric
  <2>4. PICK u, r \in 0 .. 1 : /\ Uncounted(behind'[MaxDay]) = Uncounted(behind[MaxDay]) - u
                               /\ faults' = faults + r /\ 1 - u <= r
      BY <2>3
  <2>5. /\ Uncounted(behind'[MaxDay]) = Uncounted(behind[MaxDay]) + (0 - u)
        /\ 0 - u \in Int /\ r \in Int /\ (0 - u) - (0 - 1) <= r /\ 0 - 1 \in Int
      BY <1>1, <2>4
  <2>6. OnTheWay' = OnTheWay + (0 - 1)
      BY <1>1, <1>2, <1>3, <2>1, <2>2
  <2>7. dropped'.metrics + faults' + Died' = (dropped.metrics + faults + Died) + r
      BY <1>1, <1>3, <2>1, <2>4
  <2>8. /\ unlogged' = unlogged + 0 /\ auditCh' + logging' = auditCh + logging + 0
        /\ auditCh' \in Int /\ logging' \in Int /\ 0 - 0 <= r
      BY <1>1, <2>1
  <2>9. dropped'.audits + faults' + DiedAudits' = (dropped.audits + faults + DiedAudits) + r
      BY <1>1, <1>3, <2>1, <2>4
  <2>10. MetricsLost'
      BY <2>5, <2>6, <2>7, MetricsBy
  <2>11. AuditsLost'
      BY <2>5, <2>8, <2>9, AuditsBy
  <2> QED BY <2>10, <2>11
<1>7. CASE TakeAudit \/ Midnight \/ Report
  <2>1. /\ UNCHANGED <<crashes, handler, dropped, unlogged, behind, metricCh, counting>>
        /\ auditCh' \in Int /\ logging' \in Int
        /\ auditCh' + logging' = auditCh + logging
        /\ Works \/ Fails
    <3>1. CASE TakeAudit
        BY <1>1, <3>1 DEF TakeAudit, Quiet, metrics
    <3>2. CASE Midnight \/ Report
        BY <1>1, <3>2 DEF Midnight, Report, metrics, audits
    <3> QED BY <1>7, <3>1, <3>2
  <2>2. PICK r \in 0 .. 1 : faults' = faults + r
      BY <1>4, <2>1
  <2>3. Uncounted(behind'[MaxDay]) = Uncounted(behind[MaxDay]) + 0
      BY <1>1, <2>1
  <2>4. OnTheWay' = OnTheWay + 0 /\ r \in Int /\ 0 - 0 <= r
      BY <1>1, <1>2, <1>3, <2>1
  <2>5. dropped'.metrics + faults' + Died' = (dropped.metrics + faults + Died) + r
      BY SMTT(20), <1>1, <1>3, <2>1, <2>2
  <2>6. unlogged' = unlogged + 0 /\ auditCh' + logging' = auditCh + logging + 0
    <3>1. unlogged' = unlogged + 0
        BY <1>1, <2>1
    <3>2. auditCh + logging + 0 = auditCh + logging
        BY <1>1
    <3> QED BY <2>1, <3>1, <3>2
  <2>7. dropped'.audits + faults' + DiedAudits' = (dropped.audits + faults + DiedAudits) + r
      BY <1>1, <1>3, <2>1, <2>2
  <2>8. MetricsLost'
      BY <2>3, <2>4, <2>5, MetricsBy
  <2>9. AuditsLost'
      BY <2>1, <2>4, <2>6, <2>7, AuditsBy
  <2> QED BY <2>8, <2>9
<1>8. CASE Log
  <2>1. /\ UNCHANGED <<crashes, handler, dropped, behind, metricCh, counting, auditCh>>
        /\ logging > 0 /\ logging' = 0
        /\ \/ unlogged' = (IF LogChannel THEN unlogged - 1 ELSE unlogged) /\ Works
           \/ unlogged' = unlogged /\ Fails
      BY <1>8 DEF Log, Quiet, metrics
  <2>2. \E u, r \in 0 .. 1 : /\ unlogged' = unlogged - u /\ faults' = faults + r
                             /\ LogChannel => 1 - u <= r
    <3>1. CASE unlogged' = (IF LogChannel THEN unlogged - 1 ELSE unlogged) /\ Works
      <4>1. faults' = faults + 0
          BY <1>1, <3>1 DEF Works
      <4>2. CASE LogChannel
        <5>1. unlogged' = unlogged - 1
            BY <3>1, <4>2
        <5> QED BY <4>1, <5>1
      <4>3. CASE ~LogChannel
        <5>1. unlogged' = unlogged - 0
            BY <1>1, <3>1, <4>3
        <5> QED BY <4>1, <4>3, <5>1
      <4> QED BY <4>2, <4>3
    <3>2. CASE unlogged' = unlogged /\ Fails
      <4>1. unlogged' = unlogged - 0 /\ faults' = faults + 1
          BY <1>1, <3>2 DEF Fails
      <4> QED BY <4>1
    <3> QED BY <2>1, <3>1, <3>2
  <2>3. PICK u, r \in 0 .. 1 : /\ unlogged' = unlogged - u /\ faults' = faults + r
                               /\ LogChannel => 1 - u <= r
      BY <2>2
  <2>4. logging = 1
      BY <1>0, <2>1 DEF TypeOK
  <2>5. Uncounted(behind'[MaxDay]) = Uncounted(behind[MaxDay]) + 0
      BY <1>1, <2>1
  <2>6. OnTheWay' = OnTheWay + 0 /\ r \in Int /\ 0 - 0 <= r
      BY <1>1, <1>2, <1>3, <2>1
  <2>7. dropped'.metrics + faults' + Died' = (dropped.metrics + faults + Died) + r
      BY <1>1, <1>3, <2>1, <2>3
  <2>8. /\ unlogged' = unlogged + (0 - u) /\ 0 - u \in Int /\ 0 - 1 \in Int
        /\ auditCh' + logging' = auditCh + logging + (0 - 1)
        /\ auditCh' \in Int /\ logging' \in Int
      BY <1>1, <2>1, <2>3, <2>4
  <2>9. LogChannel => (0 - u) - (0 - 1) <= r
    <3> SUFFICES ASSUME LogChannel PROVE (0 - u) - (0 - 1) <= r
        OBVIOUS
    <3>1. 1 - u <= r
        BY <2>3
    <3> QED BY <3>1
  <2>10. dropped'.audits + faults' + DiedAudits' = (dropped.audits + faults + DiedAudits) + r
      BY <1>1, <1>3, <2>1, <2>3
  <2>11. MetricsLost'
      BY <2>5, <2>6, <2>7, MetricsBy
  <2>12. AuditsLost'
      BY <2>6, <2>8, <2>9, <2>10, AuditsBy
  <2> QED BY <2>11, <2>12
<1>9. CASE Restart
  <2> DEFINE room == MetricQueueSize + 1 + Cardinality(Workers)
             auditRoom == AuditQueueSize + 1
  <2>1. /\ UNCHANGED <<behind, faults, dropped, unlogged>>
        /\ \A h \in Workers : handler'[h] = <<>>
        /\ metricCh' = <<>> /\ counting' = <<>> /\ auditCh' = 0 /\ logging' = 0
        /\ crashes' = crashes + 1
      BY <1>9 DEF Restart, Works
  <2>2. room \in Nat /\ auditRoom \in Nat /\ crashes \in Nat
      BY <1>0, Constants DEF TypeOK
  <2>3. Died' = Died + room /\ DiedAudits' = DiedAudits + auditRoom
    <3>1. Died' = crashes' * room /\ Died = crashes * room
        BY DEF Died
    <3>2. DiedAudits' = crashes' * auditRoom /\ DiedAudits = crashes * auditRoom
        BY DEF DiedAudits
    <3> HIDE DEF room, auditRoom
    <3> QED BY <2>1, <2>2, <3>1, <3>2, OneMore
  <2>4. /\ OnTheWay \in Nat /\ OnTheWay <= room /\ auditCh + logging <= auditRoom
      BY <1>0, OnTheWayIsSmall
  <2> HIDE DEF room, auditRoom
  <2>5. OnTheWay' = 0
    <3>1. ToTrack' = {}
        BY <2>1 DEF ToTrack
    <3>2. Cardinality(ToTrack') = 0
        BY <3>1, FS_EmptySet
    <3>3. Len(metricCh') = 0 /\ Len(counting') = 0
        BY <2>1
    <3> QED BY <1>2, <3>2, <3>3
  <2>6. /\ Uncounted(behind'[MaxDay]) = Uncounted(behind[MaxDay]) + 0
        /\ OnTheWay' = OnTheWay + (0 - OnTheWay)
        /\ 0 - OnTheWay \in Int /\ room \in Int /\ 0 - (0 - OnTheWay) <= room
      BY <1>1, <2>1, <2>2, <2>4, <2>5
  <2>7. dropped'.metrics + faults' + Died' = (dropped.metrics + faults + Died) + room
      BY <1>1, <2>1, <2>2, <2>3
  <2>8. /\ unlogged' = unlogged + 0
        /\ auditCh' + logging' = auditCh + logging + (0 - (auditCh + logging))
        /\ auditCh' \in Int /\ logging' \in Int /\ auditRoom \in Int
        /\ 0 - (auditCh + logging) \in Int /\ 0 - (0 - (auditCh + logging)) <= auditRoom
      BY <1>1, <2>1, <2>2, <2>4
  <2>9. dropped'.audits + faults' + DiedAudits' = (dropped.audits + faults + DiedAudits) + auditRoom
      BY <1>1, <2>1, <2>2, <2>3
  <2>10. MetricsLost'
      BY <2>6, <2>7, MetricsBy
  <2>11. AuditsLost'
      BY <2>8, <2>9, AuditsBy
  <2> QED BY <2>10, <2>11
<1> QED BY <1>5, <1>6, <1>7, <1>8, <1>9

(* Every step does. *)
LEMMA LossStep == LossInv /\ TypeInv' /\ [Next]_vars => LossInv'
<1> SUFFICES ASSUME LossInv, TypeInv', [Next]_vars PROVE MetricsLost' /\ AuditsLost'
    BY DEF LossInv
<1>1. CASE UNCHANGED vars
  <2>1. UNCHANGED <<behind, handler, metricCh, counting, faults, dropped, crashes,
                    unlogged, auditCh, logging>>
      BY <1>1 DEF vars, metrics, audits
  <2>2. MetricsLost'
      BY <2>1 DEF LossInv, MetricsLost, Uncounted, OnTheWay, ToTrack, Died
  <2>3. AuditsLost'
      BY <2>1 DEF LossInv, AuditsLost, DiedAudits
  <2> QED BY <2>2, <2>3
<1> QED BY <1>1, HandlerLoss, WorkerLoss DEF Next

(* At the start nothing is missing. *)
LEMMA LossInit == Init => LossInv
<1> SUFFICES ASSUME Init PROVE LossInv
    OBVIOUS
<1>0. TypeInv
    BY TypeInit
<1>1. /\ Cardinality(ToTrack) \in Nat /\ Len(metricCh) \in Nat /\ Len(counting) \in Nat
      /\ Died \in Nat /\ DiedAudits \in Nat
    BY <1>0, LossTypes
<1>2. Uncounted(behind[MaxDay]) = 0
  <2>1. MaxDay \in Days
      BY Constants DEF Days
  <2> QED BY <2>1 DEF Init, Uncounted, Columns
<1>3. /\ dropped.metrics = 0 /\ dropped.audits = 0 /\ faults = 0
      /\ unlogged = 0 /\ auditCh = 0 /\ logging = 0
    BY DEF Init
<1>4. MetricsLost
  <2>1. OnTheWay \in Nat
      BY <1>1 DEF OnTheWay
  <2> QED BY <1>1, <1>2, <1>3, <2>1 DEF MetricsLost
<1>5. AuditsLost
    BY <1>1, <1>3 DEF AuditsLost
<1> QED BY <1>0, <1>4, <1>5 DEF LossInv

(* What was done and is neither counted nor on its way was dropped by a     *)
(* full queue, or lost with a failing call or a process, of which each      *)
(* takes no more than the queue, its worker and its handlers had in hand;   *)
(* and so for the log channel.                                              *)
THEOREM LossesAreReasoned == Spec => []LossesHaveReasons
<1>1. LossInv => LossesHaveReasons
    BY DEF LossInv, MetricsLost, AuditsLost, LossesHaveReasons, Died, DiedAudits
<1> QED BY <1>1, LossInit, LossStep, TypeInit, TypeStep, PTL DEF Spec
=============================================================================
