--------------------------- MODULE WhatsAppProofs ---------------------------
(***************************************************************************)
(* The two gateways to WhatsApp and the list of the people behind it, for  *)
(* any number of calls, chats, sockets, people and failures and any        *)
(* interval.                                                               *)
(*                                                                         *)
(* SendPacing implements the outbox of ChatOutbox, and keeps the minimum   *)
(* interval.  The promises of a chat form a list by their "previous"       *)
(* pointers, and the map sendChains holds its end.  The inductive          *)
(* invariant says that this list is the line of the calls in the order of  *)
(* their arrival; so a call that awaits nobody is the first of its line.   *)
(*                                                                         *)
(* Connection: what makes ConnectedIsBacked inductive is that a socket     *)
(* alive is the gateway's own, and that an opening is only prepared while  *)
(* the gateway has none.                                                   *)
(*                                                                         *)
(* Membership: while nothing disturbs, there is one handling at most, the  *)
(* list it read is the table, and what it will make of it is the group.    *)
(***************************************************************************)
EXTENDS SendPacing, Connection, Membership, SequenceTheorems, FiniteSetTheorems, TLAPS


\* A call is outstanding exactly while it stands in the line of its chat, once.
InLine(c) == \E i \in 1..Len(line[ChatOf[c]]) : line[ChatOf[c]][i] = c

LineInv ==
  /\ \A c \in Calls : pc[c] # "idle" <=> InLine(c)
  /\ \A k \in Chats : \A i \in 1..Len(line[k]) : ChatOf[line[k][i]] = k
  /\ \A k \in Chats : \A i, j \in 1..Len(line[k]) : line[k][i] = line[k][j] => i = j

\* The pointers follow the line.
PointerInv ==
  \A k \in Chats : \A i \in 1..Len(line[k]) :
    previous[line[k][i]] = IF i = 1 THEN NoCall ELSE line[k][i - 1]

Inv == TypeOK /\ ChainMatchesLine /\ LineInv /\ PointerInv

-----------------------------------------------------------------------------
(* Lemmas.                                                                 *)

\* What Tail does to the positions of a line.
LEMMA TailAt ==
  ASSUME NEW S, NEW s \in Seq(S), s # <<>>
  PROVE  /\ Len(s) \in Nat \ {0}
         /\ Tail(s) \in Seq(S)
         /\ Len(Tail(s)) = Len(s) - 1
         /\ \A i \in 1..Len(Tail(s)) : i + 1 \in 1..Len(s) /\ Tail(s)[i] = s[i + 1]
         /\ Tail(s) = <<>> <=> Len(s) = 1
  <1>1. /\ Len(s) \in Nat \ {0} /\ Tail(s) \in Seq(S) /\ Len(Tail(s)) = Len(s) - 1
        /\ \A i \in 1..Len(Tail(s)) : Tail(s)[i] = s[i + 1]
    BY HeadTailProperties, EmptySeq
  <1>2. \A i \in 1..Len(Tail(s)) : i + 1 \in 1..Len(s)
    BY <1>1
  <1>3. Tail(s) = <<>> <=> Len(Tail(s)) = 0
    BY <1>1, EmptySeq
  <1>4. QED
    BY <1>1, <1>2, <1>3

\* A call that awaits nobody is the first of its line.
LEMMA NobodyBefore ==
  ASSUME Inv, NEW c \in Calls, pc[c] # "idle", previous[c] = NoCall
  PROVE  line[ChatOf[c]] # <<>> /\ line[ChatOf[c]][1] = c
  <1>. DEFINE s == line[ChatOf[c]]
  <1>1. s \in Seq(Calls) /\ ChatOf[c] \in Chats
    BY ChatAssumption DEF Inv, TypeOK
  <1>2. PICK i \in 1..Len(s) : s[i] = c
    BY DEF Inv, LineInv, InLine
  <1>3. previous[c] = IF i = 1 THEN NoCall ELSE s[i - 1]
    BY <1>1, <1>2 DEF Inv, PointerInv
  <1>4. i # 1 => s[i - 1] \in Calls
    BY <1>1, <1>2
  <1>5. i = 1
    BY <1>3, <1>4, NoCallAssumption
  <1>6. QED
    BY <1>1, <1>2, <1>5

-----------------------------------------------------------------------------
(* The invariant.                                                          *)

\* Nobody is in line at the start.
LEMMA InitInv == Init => Inv
  BY NoCallAssumption, ChatAssumption, IntervalAssumption
  DEF Init, Inv, TypeOK, States, ChainMatchesLine, LineInv, InLine, PointerInv

\* A call joins the end of its line and awaits the one that was last.
LEMMA EnterInv == ASSUME Inv, NEW c \in Calls, Enter(c) PROVE Inv'
  <1>. DEFINE k == ChatOf[c]  s == line[k]
  <1>. USE NoCallAssumption, ChatAssumption, IntervalAssumption
  <1>1. k \in Chats /\ s \in Seq(Calls) /\ Len(s) \in Nat
    BY DEF Inv, TypeOK
  <1>2. /\ line' = [line EXCEPT ![k] = Append(s, c)]
        /\ Append(s, c) \in Seq(Calls) /\ Append(s, c) # <<>>
        /\ Len(Append(s, c)) = Len(s) + 1
        /\ \A i \in 1..Len(s) : Append(s, c)[i] = s[i]
        /\ Append(s, c)[Len(s) + 1] = c
    BY <1>1, AppendProperties DEF Enter
  <1>3. pc[c] = "idle" /\ \A i \in 1..Len(s) : s[i] # c
    BY <1>1 DEF Enter, Inv, LineInv, InLine
  <1>4. last[k] = IF s = <<>> THEN NoCall ELSE s[Len(s)]
    BY <1>1 DEF Inv, ChainMatchesLine
  <1>5. TypeOK'
    <2>1. last[k] # NoCall => ChatOf[last[k]] = k
      BY <1>1, <1>4 DEF Inv, LineInv
    <2>2. wait[c] = 0
      BY <1>3 DEF Inv, TypeOK
    <2>3. QED
      BY <1>1, <1>2, <2>1, <2>2 DEF Enter, Goto, Inv, TypeOK, States
  <1>6. ChainMatchesLine'
    BY <1>1, <1>2 DEF Enter, Inv, ChainMatchesLine, TypeOK
  <1>7. LineInv'
    <2>1. ASSUME NEW d \in Calls PROVE (pc[d] # "idle" <=> InLine(d))'
      <3>1. CASE d = c
        BY <1>1, <1>2, <3>1 DEF Enter, Goto, InLine, Inv, TypeOK
      <3>2. CASE d # c
        <4>1. pc'[d] = pc[d]
          BY <3>2 DEF Enter, Goto, Inv, TypeOK
        <4>2. InLine(d)' <=> InLine(d)
          <5>1. CASE ChatOf[d] # k
            <6>1. line'[ChatOf[d]] = line[ChatOf[d]]
              BY <1>2, <5>1 DEF Inv, TypeOK
            <6>2. QED
              BY <6>1 DEF InLine
          <5>2. CASE ChatOf[d] = k
            <6>1. line'[ChatOf[d]] = Append(s, c) /\ line[ChatOf[d]] = s
              BY <1>1, <1>2, <5>2 DEF Inv, TypeOK
            <6>2. QED
              BY <1>1, <1>2, <3>2, <6>1 DEF InLine
          <5>3. QED
            BY <5>1, <5>2
        <4>3. QED
          BY <4>1, <4>2 DEF Inv, LineInv
      <3>3. QED
        BY <3>1, <3>2
    <2>2. ASSUME NEW h \in Chats, NEW i \in 1..Len(line'[h]) PROVE ChatOf[line'[h][i]] = h
      <3>1. CASE h # k
        <4>1. line'[h] = line[h]
          BY <1>2, <3>1 DEF Inv, TypeOK
        <4>2. QED
          BY <2>2, <4>1 DEF Inv, LineInv
      <3>2. CASE h = k
        <4>1. line'[h] = Append(s, c)
          BY <1>1, <1>2, <3>2 DEF Inv, TypeOK
        <4>2. i \in 1..Len(s) \/ i = Len(s) + 1
          BY <1>1, <1>2, <2>2, <4>1
        <4>3. QED
          BY <1>1, <1>2, <3>2, <4>1, <4>2 DEF Inv, LineInv
      <3>3. QED
        BY <3>1, <3>2
    <2>3. ASSUME NEW h \in Chats, NEW i \in 1..Len(line'[h]), NEW j \in 1..Len(line'[h]),
                 line'[h][i] = line'[h][j]
          PROVE  i = j
      BY <1>1, <1>2, <1>3, <2>3 DEF Inv, LineInv, TypeOK
    <2>4. QED
      BY <2>1, <2>2, <2>3 DEF LineInv
  <1>8. PointerInv'
    <2>. SUFFICES ASSUME NEW h \in Chats, NEW i \in 1..Len(line'[h])
                  PROVE  previous'[line'[h][i]] =
                           IF i = 1 THEN NoCall ELSE line'[h][i - 1]
      BY DEF PointerInv
    <2>1. CASE h = k /\ i = Len(s) + 1
      BY <1>1, <1>2, <1>4, <2>1 DEF Enter, Inv, TypeOK
    <2>2. CASE h = k /\ i # Len(s) + 1
      <3>1. i \in 1..Len(s) /\ line'[h][i] = s[i] /\ (i # 1 => line'[h][i - 1] = s[i - 1])
        BY <1>1, <1>2, <2>2 DEF Inv, TypeOK
      <3>2. s[i] \in Calls /\ s[i] # c
        BY <1>1, <1>3, <3>1
      <3>3. previous'[s[i]] = previous[s[i]]
        BY <3>2 DEF Enter, Inv, TypeOK
      <3>4. previous[s[i]] = IF i = 1 THEN NoCall ELSE s[i - 1]
        BY <1>1, <3>1 DEF Inv, PointerInv
      <3>5. QED
        BY <3>1, <3>3, <3>4
    <2>3. CASE h # k
      <3>1. line'[h] = line[h] /\ line[h] \in Seq(Calls) /\ ChatOf[line[h][i]] = h
        BY <1>1, <1>2, <2>3 DEF Inv, TypeOK, LineInv
      <3>2. line[h][i] \in Calls /\ line[h][i] # c
        BY <2>3, <3>1
      <3>3. previous'[line[h][i]] = previous[line[h][i]]
        BY <3>2 DEF Enter, Inv, TypeOK
      <3>4. QED
        BY <3>1, <3>3 DEF Inv, PointerInv
    <2>4. QED
      BY <2>1, <2>2, <2>3
  <1>9. QED
    BY <1>5, <1>6, <1>7, <1>8 DEF Inv

\* The first of a line leaves it: the next one is released, and the entry of the chat
\* goes only if there is no next one.
LEMMA LeaveInv ==
  ASSUME Inv, NEW c \in Calls, pc[c] = "sending", Leave(c), since' \in [Chats -> 0..Interval]
  PROVE  Inv'
  <1>. DEFINE k == ChatOf[c]  s == line[k]
  <1>. USE NoCallAssumption, ChatAssumption, IntervalAssumption
  <1>1. k \in Chats /\ s \in Seq(Calls) /\ s # <<>> /\ s[1] = c
    <2>1. previous[c] = NoCall
      BY DEF Inv, TypeOK
    <2>2. QED
      BY <2>1, NobodyBefore DEF Inv, TypeOK
  <1>2. /\ line' = [line EXCEPT ![k] = Tail(s)]
        /\ Len(s) \in Nat \ {0}
        /\ Tail(s) \in Seq(Calls) /\ Len(Tail(s)) = Len(s) - 1
        /\ \A i \in 1..Len(Tail(s)) : i + 1 \in 1..Len(s) /\ Tail(s)[i] = s[i + 1]
        /\ Tail(s) = <<>> <=> Len(s) = 1
    BY <1>1, TailAt DEF Leave
  <1>3. \A i \in 1..Len(s) : s[i] = c => i = 1
    BY <1>1, <1>2 DEF Inv, LineInv
  <1>4. last[k] = s[Len(s)]
    BY <1>1 DEF Inv, ChainMatchesLine
  <1>5. TypeOK'
    <2>1. /\ pc' \in [Calls -> States] /\ last' \in [Chats -> Calls \cup {NoCall}]
          /\ wait' = wait /\ wait[c] = 0 /\ \A d \in Calls \ {c} : pc'[d] = pc[d]
      <3>1. pc' = [pc EXCEPT ![c] = "idle"] /\ wait' = wait
            /\ last' = [last EXCEPT ![k] = IF @ = c THEN NoCall ELSE @]
        BY DEF Leave, Goto
      <3>2. pc' \in [Calls -> States] /\ \A d \in Calls \ {c} : pc'[d] = pc[d]
        BY <3>1 DEF Inv, TypeOK, States
      <3>3. last' \in [Chats -> Calls \cup {NoCall}]
        BY <1>1, <3>1 DEF Inv, TypeOK
      <3>4. wait[c] = 0
        <4>1. wait[c] \in 0..Interval /\ (wait[c] > 0 => pc[c] = "pacing")
          BY DEF Inv, TypeOK
        <4>2. ~(wait[c] > 0)
          BY <4>1
        <4>3. QED
          BY <4>1, <4>2
      <3>5. QED
        BY <3>1, <3>2, <3>3, <3>4
    <2>2. line' \in [Chats -> Seq(Calls)]
      BY <1>1, <1>2 DEF Inv, TypeOK
    <2>3. /\ previous' \in [Calls -> Calls \cup {NoCall}]
          /\ \A d \in Calls : previous'[d] # NoCall => previous'[d] = previous[d] /\ d # c
      BY DEF Leave, Inv, TypeOK
    <2>4. \A d \in Calls : wait'[d] > 0 => pc'[d] = "pacing"
      BY <2>1 DEF Inv, TypeOK
    <2>5. \A d \in Calls :
            previous'[d] # NoCall => pc'[d] = "waiting" /\ ChatOf[previous'[d]] = ChatOf[d]
      BY <2>1, <2>3 DEF Inv, TypeOK
    <2>6. QED
      BY <2>1, <2>2, <2>3, <2>4, <2>5 DEF Inv, TypeOK
  <1>6. ChainMatchesLine'
    <2>1. ASSUME NEW h \in Chats, h # k
          PROVE  last'[h] = IF line'[h] = <<>> THEN NoCall ELSE line'[h][Len(line'[h])]
      BY <1>2, <2>1 DEF Leave, Inv, TypeOK, ChainMatchesLine
    <2>2. last'[k] = IF Tail(s) = <<>> THEN NoCall ELSE Tail(s)[Len(Tail(s))]
      <3>1. last'[k] = IF s[Len(s)] = c THEN NoCall ELSE s[Len(s)]
        BY <1>1, <1>4 DEF Leave, Inv, TypeOK
      <3>2. s[Len(s)] = c <=> Len(s) = 1
        BY <1>1, <1>2, <1>3
      <3>3. CASE Len(s) = 1
        BY <1>2, <3>1, <3>2, <3>3
      <3>4. CASE Len(s) # 1
        <4>1. Tail(s) # <<>> /\ Len(Tail(s)) = Len(s) - 1 /\ Len(s) \in Nat
          BY <1>2, <3>4
        <4>2. Len(Tail(s)) \in 1..Len(Tail(s)) /\ Len(Tail(s)) + 1 = Len(s)
          BY <1>2, <3>4, <4>1
        <4>3. Tail(s)[Len(Tail(s))] = s[Len(s)]
          BY <1>2, <4>2
        <4>4. QED
          BY <3>1, <3>2, <3>4, <4>1, <4>3
      <3>5. QED
        BY <3>3, <3>4
    <2>3. line'[k] = Tail(s)
      BY <1>1, <1>2 DEF Inv, TypeOK
    <2>4. QED
      BY <2>1, <2>2, <2>3 DEF ChainMatchesLine
  <1>7. LineInv'
    <2>1. ASSUME NEW d \in Calls PROVE (pc[d] # "idle" <=> InLine(d))'
      <3>1. CASE d = c
        <4>1. pc'[d] = "idle" /\ line'[ChatOf[d]] = Tail(s)
          BY <1>1, <1>2, <3>1 DEF Leave, Goto, Inv, TypeOK
        <4>2. ASSUME NEW i \in 1..Len(Tail(s)) PROVE Tail(s)[i] # c
          <5>1. i + 1 \in 1..Len(s) /\ Tail(s)[i] = s[i + 1] /\ i + 1 # 1
            BY <1>2
          <5>2. QED
            BY <1>3, <5>1
        <4>3. ~InLine(d)'
          <5>1. line'[ChatOf[d]] = Tail(s) /\ d = c
            BY <3>1, <4>1
          <5>2. InLine(d)' <=> \E i \in 1..Len(line'[ChatOf[d]]) : line'[ChatOf[d]][i] = d
            BY DEF InLine
          <5>3. QED
            BY <4>2, <5>1, <5>2
        <4>4. QED
          BY <4>1, <4>3
      <3>2. CASE d # c /\ ChatOf[d] = k
        <4>1. pc'[d] = pc[d] /\ line'[k] = Tail(s)
          BY <1>1, <1>2, <3>2 DEF Leave, Goto, Inv, TypeOK
        <4>2. (\E i \in 1..Len(s) : s[i] = d) => \E i \in 1..Len(Tail(s)) : Tail(s)[i] = d
          <5>1. SUFFICES ASSUME NEW i \in 1..Len(s), s[i] = d
                         PROVE  \E j \in 1..Len(Tail(s)) : Tail(s)[j] = d
            OBVIOUS
          <5>2. i # 1
            BY <1>1, <3>2, <5>1
          <5>3. i - 1 \in 1..Len(Tail(s)) /\ Tail(s)[i - 1] = s[i]
            BY <1>2, <5>2
          <5>4. QED
            BY <5>1, <5>3
        <4>3. (\E i \in 1..Len(Tail(s)) : Tail(s)[i] = d) => \E i \in 1..Len(s) : s[i] = d
          BY <1>2
        <4>4. QED
          BY <3>2, <4>1, <4>2, <4>3 DEF InLine, Inv, LineInv
      <3>3. CASE d # c /\ ChatOf[d] # k
        <4>1. pc'[d] = pc[d] /\ line'[ChatOf[d]] = line[ChatOf[d]]
          BY <1>2, <3>3 DEF Leave, Goto, Inv, TypeOK
        <4>2. QED
          BY <4>1 DEF InLine, Inv, LineInv
      <3>4. QED
        BY <3>1, <3>2, <3>3
    <2>0. line'[k] = Tail(s) /\ \A h \in Chats \ {k} : line'[h] = line[h]
      BY <1>1, <1>2 DEF Inv, TypeOK
    <2>2. ASSUME NEW h \in Chats, NEW i \in 1..Len(line'[h]) PROVE ChatOf[line'[h][i]] = h
      <3>1. CASE h = k
        <4>1. line'[h][i] = s[i + 1] /\ i + 1 \in 1..Len(s)
          BY <1>2, <2>0, <3>1
        <4>2. QED
          BY <1>1, <3>1, <4>1 DEF Inv, LineInv
      <3>2. CASE h # k
        BY <2>0, <3>2 DEF Inv, LineInv
      <3>3. QED
        BY <3>1, <3>2
    <2>3. ASSUME NEW h \in Chats, NEW i \in 1..Len(line'[h]), NEW j \in 1..Len(line'[h]),
                 line'[h][i] = line'[h][j]
          PROVE  i = j
      <3>1. CASE h = k
        <4>1. /\ i + 1 \in 1..Len(s) /\ j + 1 \in 1..Len(s)
              /\ s[i + 1] = s[j + 1]
          BY <1>2, <2>0, <2>3, <3>1
        <4>2. i + 1 = j + 1
          BY <1>1, <4>1 DEF Inv, LineInv
        <4>3. i \in Nat /\ j \in Nat
          BY <1>2, <2>0, <3>1
        <4>4. QED
          BY <4>2, <4>3
      <3>2. CASE h # k
        BY <2>0, <2>3, <3>2 DEF Inv, LineInv
      <3>3. QED
        BY <3>1, <3>2
    <2>4. QED
      BY <2>1, <2>2, <2>3 DEF LineInv
  <1>8. PointerInv'
    <2>. SUFFICES ASSUME NEW h \in Chats, NEW i \in 1..Len(line'[h])
                  PROVE  previous'[line'[h][i]] =
                           IF i = 1 THEN NoCall ELSE line'[h][i - 1]
      BY DEF PointerInv
    <2>1. \A d \in Calls : previous'[d] = IF previous[d] = c THEN NoCall ELSE previous[d]
      BY DEF Leave
    <2>2. CASE h = k
      <3>1. line'[h] = Tail(s) /\ i + 1 \in 1..Len(s) /\ line'[h][i] = s[i + 1]
        BY <1>1, <1>2, <2>2 DEF Inv, TypeOK
      <3>2. previous[s[i + 1]] = s[i] /\ s[i + 1] \in Calls /\ s[i] \in Calls
        BY <1>1, <1>2, <3>1 DEF Inv, PointerInv
      <3>3. s[i] = c <=> i = 1
        BY <1>1, <1>2, <1>3, <3>1
      <3>4. i # 1 => line'[h][i - 1] = s[i]
        <4>1. CASE i # 1
          <5>1. i - 1 \in 1..Len(Tail(s)) /\ (i - 1) + 1 = i
            BY <1>1, <1>2, <2>2, <3>1, <4>1
          <5>2. QED
            BY <1>2, <3>1, <5>1
        <4>2. QED
          BY <4>1
      <3>5. QED
        BY <2>1, <3>1, <3>2, <3>3, <3>4
    <2>3. CASE h # k
      <3>1. line'[h] = line[h] /\ line[h] \in Seq(Calls)
        BY <1>2, <2>3 DEF Inv, TypeOK
      <3>2. /\ line[h][i] \in Calls
            /\ i # 1 => line[h][i - 1] \in Calls /\ ChatOf[line[h][i - 1]] = h
        <4>1. Len(line[h]) \in Nat /\ i \in 1..Len(line[h])
          BY <2>1, <3>1
        <4>2. i # 1 => i - 1 \in 1..Len(line[h])
          BY <4>1
        <4>3. QED
          BY <3>1, <4>1, <4>2 DEF Inv, LineInv
      <3>3. previous[line[h][i]] # c
        BY <2>3, <3>1, <3>2 DEF Inv, PointerInv
      <3>4. QED
        BY <2>1, <3>1, <3>2, <3>3 DEF Inv, PointerInv
    <2>4. QED
      BY <2>2, <2>3
  <1>9. QED
    BY <1>5, <1>6, <1>7, <1>8 DEF Inv

\* A call that has been released, and the passing of time, leave every line as it is.
LEMMA ElseInv ==
  ASSUME Inv,
         Tick \/ \E c \in Calls : Resume(c) \/ Post(c)
  PROVE  Inv'
  <1>. USE NoCallAssumption, ChatAssumption, IntervalAssumption
  <1>1. TypeOK'
    <2>1. CASE Tick
      BY <2>1 DEF Tick, Inv, TypeOK
    <2>2. ASSUME NEW c \in Calls, Resume(c) PROVE TypeOK'
      <3>1. Interval - since[ChatOf[c]] \in 0..Interval
        BY DEF Inv, TypeOK
      <3>2. QED
        BY <2>2, <3>1 DEF Resume, Goto, Inv, TypeOK, States
    <2>3. ASSUME NEW c \in Calls, Post(c) PROVE TypeOK'
      BY <2>3 DEF Post, Goto, Inv, TypeOK, States
    <2>4. QED
      BY <2>1, <2>2, <2>3
  <1>2. /\ UNCHANGED <<previous, last, line>>
        /\ \A d \in Calls : pc'[d] = "idle" <=> pc[d] = "idle"
    BY DEF Tick, Resume, Post, Goto, Inv, TypeOK
  <1>3. ChainMatchesLine' /\ PointerInv'
    BY <1>2 DEF Inv, ChainMatchesLine, PointerInv
  <1>4. LineInv'
    <2>1. \A d \in Calls : InLine(d)' <=> InLine(d)
      BY <1>2 DEF InLine
    <2>2. QED
      BY <1>2, <2>1 DEF Inv, LineInv
  <1>5. QED
    BY <1>1, <1>3, <1>4 DEF Inv

\* Every step of a call and of the clock keeps lines and pointers together.
LEMMA StepInv == Inv /\ [Next]_vars => Inv'
  <1>. SUFFICES ASSUME Inv, [Next]_vars PROVE Inv'
    OBVIOUS
  <1>1. ASSUME NEW c \in Calls, Enter(c) PROVE Inv'
    BY <1>1, EnterInv
  <1>2. ASSUME NEW c \in Calls, Resume(c) \/ Post(c) PROVE Inv'
    BY <1>2, ElseInv
  <1>3. ASSUME NEW c \in Calls, Sent(c) PROVE Inv'
    <2>1. since' \in [Chats -> 0..Interval]
      BY <1>3, ChatAssumption, IntervalAssumption DEF Sent, Inv, TypeOK
    <2>2. QED
      BY <1>3, <2>1, LeaveInv DEF Sent
  <1>4. ASSUME NEW c \in Calls, Failed(c) PROVE Inv'
    <2>1. since' \in [Chats -> 0..Interval]
      BY <1>4 DEF Failed, Inv, TypeOK
    <2>2. QED
      BY <1>4, <2>1, LeaveInv DEF Failed
  <1>5. CASE Tick
    BY <1>5, ElseInv
  <1>6. CASE UNCHANGED vars
    BY <1>6 DEF vars, Inv, TypeOK, ChainMatchesLine, LineInv, InLine, PointerInv
  <1>7. QED
    BY <1>1, <1>2, <1>3, <1>4, <1>5, <1>6 DEF Next

\* The chains of promises and the lines of calls belong together in every state.
THEOREM ChainsAreLines == Spec => []Inv
  BY InitInv, StepInv, PTL DEF Spec

\* TypeOK: the variables keep their types, a timer runs only while a call is pacing and
\* a call awaits only an earlier one of its chat.
THEOREM TypeCorrect == Spec => []TypeOK
  BY ChainsAreLines, PTL DEF Inv

\* ChainMatchesLine: sendChains has an entry for a chat exactly while calls are
\* outstanding, and it is the newest of them - so the map neither loses the tail of a
\* chain nor keeps the entry of a chat nobody writes to.
THEOREM ChainIsKept == Spec => []ChainMatchesLine
  BY ChainsAreLines, PTL DEF Inv

-----------------------------------------------------------------------------
(* The gateway implements the outbox.                                      *)

\* The call whose message is being sent is the only one of its chat.
LEMMA SendingIsFirst ==
  ASSUME Inv, NEW c \in Calls, pc[c] \in {"pacing", "sending"}
  PROVE  line[ChatOf[c]] # <<>> /\ line[ChatOf[c]][1] = c
  BY NobodyBefore, NoCallAssumption DEF Inv, TypeOK

\* The gateway starts as an empty outbox.
LEMMA OutboxInit == Init => Outbox!Init
  BY DEF Init, Outbox!Init

\* Every step of the gateway is a step of the outbox, or does not show.
LEMMA OutboxStep == Inv /\ [Next]_vars => [Outbox!Next]_(Outbox!vars)
  <1>. SUFFICES ASSUME Inv, [Next]_vars PROVE [Outbox!Next]_(Outbox!vars)
    OBVIOUS
  <1>. DEFINE busy == {d \in Calls : pc[d] = "sending"}
  <1>. USE ChatAssumption
  <1>1. ASSUME NEW c \in Calls, Enter(c) PROVE Outbox!Request(c)
    <2>1. ~Outbox!Queued(c)
      BY <1>1 DEF Enter, Inv, LineInv, InLine, Outbox!Queued
    <2>2. busy' = busy
      BY <1>1 DEF Enter, Goto, Inv, TypeOK
    <2>3. QED
      BY <1>1, <2>1, <2>2 DEF Enter, Outbox!Request
  <1>2. ASSUME NEW c \in Calls, Resume(c) PROVE UNCHANGED Outbox!vars
    BY <1>2 DEF Resume, Goto, Inv, TypeOK, Outbox!vars
  <1>3. ASSUME NEW c \in Calls, Post(c) PROVE Outbox!Start(c)
    <2>1. Outbox!First(c)
      BY <1>3, SendingIsFirst DEF Post, Outbox!First
    <2>2. c \notin busy /\ busy' = busy \cup {c}
      BY <1>3 DEF Post, Goto, Inv, TypeOK
    <2>3. QED
      BY <1>3, <2>1, <2>2 DEF Post, Outbox!Start
  <1>4. ASSUME NEW c \in Calls, Sent(c) \/ Failed(c) PROVE Outbox!Finish(c)
    <2>1. pc[c] = "sending" /\ Leave(c)
      BY <1>4 DEF Sent, Failed
    <2>2. Outbox!First(c)
      BY <2>1, SendingIsFirst DEF Outbox!First
    <2>3. c \in busy /\ busy' = busy \ {c}
      BY <2>1 DEF Leave, Goto, Inv, TypeOK
    <2>4. QED
      BY <2>1, <2>2, <2>3 DEF Leave, Outbox!Finish
  <1>5. CASE Tick
    BY <1>5 DEF Tick, Outbox!vars
  <1>6. CASE UNCHANGED vars
    BY <1>6 DEF vars, Outbox!vars
  <1>7. QED
    BY <1>1, <1>2, <1>3, <1>4, <1>5, <1>6 DEF Next, Outbox!Next

\* OutboxSpec: the messages of a chat go out one at a time in the order in which
\* sendText was called, and a failed send only gives way to the next one.
THEOREM GatewayIsOutbox == Spec => OutboxSpec
  BY ChainsAreLines, OutboxInit, OutboxStep, PTL DEF Spec, OutboxSpec, Outbox!Spec

-----------------------------------------------------------------------------
(* The minimum interval.                                                   *)

\* The timer of a call that is next in its chat covers what is left of the interval.
PacingInv ==
  \A c \in Calls : pc[c] = "pacing" => since[ChatOf[c]] + wait[c] >= Interval

\* Only the call that is first in its chat can restart the interval, so the timer of a
\* call that is pacing never runs short.
LEMMA StepPacing == Inv /\ PacingInv /\ [Next]_vars => PacingInv'
  <1>. SUFFICES ASSUME Inv, PacingInv, [Next]_vars, NEW d \in Calls, pc'[d] = "pacing"
                PROVE  (since[ChatOf[d]] + wait[d] >= Interval)'
    BY DEF PacingInv
  <1>. USE ChatAssumption, IntervalAssumption
  <1>0. ChatOf[d] \in Chats /\ since[ChatOf[d]] \in 0..Interval /\ wait[d] \in 0..Interval
    BY DEF Inv, TypeOK
  <1>1. ASSUME NEW c \in Calls, Enter(c) \/ Post(c)
        PROVE  (since[ChatOf[d]] + wait[d] >= Interval)'
    BY <1>1 DEF Enter, Post, Goto, Inv, TypeOK, PacingInv
  <1>2. ASSUME NEW c \in Calls, Resume(c)
        PROVE  (since[ChatOf[d]] + wait[d] >= Interval)'
    <2>1. CASE d = c
      <3>1. since' = since /\ wait'[d] = Interval - since[ChatOf[d]]
        BY <1>2, <2>1 DEF Resume, Inv, TypeOK
      <3>2. QED
        BY <1>0, <3>1
    <2>2. CASE d # c
      BY <1>2, <2>2 DEF Resume, Goto, Inv, TypeOK, PacingInv
    <2>3. QED
      BY <2>1, <2>2
  <1>3. ASSUME NEW c \in Calls, Sent(c) \/ Failed(c)
        PROVE  (since[ChatOf[d]] + wait[d] >= Interval)'
    <2>1. pc[c] = "sending" /\ pc' = [pc EXCEPT ![c] = "idle"] /\ wait' = wait
      BY <1>3 DEF Sent, Failed, Leave, Goto
    <2>2. pc[d] = "pacing" /\ d # c
      BY <2>1 DEF Inv, TypeOK
    <2>3. ChatOf[d] # ChatOf[c]
      BY <2>1, <2>2, SendingIsFirst
    <2>4. since'[ChatOf[d]] = since[ChatOf[d]]
      BY <1>3, <2>3 DEF Sent, Failed, Inv, TypeOK
    <2>5. QED
      BY <2>1, <2>2, <2>4 DEF PacingInv
  <1>4. CASE Tick
    <2>1. pc[d] = "pacing"
      BY <1>4 DEF Tick
    <2>2. since[ChatOf[d]] + wait[d] >= Interval
      BY <2>1 DEF PacingInv
    <2>3. /\ since'[ChatOf[d]] = IF since[ChatOf[d]] < Interval THEN since[ChatOf[d]] + 1
                                                                ELSE Interval
          /\ wait'[d] = IF wait[d] > 0 THEN wait[d] - 1 ELSE 0
      BY <1>0, <1>4 DEF Tick
    <2>4. QED
      BY <1>0, <2>2, <2>3
  <1>5. CASE UNCHANGED vars
    BY <1>5 DEF vars, PacingInv
  <1>6. QED
    BY <1>1, <1>2, <1>3, <1>4, <1>5 DEF Next

\* Only a call whose timer has run out starts to send, and by then the interval is over.
LEMMA StepPaced ==
  ASSUME Inv, PacingInv, [Next]_vars, NEW d \in Calls,
         pc[d] # "sending", pc'[d] = "sending"
  PROVE  since[ChatOf[d]] = Interval
  <1>1. Post(d)
    BY DEF Next, vars, Enter, Resume, Post, Sent, Failed, Leave, Tick, Goto, Inv, TypeOK
  <1>2. since[ChatOf[d]] \in 0..Interval /\ wait[d] = 0 /\ pc[d] = "pacing"
    BY <1>1, ChatAssumption DEF Post, Inv, TypeOK
  <1>3. since[ChatOf[d]] + wait[d] >= Interval
    BY <1>2 DEF PacingInv
  <1>4. QED
    BY <1>2, <1>3, IntervalAssumption

\* Paced: two messages of a chat are never closer together than the minimum interval.
THEOREM IntervalIsKept == Spec => Paced
  <1>1. Init => PacingInv
    BY DEF Init, PacingInv
  <1>2. Inv /\ PacingInv /\ [Next]_vars
          => [\A c \in Calls : pc[c] # "sending" /\ pc'[c] = "sending"
                                 => since[ChatOf[c]] = Interval]_vars
    BY StepPaced
  <1>3. QED
    BY <1>1, <1>2, ChainsAreLines, StepPacing, PTL DEF Spec, Paced

-----------------------------------------------------------------------------
(* Connection.                                                             *)

IsLive(s) == state[s] \in {"connecting", "open"}

Flags == /\ connected \in BOOLEAN /\ stopping \in BOOLEAN
         /\ loggedOut \in BOOLEAN /\ late \in BOOLEAN

\* Every socket alive is the gateway's own, and its own is alive.
OneSocket ==
    /\ \A s \in Sockets : IsLive(s) => s = socket
    /\ socket # None => IsLive(socket)

Backed == connected /\ ~late => socket # None /\ state[socket] = "open"
PreparedWithout == connecting = "preparing" => socket = None
RefreshedAfterOpening == \A s \in refreshing : state[s] \in {"open", "closed"}

ConnInv == ConnTypeOK /\ OneSocket /\ Backed /\ PreparedWithout /\ RefreshedAfterOpening

\* The invariant holds when the process starts.
LEMMA InitConnInv == ConnInit => ConnInv
  <1> SUFFICES ASSUME ConnInit PROVE ConnInv
    OBVIOUS
  <1>1. Flags
    BY Zenon DEF ConnInit, Flags
  <1>2. ConnTypeOK
    BY <1>1, ConnectionAssumption DEF ConnInit, ConnTypeOK, Flags
  <1>3. OneSocket /\ Backed /\ PreparedWithout /\ RefreshedAfterOpening
    BY DEF ConnInit, OneSocket, IsLive, Backed, PreparedWithout, RefreshedAfterOpening
  <1> QED  BY <1>2, <1>3 DEF ConnInv

\* Opening a socket or failing to: there is no other one alive.
LEMMA OpeningSteps ==
    ASSUME ConnInv, \/ OpenSocket \/ OpenSocketThrows \/ RequestPairingCode
                    \/ PairingThrows \/ PairingFails
    PROVE  ConnInv'
  <1> USE ConnectionAssumption DEF ConnInv
  <1>1. CASE OpenSocket
    <2>1. PICK s \in Unused : /\ state' = [state EXCEPT ![s] = "connecting"]
                              /\ socket' = s
      BY <1>1 DEF OpenSocket
    <2>2. s \in Sockets /\ state[s] = "unused" /\ socket = None
      BY <1>1 DEF OpenSocket, PreparedWithout, Unused
    <2>3. ConnTypeOK'
      BY <1>1, <2>1, <2>2 DEF OpenSocket, ConnTypeOK, Opened
    <2>4. OneSocket'
      BY <2>1, <2>2 DEF OneSocket, IsLive, ConnTypeOK, Sockets
    <2>5. Backed' /\ PreparedWithout'
      BY <1>1, <2>1, <2>2 DEF OpenSocket, Backed, PreparedWithout
    <2>6. RefreshedAfterOpening'
      BY <1>1, <2>1, <2>2 DEF OpenSocket, RefreshedAfterOpening, ConnTypeOK
    <2> QED  BY <2>3, <2>4, <2>5, <2>6
  <1>2. CASE OpenSocketThrows
    BY <1>2 DEF OpenSocketThrows, OpeningFails, socketVars, ConnTypeOK, OneSocket, IsLive, Backed,
                PreparedWithout, RefreshedAfterOpening
  <1>3. CASE RequestPairingCode
    BY <1>3 DEF RequestPairingCode, Opened, socketVars, ConnTypeOK, OneSocket, IsLive, Backed,
                PreparedWithout, RefreshedAfterOpening
  <1>4. CASE PairingThrows
    BY <1>4 DEF PairingThrows, socketVars, ConnTypeOK, OneSocket, IsLive, Backed,
                PreparedWithout, RefreshedAfterOpening
  <1>5. CASE PairingFails
    BY <1>5 DEF PairingFails, OpeningFails, socketVars, ConnTypeOK, OneSocket, IsLive, Backed,
                PreparedWithout, RefreshedAfterOpening
  <1> QED  BY <1>1, <1>2, <1>3, <1>4, <1>5

\* The timer prepares an opening only without a socket.
LEMMA ProcessSteps ==
    ASSUME ConnInv, TimerFires \/ Disconnect \/ Exit
    PROVE  ConnInv'
  <1> USE ConnectionAssumption DEF ConnInv
  <1>1. CASE TimerFires
    <2>1. Flags'
      BY <1>1, Zenon DEF TimerFires, socketVars, ConnTypeOK, Flags
    <2>2. ConnTypeOK'
      BY <1>1, <2>1 DEF TimerFires, socketVars, ConnTypeOK, Flags
    <2>3. OneSocket' /\ Backed' /\ RefreshedAfterOpening'
      BY <1>1 DEF TimerFires, socketVars, OneSocket, IsLive, Backed, RefreshedAfterOpening
    <2>4. PreparedWithout'
      BY <1>1 DEF TimerFires, socketVars, PreparedWithout
    <2> QED  BY <2>2, <2>3, <2>4
  <1>2. CASE Disconnect
    <2>1. ConnTypeOK'
      BY <1>2 DEF Disconnect, ConnTypeOK
    <2>2. OneSocket'
      BY <1>2 DEF Disconnect, OneSocket, IsLive, ConnTypeOK
    <2>3. Backed' /\ PreparedWithout'
      BY <1>2 DEF Disconnect, Backed, PreparedWithout
    <2>4. RefreshedAfterOpening'
      BY <1>2 DEF Disconnect, RefreshedAfterOpening, ConnTypeOK
    <2> QED  BY <2>1, <2>2, <2>3, <2>4
  <1>3. CASE Exit
    BY <1>3 DEF Exit, socketVars, openVars, ConnTypeOK, OneSocket, IsLive, Backed,
                PreparedWithout, RefreshedAfterOpening
  <1> QED  BY <1>1, <1>2, <1>3

\* The close of a socket leaves none alive.
LEMMA CloseStep ==
    ASSUME ConnInv, NEW s \in Sockets, NEW out \in BOOLEAN, Close(s, out),
           creds' \in {"new", "provisional", "registered"}
    PROVE  ConnInv'
  <1> USE ConnectionAssumption DEF ConnInv
  <1>1. s = socket
    BY DEF Close, Live, OneSocket, IsLive
  <1>2. ConnTypeOK'
    <2>1. Flags'
      BY Zenon DEF Close, ConnTypeOK, Flags
    <2> QED  BY <2>1 DEF Close, ConnTypeOK, Flags
  <1>3. OneSocket'
    BY <1>1 DEF Close, OneSocket, IsLive, ConnTypeOK
  <1>4. Backed' /\ PreparedWithout'
    BY DEF Close, Backed, PreparedWithout
  <1>5. RefreshedAfterOpening'
    BY DEF Close, RefreshedAfterOpening, ConnTypeOK
  <1> QED  BY <1>2, <1>3, <1>4, <1>5

\* What WhatsApp does with a socket, and the end of a refresh.
LEMMA SocketSteps ==
    ASSUME ConnInv, NEW s \in Sockets, Open(s) \/ RefreshEnds(s) \/ Lose(s) \/ Pair(s)
    PROVE  ConnInv'
  <1> USE ConnectionAssumption DEF ConnInv
  <1>1. CASE Open(s)
    <2>1. s = socket
      BY <1>1 DEF Open, OneSocket, IsLive
    <2>2. ConnTypeOK'
      BY <1>1 DEF Open, openVars, ConnTypeOK
    <2>3. OneSocket'
      BY <1>1, <2>1 DEF Open, OneSocket, IsLive, ConnTypeOK
    <2>4. Backed' /\ PreparedWithout'
      BY <1>1, <2>1 DEF Open, openVars, Backed, PreparedWithout, ConnTypeOK
    <2>5. RefreshedAfterOpening'
      BY <1>1 DEF Open, RefreshedAfterOpening, ConnTypeOK
    <2> QED  BY <2>2, <2>3, <2>4, <2>5
  <1>2. CASE RefreshEnds(s)
    <2>1. ConnTypeOK'
      <3>1. Flags'
        BY <1>2, Zenon DEF RefreshEnds, openVars, ConnTypeOK, Flags
      <3> QED  BY <1>2, <3>1 DEF RefreshEnds, openVars, ConnTypeOK, Flags
    <2>2. OneSocket' /\ PreparedWithout'
      BY <1>2 DEF RefreshEnds, openVars, OneSocket, IsLive, PreparedWithout
    <2>3. ~late' => s = socket
      BY <1>2, Zenon DEF RefreshEnds
    <2>4. s # None /\ (s = socket => state[socket] = "open")
      BY <1>2 DEF RefreshEnds, RefreshedAfterOpening, OneSocket, IsLive, Sockets
    <2>5. Backed'
      BY <1>2, <2>3, <2>4 DEF RefreshEnds, Backed
    <2>6. RefreshedAfterOpening'
      BY <1>2 DEF RefreshEnds, RefreshedAfterOpening
    <2> QED  BY <2>1, <2>2, <2>5, <2>6
  <1>3. CASE Lose(s)
    <2>1. PICK out \in BOOLEAN : Close(s, out) /\ UNCHANGED creds
      BY <1>3 DEF Lose
    <2> QED  BY <2>1, CloseStep DEF ConnTypeOK
  <1>4. CASE Pair(s)
    BY <1>4, CloseStep DEF Pair
  <1> QED  BY <1>1, <1>2, <1>3, <1>4

\* Every step keeps the invariant.
LEMMA NextConnInv == ConnInv /\ [ConnNext]_connVars => ConnInv'
  <1> SUFFICES ASSUME ConnInv, [ConnNext]_connVars PROVE ConnInv'
    OBVIOUS
  <1>1. CASE OpenSocket \/ OpenSocketThrows \/ RequestPairingCode \/ PairingThrows \/ PairingFails
    BY <1>1, OpeningSteps
  <1>2. CASE TimerFires \/ Disconnect \/ Exit
    BY <1>2, ProcessSteps
  <1>3. ASSUME NEW s \in Sockets, Open(s) \/ RefreshEnds(s) \/ Lose(s) \/ Pair(s)
        PROVE  ConnInv'
    BY <1>3, SocketSteps
  <1>4. CASE UNCHANGED connVars
    BY <1>4 DEF connVars, ConnInv, ConnTypeOK, OneSocket, IsLive, Backed, PreparedWithout,
                RefreshedAfterOpening
  <1> QED  BY <1>1, <1>2, <1>3, <1>4 DEF ConnNext

\* The invariant says what the property asks; the sockets alive are in {socket}.
LEMMA ConnInvBacks == ConnInv => ConnectedIsBacked
  <1> SUFFICES ASSUME ConnInv PROVE ConnectedIsBacked
    OBVIOUS
  <1>1. Live \subseteq {socket}
    BY DEF ConnInv, OneSocket, IsLive, Live
  <1>2. IsFiniteSet({socket}) /\ Cardinality({socket}) = 1
    BY FS_Singleton
  <1>3. Cardinality(Live) <= 1
    BY <1>1, <1>2, FS_Subset
  <1> QED  BY <1>3 DEF ConnInv, Backed, ConnectedIsBacked

-----------------------------------------------------------------------------
\* The gateway never has two sockets alive, and connected means its own socket is
\* open, unless a refresh ended late.
THEOREM ConnectionIsBacked == ConnSpec => []ConnectedIsBacked
  <1>1. ConnSpec => []ConnInv
    BY InitConnInv, NextConnInv, PTL DEF ConnSpec
  <1> QED  BY <1>1, ConnInvBacks, PTL
-----------------------------------------------------------------------------
(* Membership.                                                             *)

\* What a handling does follows from what it is.
KindOfStep ==
    \A h \in Handlers : /\ at[h] = "find" => kind[h] = "register"
                        /\ at[h] = "list" => kind[h] \in {"register", "leave"}
                        /\ at[h] \in {"fetch", "resolve"} => kind[h] = "sync"

\* Whom a handling will list has a row in users by then.
KnownUsers ==
    \A h \in Handlers :
        /\ at[h] \in {"list", "delete", "commit"} /\ kind[h] # "leave" => who[h] \subseteq users
        /\ Listed(list[h]) \subseteq users

\* What a lone handling still has to make of the list.
Remaining(h) ==
    /\ at[h] \in {"delete", "commit"} /\ kind[h] # "sync" => list[h] = rows
    /\ at[h] = "commit" => holds[h] = Listed(rows)
    /\ kind[h] = "register" => live = Active \cup who[h]
    /\ kind[h] = "leave" => live = Active \ who[h]
    /\ kind[h] = "sync" /\ at[h] # "fetch" => live = who[h]

Lone ==
    ~disturbed =>
       /\ Quiet => Active = live
       /\ \A h \in Handlers \ Idle : /\ Remaining(h)
                                     /\ \A x \in Handlers \ Idle : x = h

MemberInv == GroupTypeOK /\ KindOfStep /\ KnownUsers /\ Lone

\* The list a handling makes, for each kind of handling.
LEMMA NewListOfKind ==
    ASSUME GroupTypeOK, NEW h \in Handlers
    PROVE  /\ kind[h] = "register" =>
                 NewList(h) = [j \in Jids |-> IF j \in who[h] THEN "active" ELSE list[h][j]]
           /\ kind[h] = "leave" =>
                 NewList(h) = [j \in Jids |-> IF j \in who[h] /\ list[h][j] # "none"
                                              THEN "left" ELSE list[h][j]]
           /\ kind[h] = "sync" =>
                 NewList(h) = [j \in Jids |-> IF j \in who[h] THEN "active" ELSE "none"]
  BY DEF NewList

\* It is a list of people who have a row in users.
LEMMA NewListType ==
    ASSUME GroupTypeOK, KnownUsers, NEW h \in Handlers, at[h] \in {"delete", "commit"}
    PROVE  NewList(h) \in [Jids -> Statuses] /\ Listed(NewList(h)) \subseteq users
  <1>1. /\ list[h] \in [Jids -> Statuses] /\ Listed(list[h]) \subseteq users
        /\ kind[h] # "leave" => who[h] \subseteq users
    BY DEF GroupTypeOK, KnownUsers
  <1>2. CASE kind[h] = "register"
    BY <1>1, <1>2, NewListOfKind DEF Statuses, Listed
  <1>3. CASE kind[h] = "leave"
    BY <1>1, <1>3, NewListOfKind DEF Statuses, Listed
  <1>4. CASE kind[h] = "sync"
    BY <1>1, <1>4, NewListOfKind DEF Statuses, Listed
  <1> QED  BY <1>2, <1>3, <1>4 DEF GroupTypeOK, Kinds

\* A lone handling leaves the participants as the active members.
LEMMA NewListIsExact ==
    ASSUME GroupTypeOK, NEW h \in Handlers, at[h] \in {"delete", "commit"}, Remaining(h),
           rows' = NewList(h), live' = live
    PROVE  Active' = live'
  <1>1. rows \in [Jids -> Statuses] /\ live \subseteq Jids /\ who[h] \subseteq Jids
    BY DEF GroupTypeOK
  <1>2. CASE kind[h] = "register"
    BY <1>1, <1>2, NewListOfKind DEF Active, Remaining
  <1>3. CASE kind[h] = "leave"
    BY <1>1, <1>3, NewListOfKind DEF Active, Remaining
  <1>4. CASE kind[h] = "sync"
    BY <1>1, <1>4, NewListOfKind DEF Active, Remaining
  <1> QED  BY <1>2, <1>3, <1>4 DEF GroupTypeOK, Kinds

\* Handlings that begin are in nobody's way.
LEMMA Starting ==
    ASSUME MemberInv, NEW hs \in SUBSET Idle, NEW k, NEW s, NEW about \in [hs -> SUBSET Jids],
           \/ k = "register" /\ s = "find"
           \/ k = "leave" /\ s = "list"
           \/ k = "sync" /\ s = "fetch",
           Start(hs, k, s, about), UNCHANGED <<driver, users, ledgerVars>>,
           live' \in SUBSET Jids, up' \in BOOLEAN
    PROVE  /\ GroupTypeOK' /\ KindOfStep' /\ KnownUsers'
           /\ \A h \in hs : at'[h] = s /\ kind'[h] = k /\ who'[h] = about[h]
           /\ Idle' = Idle \ hs
  <1> USE DEF MemberInv
  <1>1. hs \subseteq Handlers /\ \A h \in hs : at[h] = "idle"
    BY DEF Idle
  <1>2. /\ at' \in [Handlers -> Steps] /\ kind' \in [Handlers -> Kinds]
        /\ who' \in [Handlers -> SUBSET Jids] /\ list' = list
    BY <1>1 DEF Start, GroupTypeOK, Steps, Kinds
  <1>3. /\ \A h \in hs : at'[h] = s /\ kind'[h] = k /\ who'[h] = about[h]
        /\ \A h \in Handlers \ hs : at'[h] = at[h] /\ kind'[h] = kind[h] /\ who'[h] = who[h]
    BY <1>1 DEF Start
  <1>4. {h \in Handlers : at'[h] = "commit"} = {h \in Handlers : at[h] = "commit"}
    BY <1>1, <1>3
  <1>5. GroupTypeOK'
    BY <1>2, <1>4 DEF GroupTypeOK, ledgerVars
  <1>6. KindOfStep'
    BY <1>3 DEF KindOfStep
  <1>7. KnownUsers'
    BY <1>2, <1>3 DEF KnownUsers, Listed
  <1>8. Idle' = Idle \ hs
    BY <1>1, <1>3 DEF Idle
  <1> QED  BY <1>3, <1>5, <1>6, <1>7, <1>8

\* A handling that begins alone is the only one.
LEMMA StartingAlone ==
    ASSUME GroupTypeOK, NEW hs \in SUBSET Idle, Alone(hs), Idle' = Idle \ hs
    PROVE  /\ Idle = Handlers /\ ~Quiet'
           /\ \E h \in Handlers : hs = {h} /\ Handlers \ Idle' = {h}
  <1>1. Idle = Handlers /\ hs \subseteq Handlers
    BY DEF Alone, Quiet
  <1>2. IsFiniteSet(hs)
    <2>1. IsFiniteSet(Handlers)
      BY FS_Interval, MembershipAssumption DEF Handlers
    <2> QED  BY <1>1, <2>1, FS_Subset
  <1>3. PICK h : hs = {h}
    BY <1>2, FS_Singleton DEF Alone
  <1> QED  BY <1>1, <1>3 DEF Quiet, Handlers

\* Nothing is wrong with a group that was synchronised.
LEMMA InitMemberInv == GroupInit => MemberInv
  <1> SUFFICES ASSUME GroupInit PROVE MemberInv
    OBVIOUS
  <1> USE DEF GroupInit
  <1>1. GroupTypeOK
    BY DEF GroupTypeOK, Steps, Kinds, Statuses, NoRows, Listed
  <1>2. KindOfStep /\ KnownUsers
    BY DEF KindOfStep, KnownUsers, NoRows, Listed
  <1>3. Idle = Handlers /\ Active = live
    BY DEF Idle, Active
  <1>4. Lone
    BY <1>3 DEF Lone
  <1> QED  BY <1>1, <1>2, <1>4 DEF MemberInv

\* People join: the one who is registered alone is the one who is missing.
LEMMA JoinStep ==
    ASSUME MemberInv, NEW S \in SUBSET Jids, Join(S)
    PROVE  MemberInv'
  <1> USE DEF MemberInv, worldVars
  <1>1. live' \in SUBSET Jids /\ live' = live \cup S
    BY DEF Join, GroupTypeOK
  <1>2. CASE up
    <2>1. PICK hs \in SUBSET Idle : \E f \in Bijection(hs, S) :
             /\ Start(hs, "register", "find", [h \in hs |-> {f[h]}])
             /\ disturbed' = (disturbed \/ ~Alone(hs))
      BY <1>2 DEF Join
    <2>2. PICK f \in Bijection(hs, S) :
             /\ Start(hs, "register", "find", [h \in hs |-> {f[h]}])
             /\ disturbed' = (disturbed \/ ~Alone(hs))
      BY <2>1
    <2>3. f \in [hs -> S] /\ \A j \in S : \E h \in hs : f[h] = j
      BY DEF Bijection, Injection, Surjection
    <2>4. DEFINE about == [h \in hs |-> {f[h]}]
    <2>5. about \in [hs -> SUBSET Jids] /\ \A h \in hs : about[h] = {f[h]}
      BY <2>3
    <2>6. Start(hs, "register", "find", about)
      BY <2>2
    <2> HIDE DEF about
    <2>7. UNCHANGED <<driver, up, users, ledgerVars>>
      BY DEF Join
    <2>8. /\ GroupTypeOK' /\ KindOfStep' /\ KnownUsers'
          /\ \A h \in hs : at'[h] = "find" /\ kind'[h] = "register" /\ who'[h] = {f[h]}
          /\ Idle' = Idle \ hs
      <3>1. up' \in BOOLEAN
        BY <2>7 DEF GroupTypeOK
      <3> QED  BY <1>1, <2>5, <2>6, <2>7, <3>1, Starting
    <2>9. ASSUME ~disturbed' PROVE Lone'
      <3>1. ~disturbed /\ Alone(hs)
        BY <2>2, <2>9
      <3>2. PICK h \in Handlers : hs = {h} /\ Handlers \ Idle' = {h} /\ Idle = Handlers /\ ~Quiet'
        BY <2>8, <3>1, StartingAlone
      <3>3. Active = live /\ Active' = Active /\ S = {f[h]}
        BY <2>3, <2>7, <3>1, <3>2 DEF Lone, Quiet, Active, ledgerVars
      <3>4. Remaining(h)'
        BY <1>1, <2>8, <3>2, <3>3 DEF Remaining
      <3>5. Handlers' = Handlers
        BY DEF Handlers
      <3> QED  BY <3>2, <3>4, <3>5 DEF Lone
    <2> QED  BY <2>8, <2>9 DEF Lone
  <1>3. CASE ~up
    <2>1. disturbed' = TRUE /\ UNCHANGED <<driver, up, users, ledgerVars, handlingVars>>
      BY <1>3 DEF Join
    <2>2. GroupTypeOK'
      BY <1>1, <2>1 DEF GroupTypeOK, ledgerVars, handlingVars
    <2> QED  BY <2>1, <2>2 DEF KindOfStep, KnownUsers, Lone, handlingVars
  <1> QED  BY <1>2, <1>3

\* People leave: a departure handled alone takes off the list those who left.
LEMMA DepartStep ==
    ASSUME MemberInv, NEW S \in SUBSET Jids, Depart(S)
    PROVE  MemberInv'
  <1> USE DEF MemberInv
  <1>1. live' \in SUBSET Jids /\ live' = live \ S
    BY DEF Depart, GroupTypeOK
  <1>2. CASE up
    <2>1. PICK h \in Idle : /\ Start({h}, "leave", "list", [x \in {h} |-> S])
                            /\ disturbed' = (disturbed \/ ~Alone({h}))
      BY <1>2 DEF Depart
    <2>2. DEFINE about == [x \in {h} |-> S]
    <2>3. about \in [{h} -> SUBSET Jids] /\ about[h] = S
      OBVIOUS
    <2>4. Start({h}, "leave", "list", about)
      BY <2>1
    <2> HIDE DEF about
    <2>5. UNCHANGED <<driver, up, users, ledgerVars>>
      BY DEF Depart
    <2>6. /\ GroupTypeOK' /\ KindOfStep' /\ KnownUsers'
          /\ at'[h] = "list" /\ kind'[h] = "leave" /\ who'[h] = S
          /\ Idle' = Idle \ {h}
      <3>1. up' \in BOOLEAN
        BY <2>5 DEF GroupTypeOK
      <3> QED  BY <1>1, <2>3, <2>4, <2>5, <3>1, Starting
    <2>7. ASSUME ~disturbed' PROVE Lone'
      <3>1. ~disturbed /\ Alone({h})
        BY <2>1, <2>7
      <3>2. Handlers \ Idle' = {h} /\ Idle = Handlers /\ ~Quiet'
        BY <2>6, <3>1, StartingAlone
      <3>3. Active = live /\ Active' = Active
        BY <2>5, <3>1, <3>2 DEF Lone, Quiet, Active, ledgerVars
      <3>4. Remaining(h)'
        BY <1>1, <2>6, <3>2, <3>3 DEF Remaining
      <3>5. Handlers' = Handlers
        BY DEF Handlers
      <3> QED  BY <3>2, <3>4, <3>5 DEF Lone
    <2> QED  BY <2>6, <2>7 DEF Lone
  <1>3. CASE ~up
    <2>1. disturbed' = TRUE /\ UNCHANGED <<driver, up, users, ledgerVars, handlingVars>>
      BY <1>3 DEF Depart
    <2>2. GroupTypeOK'
      BY <1>1, <2>1 DEF GroupTypeOK, ledgerVars, handlingVars
    <2> QED  BY <2>1, <2>2 DEF KindOfStep, KnownUsers, Lone, handlingVars
  <1> QED  BY <1>2, <1>3

\* A stranger who writes is a participant already.
LEMMA SpeakStep ==
    ASSUME MemberInv, NEW j \in Jids, Speak(j)
    PROVE  MemberInv'
  <1> USE DEF MemberInv
  <1>1. PICK h \in Idle : /\ Start({h}, "register", "find", [x \in {h} |-> {j}])
                          /\ disturbed' = (disturbed \/ ~Alone({h}))
    BY DEF Speak
  <1>2. DEFINE about == [x \in {h} |-> {j}]
  <1>3. about \in [{h} -> SUBSET Jids] /\ about[h] = {j}
    OBVIOUS
  <1>4. Start({h}, "register", "find", about)
    BY <1>1
  <1> HIDE DEF about
  <1>5. UNCHANGED <<driver, live, up, users, ledgerVars>> /\ j \in live
    BY DEF Speak
  <1>6. /\ GroupTypeOK' /\ KindOfStep' /\ KnownUsers'
        /\ at'[h] = "find" /\ kind'[h] = "register" /\ who'[h] = {j}
        /\ Idle' = Idle \ {h}
    <2>1. up' \in BOOLEAN /\ live' \in SUBSET Jids
      BY <1>5 DEF GroupTypeOK
    <2> QED  BY <1>3, <1>4, <1>5, <2>1, Starting
  <1>7. ASSUME ~disturbed' PROVE Lone'
    <2>1. ~disturbed /\ Alone({h})
      BY <1>1, <1>7
    <2>2. Handlers \ Idle' = {h} /\ Idle = Handlers /\ ~Quiet'
      BY <1>6, <2>1, StartingAlone
    <2>3. Active = live /\ Active' = Active
      BY <1>5, <2>1, <2>2 DEF Lone, Quiet, Active, ledgerVars
    <2>4. Remaining(h)'
      BY <1>5, <1>6, <2>2, <2>3 DEF Remaining
    <2>5. Handlers' = Handlers
      BY DEF Handlers
    <2> QED  BY <2>2, <2>4, <2>5 DEF Lone
  <1> QED  BY <1>6, <1>7 DEF Lone

\* A synchronisation that begins alone owes nothing to what was before.
LEMMA SyncStep ==
    ASSUME MemberInv, NEW h \in Handlers, Sync(h)
    PROVE  MemberInv'
  <1> USE DEF MemberInv
  <1>1. /\ h \in Idle /\ Start({h}, "sync", "fetch", [x \in {h} |-> {}])
        /\ disturbed' = ~Quiet
    BY DEF Sync, Free
  <1>2. DEFINE about == [x \in {h} |-> {}]
  <1>3. about \in [{h} -> SUBSET Jids]
    OBVIOUS
  <1>4. Start({h}, "sync", "fetch", about)
    BY <1>1
  <1> HIDE DEF about
  <1>5. UNCHANGED <<driver, live, up, users, ledgerVars>>
    BY DEF Sync, worldVars
  <1>6. /\ GroupTypeOK' /\ KindOfStep' /\ KnownUsers'
        /\ at'[h] = "fetch" /\ kind'[h] = "sync" /\ Idle' = Idle \ {h}
    <2>1. up' \in BOOLEAN /\ live' \in SUBSET Jids
      BY <1>5 DEF GroupTypeOK
    <2> QED  BY <1>1, <1>3, <1>4, <1>5, <2>1, Starting
  <1>7. ASSUME ~disturbed' PROVE Lone'
    <2>1. Quiet
      BY <1>1, <1>7
    <2>2. Handlers \ Idle' = {h} /\ Handlers' = Handlers
      BY <1>6, <2>1 DEF Quiet, Handlers
    <2>3. Remaining(h)' /\ ~Quiet'
      BY <1>6, <2>1, <2>2 DEF Remaining, Quiet
    <2> QED  BY <2>2, <2>3 DEF Lone
  <1> QED  BY <1>6, <1>7 DEF Lone

\* One handling goes on by a step.
LEMMA Moving ==
    ASSUME GroupTypeOK, NEW h \in Handlers, at[h] \notin {"idle", "commit"},
           NEW s \in Steps \ {"idle"}, GoTo(h, s)
    PROVE  /\ at' \in [Handlers -> Steps] /\ at'[h] = s
           /\ \A x \in Handlers : x # h => at'[x] = at[x]
           /\ Idle' = Idle /\ h \in Handlers \ Idle
           /\ {x \in Handlers : at[x] = "commit"} \subseteq {x \in Handlers : at'[x] = "commit"}
  <1>1. at' = [at EXCEPT ![h] = s] /\ at \in [Handlers -> Steps]
    BY DEF GoTo, GroupTypeOK
  <1> QED  BY <1>1 DEF Idle

\* What is left of a handling that is over.
LEMMA Forgetting ==
    ASSUME GroupTypeOK, NEW h \in Handlers, at[h] # "idle", Forget(h)
    PROVE  /\ at' \in [Handlers -> Steps] /\ kind' \in [Handlers -> Kinds]
           /\ who' \in [Handlers -> SUBSET Jids] /\ list' \in [Handlers -> [Jids -> Statuses]]
           /\ at'[h] = "idle" /\ list'[h] = NoRows
           /\ \A x \in Handlers : x # h => /\ at'[x] = at[x] /\ kind'[x] = kind[x]
                                           /\ who'[x] = who[x] /\ list'[x] = list[x]
           /\ Idle' = Idle \cup {h} /\ h \notin Idle
  <1>1. NoRows \in [Jids -> Statuses] /\ "sync" \in Kinds /\ "idle" \in Steps
    BY DEF NoRows, Statuses, Kinds, Steps
  <1>2. /\ at' = [at EXCEPT ![h] = "idle"] /\ kind' = [kind EXCEPT ![h] = "sync"]
        /\ who' = [who EXCEPT ![h] = {}] /\ list' = [list EXCEPT ![h] = NoRows]
        /\ at \in [Handlers -> Steps] /\ kind \in [Handlers -> Kinds]
        /\ who \in [Handlers -> SUBSET Jids] /\ list \in [Handlers -> [Jids -> Statuses]]
    BY DEF Forget, GoTo, GroupTypeOK
  <1> QED  BY <1>1, <1>2 DEF Idle

\* The other handlings are as they were when one is over.
LEMMA OthersRemain ==
    ASSUME MemberInv, NEW h \in Handlers, at[h] # "idle", Forget(h),
           users \subseteq users'
    PROVE  KindOfStep' /\ KnownUsers'
  <1> USE DEF MemberInv
  <1>1. /\ at'[h] = "idle" /\ list'[h] = NoRows
        /\ \A x \in Handlers : x # h => /\ at'[x] = at[x] /\ kind'[x] = kind[x]
                                        /\ who'[x] = who[x] /\ list'[x] = list[x]
    BY Forgetting
  <1>2. KindOfStep'
    BY <1>1 DEF KindOfStep
  <1>3. Listed(NoRows) = {}
    BY DEF Listed, NoRows
  <1>4. \A x \in Handlers : Listed(list[x])' = Listed(list'[x])
    BY DEF Listed
  <1>5. KnownUsers'
    <2>1. ASSUME NEW x \in Handlers
          PROVE  /\ at'[x] \in {"list", "delete", "commit"} /\ kind'[x] # "leave" =>
                       who'[x] \subseteq users'
                 /\ Listed(list'[x]) \subseteq users'
      <3>1. CASE x = h
        BY <1>1, <1>3, <3>1
      <3>2. CASE x # h
        BY <1>1, <3>2 DEF KnownUsers
      <3> QED  BY <3>1, <3>2
    <2> QED  BY <1>4, <2>1 DEF KnownUsers
  <1> QED  BY <1>2, <1>5

\* The steps before the list is replaced.
LEMMA FetchStep ==
    ASSUME MemberInv, NEW h \in Handlers, Fetch(h)
    PROVE  MemberInv'
  <1> USE DEF MemberInv
  <1>1. at[h] = "fetch" /\ kind[h] = "sync" /\ UNCHANGED <<driver, live, up, users, ledgerVars>>
    BY DEF Fetch, worldVars, KindOfStep
  <1>2. CASE up
    <2>1. /\ who' = [who EXCEPT ![h] = live] /\ GoTo(h, "resolve")
          /\ kind' = kind /\ list' = list /\ disturbed' = disturbed
      BY <1>2 DEF Fetch
    <2>2. /\ at' \in [Handlers -> Steps] /\ at'[h] = "resolve"
          /\ \A x \in Handlers : x # h => at'[x] = at[x]
          /\ Idle' = Idle /\ h \in Handlers \ Idle
          /\ {x \in Handlers : at[x] = "commit"} \subseteq {x \in Handlers : at'[x] = "commit"}
      BY <1>1, <2>1, Moving DEF Steps
    <2>3. /\ who' \in [Handlers -> SUBSET Jids] /\ who'[h] = live
          /\ \A x \in Handlers : x # h => who'[x] = who[x]
      BY <2>1 DEF GroupTypeOK
    <2>4. GroupTypeOK'
      BY <1>1, <2>1, <2>2, <2>3 DEF GroupTypeOK, ledgerVars
    <2>5. KindOfStep'
      BY <1>1, <2>1, <2>2 DEF KindOfStep
    <2>6. KnownUsers'
      BY <1>1, <2>1, <2>2, <2>3 DEF KnownUsers, Listed
    <2>7. Lone'
      <3>1. Remaining(h)' /\ Handlers' = Handlers
        BY <1>1, <2>1, <2>2, <2>3 DEF Remaining, Handlers
      <3> QED  BY <2>1, <2>2, <3>1 DEF Lone, Quiet
    <2> QED  BY <2>4, <2>5, <2>6, <2>7
  <1>3. CASE ~up
    <2>1. Forget(h) /\ disturbed' = TRUE
      BY <1>3 DEF Fetch
    <2>2. KindOfStep' /\ KnownUsers'
      BY <1>1, <2>1, OthersRemain
    <2>3. {x \in Handlers : at[x] = "commit"} \subseteq {x \in Handlers : at'[x] = "commit"}
      BY <1>1, <2>1, Forgetting
    <2>4. GroupTypeOK'
      BY <1>1, <2>1, <2>3, Forgetting DEF GroupTypeOK, ledgerVars
    <2> QED  BY <2>1, <2>2, <2>4 DEF Lone
  <1> QED  BY <1>2, <1>3

LEMMA UserSteps ==
    ASSUME MemberInv, NEW h \in Handlers, Resolve(h) \/ FindOrCreate(h)
    PROVE  MemberInv'
  <1> USE DEF MemberInv
  <1>1. /\ users' = users \cup who[h] /\ kind' = kind /\ who' = who /\ disturbed' = disturbed
        /\ UNCHANGED <<driver, live, up, ledgerVars>>
    BY DEF Resolve, FindOrCreate, worldVars
  <1>2. \/ at[h] = "resolve" /\ GoTo(h, "delete") /\ list' = [list EXCEPT ![h] = NoRows]
        \/ at[h] = "find" /\ GoTo(h, "list") /\ list' = list
    BY DEF Resolve, FindOrCreate
  <1>3. /\ at' \in [Handlers -> Steps]
        /\ \A x \in Handlers : x # h => at'[x] = at[x]
        /\ Idle' = Idle /\ h \in Handlers \ Idle
        /\ {x \in Handlers : at[x] = "commit"} \subseteq {x \in Handlers : at'[x] = "commit"}
        /\ at[h] = "resolve" => at'[h] = "delete"
        /\ at[h] = "find" => at'[h] = "list"
    BY <1>2, Moving DEF Steps
  <1>4. /\ list' \in [Handlers -> [Jids -> Statuses]] /\ Listed(NoRows) = {}
        /\ \A x \in Handlers : list'[x] \in {list[x], NoRows}
    BY <1>2 DEF GroupTypeOK, NoRows, Statuses, Listed
  <1>5. GroupTypeOK'
    BY <1>1, <1>3, <1>4 DEF GroupTypeOK, ledgerVars, Listed
  <1>6. KindOfStep'
    BY <1>1, <1>2, <1>3 DEF KindOfStep
  <1>7. KnownUsers'
    <2>1. \A x \in Handlers : Listed(list[x])' = Listed(list'[x])
      BY DEF Listed
    <2>2. \A x \in Handlers : Listed(list'[x]) \subseteq users'
      BY <1>1, <1>4 DEF KnownUsers
    <2>3. ASSUME NEW x \in Handlers, at'[x] \in {"list", "delete", "commit"}, kind[x] # "leave"
          PROVE  who[x] \subseteq users'
      BY <1>1, <1>3, <2>3 DEF KnownUsers
    <2> QED  BY <1>1, <2>1, <2>2, <2>3 DEF KnownUsers
  <1>8. Lone'
    <2>1. ASSUME ~disturbed PROVE Remaining(h)'
      <3>1. Remaining(h)
        BY <1>3, <2>1 DEF Lone
      <3>2. Active' = Active
        BY <1>1 DEF Active, ledgerVars
      <3> QED  BY <1>1, <1>2, <1>3, <3>1, <3>2 DEF Remaining, KindOfStep
    <2>2. Handlers' = Handlers
      BY DEF Handlers
    <2> QED  BY <1>1, <1>3, <2>1, <2>2 DEF Lone, Quiet
  <1> QED  BY <1>5, <1>6, <1>7, <1>8

LEMMA ReadSteps ==
    ASSUME MemberInv, NEW h \in Handlers, ListMembers(h) \/ Delete(h)
    PROVE  MemberInv'
  <1> USE DEF MemberInv
  <1>1. /\ kind' = kind /\ who' = who /\ disturbed' = disturbed
        /\ UNCHANGED <<driver, live, up, users, rows>> /\ rows \in [Jids -> Statuses]
    BY DEF ListMembers, Delete, worldVars, ledgerVars, GroupTypeOK
  <1>2. \/ /\ at[h] = "list" /\ GoTo(h, "delete") /\ list' = [list EXCEPT ![h] = rows]
           /\ ahead' = ahead /\ holds' = holds
        \/ /\ at[h] = "delete" /\ GoTo(h, "commit") /\ list' = list
           /\ ahead' = [ahead EXCEPT ![h] = {x \in Handlers : at[x] = "commit"}]
           /\ holds' = [holds EXCEPT ![h] = Listed(rows)]
    BY DEF ListMembers, Delete, ledgerVars
  <1>3. /\ at' \in [Handlers -> Steps]
        /\ \A x \in Handlers : x # h => at'[x] = at[x]
        /\ Idle' = Idle /\ h \in Handlers \ Idle
        /\ {x \in Handlers : at[x] = "commit"} \subseteq {x \in Handlers : at'[x] = "commit"}
        /\ at[h] = "list" => at'[h] = "delete"
        /\ at[h] = "delete" => at'[h] = "commit"
    BY <1>2, Moving DEF Steps
  <1>4. /\ list' \in [Handlers -> [Jids -> Statuses]]
        /\ \A x \in Handlers : list'[x] \in {list[x], rows}
    BY <1>1, <1>2 DEF GroupTypeOK
  <1>5. GroupTypeOK'
    <2>1. ahead' \in [Handlers -> SUBSET {x \in Handlers : at'[x] = "commit"}]
      BY <1>2, <1>3 DEF GroupTypeOK
    <2>2. holds' \in [Handlers -> SUBSET Jids]
      BY <1>2 DEF GroupTypeOK, Listed
    <2> QED  BY <1>1, <1>3, <1>4, <2>1, <2>2 DEF GroupTypeOK, Listed
  <1>6. KindOfStep'
    BY <1>1, <1>2, <1>3 DEF KindOfStep
  <1>7. KnownUsers'
    <2>1. \A x \in Handlers : Listed(list[x])' = Listed(list'[x])
      BY DEF Listed
    <2>2. \A x \in Handlers : Listed(list'[x]) \subseteq users
      BY <1>4 DEF KnownUsers, GroupTypeOK
    <2>3. ASSUME NEW x \in Handlers, at'[x] \in {"list", "delete", "commit"}, kind[x] # "leave"
          PROVE  who[x] \subseteq users
      BY <1>2, <1>3, <2>3 DEF KnownUsers
    <2> QED  BY <1>1, <2>1, <2>2, <2>3 DEF KnownUsers
  <1>8. Lone'
    <2>1. ASSUME ~disturbed PROVE Remaining(h)'
      <3>1. Remaining(h)
        BY <1>3, <2>1 DEF Lone
      <3>2. Active' = Active /\ Listed(rows)' = Listed(rows)
        BY <1>1 DEF Active, Listed
      <3>3. CASE at[h] = "list"
        <4>1. list'[h] = rows /\ at'[h] = "delete"
          BY <1>2, <1>3, <3>3 DEF GroupTypeOK
        <4> QED  BY <1>1, <3>1, <3>2, <3>3, <4>1 DEF Remaining
      <3>4. CASE at[h] = "delete"
        <4>1. list' = list /\ at'[h] = "commit" /\ holds'[h] = Listed(rows)
          BY <1>2, <1>3, <3>4 DEF GroupTypeOK
        <4> QED  BY <1>1, <3>1, <3>2, <3>4, <4>1 DEF Remaining
      <3> QED  BY <1>2, <3>3, <3>4
    <2>2. Handlers' = Handlers
      BY DEF Handlers
    <2> QED  BY <1>1, <1>3, <2>1, <2>2 DEF Lone, Quiet, Active
  <1> QED  BY <1>5, <1>6, <1>7, <1>8

\* A handling that is over leaves no transaction behind.
LEMMA Closing ==
    ASSUME GroupTypeOK, NEW h \in Handlers, at[h] # "idle", Forget(h), Closed(h)
    PROVE  ahead' \in [Handlers -> SUBSET {x \in Handlers : at'[x] = "commit"}]
  <1>1. \A x \in Handlers : x # h => at'[x] = at[x]
    BY Forgetting
  <1>2. \A x \in Handlers : ahead[x] \ {h} \subseteq {y \in Handlers : at'[y] = "commit"}
    BY <1>1 DEF GroupTypeOK
  <1> QED  BY <1>2 DEF Closed

\* A lone handling that is over has made the list exact.
LEMMA LoneIsOver ==
    ASSUME MemberInv, NEW h \in Handlers, at[h] # "idle", Forget(h),
           disturbed' = disturbed, ~disturbed => Active' = live'
    PROVE  Lone'
  <1> USE DEF MemberInv
  <1>1. Idle' = Idle \cup {h} /\ h \notin Idle /\ Handlers' = Handlers
    BY Forgetting DEF Handlers
  <1>2. ~disturbed => Handlers \ Idle' = {}
    BY <1>1 DEF Lone
  <1> QED  BY <1>1, <1>2 DEF Lone

\* The list is replaced.
LEMMA CommitStep ==
    ASSUME MemberInv, NEW h \in Handlers, Commit(h)
    PROVE  MemberInv'
  <1> USE DEF MemberInv
  <1> DEFINE new == NewList(h)
             remaining == Listed(rows) \ holds[h]
             fails == remaining \cap Listed(new) # {}
  <1>1. /\ at[h] = "commit" /\ Forget(h) /\ Closed(h)
        /\ UNCHANGED <<driver, live, up, users, disturbed>>
        /\ rows' = IF fails THEN rows
                   ELSE [j \in Jids |-> IF j \in remaining THEN rows[j] ELSE new[j]]
        /\ holds' = [x \in Handlers |-> IF x = h THEN {}
                                        ELSE IF fails THEN holds[x] ELSE holds[x] \ holds[h]]
    BY DEF Commit, worldVars
  <1>2. new \in [Jids -> Statuses] /\ Listed(new) \subseteq users
    BY <1>1, NewListType
  <1>3. rows \in [Jids -> Statuses] /\ Listed(rows) \subseteq users
    BY DEF GroupTypeOK
  <1> HIDE DEF new
  <1>4. rows' \in [Jids -> Statuses] /\ Listed(rows)' \subseteq users
    <2>1. CASE fails
      BY <1>1, <1>3, <2>1 DEF Listed
    <2>2. CASE ~fails
      <3>1. rows' = [j \in Jids |-> IF j \in remaining THEN rows[j] ELSE new[j]]
        BY <1>1, <2>2
      <3>2. rows' \in [Jids -> Statuses]
        BY <1>2, <1>3, <3>1
      <3>3. Listed(rows)' \subseteq Listed(rows) \cup Listed(new)
        BY <3>1 DEF Listed
      <3> QED  BY <1>2, <1>3, <3>2, <3>3
    <2> QED  BY <2>1, <2>2
  <1>5. holds' \in [Handlers -> SUBSET Jids]
    BY <1>1 DEF GroupTypeOK
  <1>6. GroupTypeOK'
    BY <1>1, <1>4, <1>5, Forgetting, Closing DEF GroupTypeOK
  <1>7. KindOfStep' /\ KnownUsers'
    BY <1>1, OthersRemain
  <1>8. ASSUME ~disturbed PROVE Active' = live'
    <2>1. Remaining(h)
      BY <1>1, <1>8 DEF Lone, Idle
    <2>2. remaining = {}
      BY <1>1, <2>1 DEF Remaining
    <2>3. rows' = new
      BY <1>1, <1>2, <2>2
    <2> QED  BY <1>1, <2>1, <2>3, NewListIsExact DEF new
  <1> QED  BY <1>1, <1>6, <1>7, <1>8, LoneIsOver

LEMMA ReplaceStep ==
    ASSUME MemberInv, NEW h \in Handlers, ReplaceInMemory(h)
    PROVE  MemberInv'
  <1> USE DEF MemberInv
  <1>1. /\ at[h] = "delete" /\ Forget(h) /\ rows' = NewList(h)
        /\ UNCHANGED <<driver, live, up, users, ahead, holds, disturbed>>
    BY DEF ReplaceInMemory, worldVars
  <1>2. rows' \in [Jids -> Statuses] /\ Listed(rows)' \subseteq users
    BY <1>1, NewListType DEF Listed
  <1>3. {x \in Handlers : at[x] = "commit"} \subseteq {x \in Handlers : at'[x] = "commit"}
    BY <1>1, Forgetting
  <1>4. GroupTypeOK'
    BY <1>1, <1>2, <1>3, Forgetting DEF GroupTypeOK
  <1>5. KindOfStep' /\ KnownUsers'
    BY <1>1, OthersRemain
  <1>6. ASSUME ~disturbed PROVE Active' = live'
    <2>1. Remaining(h)
      BY <1>1, <1>6 DEF Lone, Idle
    <2> QED  BY <1>1, <2>1, NewListIsExact
  <1> QED  BY <1>1, <1>4, <1>5, <1>6, LoneIsOver

\* Faults disturb, and a connection that comes and goes changes no list.
LEMMA FaultSteps ==
    ASSUME MemberInv,
           \/ \E h \in Handlers : StoreError(h)
           \/ GoesDown \/ ComesUp \/ Restart
    PROVE  MemberInv'
  <1> USE DEF MemberInv
  <1>1. ASSUME NEW h \in Handlers, StoreError(h) PROVE MemberInv'
    <2>1. /\ at[h] # "idle" /\ Forget(h) /\ Closed(h) /\ holds' = [holds EXCEPT ![h] = {}]
          /\ disturbed' = TRUE /\ UNCHANGED <<driver, live, up, users, rows>>
      BY <1>1 DEF StoreError
    <2>2. holds' \in [Handlers -> SUBSET Jids]
      BY <2>1 DEF GroupTypeOK
    <2>3. GroupTypeOK'
      BY <2>1, <2>2, Forgetting, Closing DEF GroupTypeOK, Listed
    <2>4. KindOfStep' /\ KnownUsers'
      BY <2>1, OthersRemain
    <2> QED  BY <2>1, <2>3, <2>4 DEF Lone
  <1>2. CASE GoesDown \/ ComesUp
    <2>1. /\ UNCHANGED <<driver, live, users, rows, ahead, holds, at, kind, who, list, disturbed>>
          /\ up' \in BOOLEAN
      BY <1>2 DEF GoesDown, ComesUp, ledgerVars, handlingVars
    <2> QED  BY <2>1 DEF GroupTypeOK, KindOfStep, KnownUsers, Lone, Remaining, Quiet, Idle, Active,
                         Listed, Handlers
  <1>3. CASE Restart
    <2>1. /\ disturbed' = TRUE /\ up' = FALSE /\ UNCHANGED <<driver, live>>
          /\ at' = [h \in Handlers |-> "idle"] /\ kind' = [h \in Handlers |-> "sync"]
          /\ who' = [h \in Handlers |-> {}] /\ list' = [h \in Handlers |-> NoRows]
          /\ ahead' = [h \in Handlers |-> {}] /\ holds' = [h \in Handlers |-> {}]
          /\ \/ users' = {} /\ rows' = NoRows
             \/ users' = users /\ rows' = rows
      BY <1>3 DEF Restart
    <2>2. NoRows \in [Jids -> Statuses] /\ Listed(NoRows) = {}
      BY DEF NoRows, Statuses, Listed
    <2>3. rows' \in [Jids -> Statuses] /\ Listed(rows)' \subseteq users' /\ users' \subseteq Jids
      BY <2>1, <2>2 DEF GroupTypeOK, Listed
    <2>4. GroupTypeOK'
      BY <2>1, <2>2, <2>3 DEF GroupTypeOK, Steps, Kinds
    <2>5. KindOfStep' /\ KnownUsers'
      BY <2>1, <2>2 DEF KindOfStep, KnownUsers, Listed
    <2> QED  BY <2>1, <2>4, <2>5 DEF Lone
  <1> QED  BY <1>1, <1>2, <1>3

\* Every step keeps the invariant.
LEMMA NextMemberInv == MemberInv /\ [GroupNext]_groupVars => MemberInv'
  <1> SUFFICES ASSUME MemberInv, [GroupNext]_groupVars PROVE MemberInv'
    OBVIOUS
  <1>1. CASE UNCHANGED groupVars
    BY <1>1 DEF groupVars, MemberInv, GroupTypeOK, KindOfStep, KnownUsers, Lone, Remaining, Quiet,
                Idle, Active, Listed, Handlers
  <1> QED  BY <1>1, JoinStep, DepartStep, SpeakStep, SyncStep, FetchStep, UserSteps, ReadSteps,
              CommitStep, ReplaceStep, FaultSteps DEF GroupNext, Work

\* The variables of the member list keep their types, and nobody is listed without a
\* row in users, which group_members refers to.
THEOREM GroupTypes == GroupSpec => []GroupTypeOK
  BY InitMemberInv, NextMemberInv, PTL DEF GroupSpec, MemberInv

\* When nothing was missed and no two handlings overlapped since the last lone
\* synchronisation, the active members are the participants of the group.
\* (handleGroupParticipants, registerCommunityMember, syncConfiguredGroupMembership)
THEOREM UndisturbedListIsExact == GroupSpec => []UndisturbedIsExact
  <1>1. MemberInv => UndisturbedIsExact
    BY DEF MemberInv, Lone, UndisturbedIsExact
  <1> QED  BY <1>1, InitMemberInv, NextMemberInv, PTL DEF GroupSpec
=============================================================================
