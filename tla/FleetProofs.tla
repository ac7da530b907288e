---------------------------- MODULE FleetProofs ----------------------------
(***************************************************************************)
(* The fleet service: presence rows agree with the registry, an enrolment  *)
(* ends with an identity of its own project, and a command runs once in a  *)
(* boot and gets its own answer, for any devices, calls and failures.      *)
(***************************************************************************)
EXTENDS FleetCommands, FleetEnrolment, FleetPresence, SequenceTheorems, FiniteSetTheorems, TLAPS

(***************************************************************************)
(* Commands.                                                               *)
(***************************************************************************)

(* Callers take turns: at most one call to a board is under way, and it    *)
(* is the one registered.                                                  *)
OneCall ==
  /\ \A c, e \in Calls : callState[c] \in UnderWay /\ callState[e] \in UnderWay
       /\ Target[c] = Target[e] => c = e
  /\ \A c \in Calls : callState[c] \in Registered => pendingFor[Target[c]] = c

(* Nobody answers a command before its call was registered.                *)
Responses ==
  \A i \in DOMAIN toRouter : toRouter[i].kind = "response" =>
    /\ Target[toRouter[i].call] = toRouter[i].board
    /\ callState[toRouter[i].call] \in Registered \cup Returned

(* On the wire to a board, and run by it, are commands for it whose calls  *)
(* were registered.                                                        *)
OnTheWire ==
  \A b \in Boards :
    /\ \A i \in DOMAIN toBoard[b] :
         /\ Target[toBoard[b][i]] = b
         /\ callState[toBoard[b][i]] \in Registered \cup Returned
    /\ \A i \in DOMAIN ranNow[b] :
         /\ Target[ranNow[b][i]] = b
         /\ callState[ranNow[b][i]] \in Registered \cup Returned

(* The copies of a command reach the board together, after those of the    *)
(* calls that returned before it.                                          *)
InTurn ==
  \A b \in Boards : \A i, k \in DOMAIN toBoard[b] : i <= k =>
    /\ callState[toBoard[b][i]] \notin Returned => toBoard[b][k] = toBoard[b][i]
    /\ toBoard[b][i] = toBoard[b][k] =>
         \A j \in DOMAIN toBoard[b] : i <= j /\ j <= k => toBoard[b][j] = toBoard[b][i]

(* Of what the board ran, only the last command can reach it once more,    *)
(* ahead of all others.                                                    *)
RanBefore ==
  \A b \in Boards : \A i \in DOMAIN ranNow[b] :
    /\ callState[ranNow[b][i]] \notin Returned =>
         /\ i = Len(ranNow[b])
         /\ \A k \in DOMAIN toBoard[b] : toBoard[b][k] = ranNow[b][i]
    /\ \A k \in DOMAIN toBoard[b] : toBoard[b][k] = ranNow[b][i] =>
         /\ i = Len(ranNow[b])
         /\ \A j \in DOMAIN toBoard[b] : j <= k => toBoard[b][j] = toBoard[b][k]

(* The ring ends with the command that the board ran last.                 *)
RingEnds ==
  \A b \in Boards : ranNow[b] # << >> =>
    ring[b] # << >> /\ ring[b][Len(ring[b])] = ranNow[b][Len(ranNow[b])]

CommandInv ==
  /\ CommandTypeOK /\ OneCall /\ Responses /\ AnswersAreReplies
  /\ OnTheWire /\ InTurn /\ RanBefore /\ RingEnds /\ OncePerBoot

(* The wires, and what the boards make of them.                            *)
Wires == OnTheWire /\ InTurn /\ RanBefore /\ RingEnds /\ OncePerBoot

(* Callers wait for the answer, or give up, before they call again.        *)
TakeTurns == ~Overlapping

LEMMA CommandStarts == CommandInit => CommandInv
  <1> SUFFICES ASSUME CommandInit PROVE CommandInv OBVIOUS
  <1> USE CommandAssumption DEF CommandInit
  <1>1. CommandTypeOK BY EmptySeq DEF CommandTypeOK, CallStates, LinkStates
  <1>2. OneCall BY DEF OneCall, UnderWay, Registered
  <1>3. Responses BY EmptySeq DEF Responses
  <1>4. AnswersAreReplies BY DEF AnswersAreReplies, RegisteredWhileWaiting
  <1>5. OnTheWire BY EmptySeq DEF OnTheWire
  <1>6. InTurn /\ RanBefore BY EmptySeq DEF InTurn, RanBefore
  <1>7. RingEnds /\ OncePerBoot BY EmptySeq DEF RingEnds, OncePerBoot, IsInjective
  <1> QED BY <1>1, <1>2, <1>3, <1>4, <1>5, <1>6, <1>7 DEF CommandInv

(* Sequences of commands, position by position.                            *)
LEMMA WireFacts ==
  ASSUME CommandTypeOK, NEW b \in Boards
  PROVE  /\ toBoard[b] \in Seq(Calls) /\ ranNow[b] \in Seq(Calls) /\ ring[b] \in Seq(Calls)
         /\ DOMAIN toBoard[b] = 1..Len(toBoard[b]) /\ Len(toBoard[b]) \in Nat
         /\ DOMAIN ranNow[b] = 1..Len(ranNow[b]) /\ Len(ranNow[b]) \in Nat
         /\ DOMAIN ring[b] = 1..Len(ring[b]) /\ Len(ring[b]) \in Nat
         /\ \A i \in DOMAIN toBoard[b] : toBoard[b][i] \in Calls
         /\ \A i \in DOMAIN ranNow[b] : ranNow[b][i] \in Calls
  <1>1. toBoard[b] \in Seq(Calls) /\ ranNow[b] \in Seq(Calls) /\ ring[b] \in Seq(Calls)
    BY DEF CommandTypeOK
  <1> QED BY <1>1, LenProperties, ElementOfSeq

(* A command appended to a sequence of them.                               *)
LEMMA Appended ==
  ASSUME NEW s \in Seq(Calls), NEW c \in Calls
  PROVE  /\ Append(s, c) \in Seq(Calls) /\ Len(Append(s, c)) = Len(s) + 1
         /\ Append(s, c) # << >> /\ Append(s, c)[Len(Append(s, c))] = c
         /\ DOMAIN Append(s, c) = 1..(Len(s) + 1) /\ DOMAIN s = 1..Len(s) /\ Len(s) \in Nat
         /\ \A i \in DOMAIN Append(s, c) : Append(s, c)[i] = IF i \in DOMAIN s THEN s[i] ELSE c
  <1>1. /\ Append(s, c) \in Seq(Calls) /\ Len(Append(s, c)) = Len(s) + 1
        /\ \A i \in 1..Len(s) : Append(s, c)[i] = s[i]
        /\ Append(s, c)[Len(s) + 1] = c /\ Append(s, c) # << >>
    BY AppendProperties
  <1>2. /\ DOMAIN Append(s, c) = 1..(Len(s) + 1) /\ DOMAIN s = 1..Len(s) /\ Len(s) \in Nat
    BY <1>1, LenProperties
  <1> QED BY <1>1, <1>2

(* A sequence of commands without its first.                               *)
LEMMA Advanced ==
  ASSUME NEW s \in Seq(Calls), s # << >>
  PROVE  /\ Tail(s) \in Seq(Calls) /\ Len(Tail(s)) = Len(s) - 1
         /\ DOMAIN Tail(s) = 1..(Len(s) - 1) /\ DOMAIN s = 1..Len(s) /\ Len(s) \in Nat \ {0}
         /\ \A i \in DOMAIN Tail(s) : i + 1 \in DOMAIN s /\ Tail(s)[i] = s[i + 1]
         /\ Head(s) = s[1] /\ Head(s) \in Calls /\ 1 \in DOMAIN s
  <1>1. /\ Head(s) \in Calls /\ Tail(s) \in Seq(Calls) /\ Len(Tail(s)) = Len(s) - 1
        /\ \A i \in 1..Len(Tail(s)) : Tail(s)[i] = s[i + 1]
    BY HeadTailProperties
  <1>2. DOMAIN Tail(s) = 1..(Len(s) - 1) /\ DOMAIN s = 1..Len(s) /\ Len(s) \in Nat \ {0}
    BY <1>1, LenProperties, EmptySeq
  <1>3. Head(s) = s[1] OBVIOUS
  <1> QED BY <1>1, <1>2, <1>3

(* A call that was registered stays so until it returns, for good.         *)
GoesOn ==
  \A c \in Calls :
    /\ callState[c] \in Returned => callState'[c] \in Returned
    /\ callState[c] \in Registered \cup Returned => callState'[c] \in Registered \cup Returned

(* Calls go on without the wires.                                          *)
LEMMA WiresRest ==
  ASSUME CommandTypeOK, Wires, GoesOn, UNCHANGED <<toBoard, ranNow, ring>>
  PROVE  Wires'
  <1> USE WireFacts
  <1>1. OnTheWire' BY DEF Wires, OnTheWire, GoesOn
  <1>2. InTurn' BY DEF Wires, InTurn, GoesOn
  <1>3. RanBefore' BY DEF Wires, RanBefore, GoesOn
  <1>4. (RingEnds /\ OncePerBoot)' BY DEF Wires, RingEnds, OncePerBoot, IsInjective
  <1> QED BY <1>1, <1>2, <1>3, <1>4 DEF Wires

(* A copy of the registered command joins the copies before it.            *)
LEMMA WireGrows ==
  ASSUME CommandTypeOK, OneCall, Wires, GoesOn, NEW b \in Boards, NEW c \in Calls,
         Target[c] = b, callState[c] \in Registered, callState'[c] \in Registered,
         toBoard' = [toBoard EXCEPT ![b] = Append(@, c)], UNCHANGED <<ranNow, ring>>
  PROVE  Wires'
  <1>1. /\ toBoard[b] \in Seq(Calls) /\ DOMAIN toBoard = Boards
        /\ \A a \in Boards \ {b} : toBoard'[a] = toBoard[a]
        /\ toBoard'[b] = Append(toBoard[b], c)
    BY DEF CommandTypeOK
  <1>2. /\ Len(toBoard'[b]) = Len(toBoard[b]) + 1
        /\ DOMAIN toBoard'[b] = 1..(Len(toBoard[b]) + 1)
        /\ DOMAIN toBoard[b] = 1..Len(toBoard[b]) /\ Len(toBoard[b]) \in Nat
        /\ \A i \in DOMAIN toBoard'[b] :
             toBoard'[b][i] = IF i \in DOMAIN toBoard[b] THEN toBoard[b][i] ELSE c
    BY <1>1, Appended
  <1>3. c \in Calls /\ callState[c] \notin Returned /\ callState'[c] \notin Returned
    BY DEF Registered, Returned
  <1>4. \A i \in DOMAIN toBoard[b] : callState[toBoard[b][i]] \in Returned \/ toBoard[b][i] = c
    <2> SUFFICES ASSUME NEW i \in DOMAIN toBoard[b], callState[toBoard[b][i]] \notin Returned
                 PROVE  toBoard[b][i] = c
      OBVIOUS
    <2>1. toBoard[b][i] \in Calls /\ Target[toBoard[b][i]] = b
          /\ callState[toBoard[b][i]] \in Registered
      BY WireFacts DEF Wires, OnTheWire
    <2> QED BY <2>1 DEF OneCall
  <1>5. \A i \in DOMAIN ranNow[b] : callState[ranNow[b][i]] \in Returned \/ ranNow[b][i] = c
    <2> SUFFICES ASSUME NEW i \in DOMAIN ranNow[b], callState[ranNow[b][i]] \notin Returned
                 PROVE  ranNow[b][i] = c
      OBVIOUS
    <2>1. ranNow[b][i] \in Calls /\ Target[ranNow[b][i]] = b
          /\ callState[ranNow[b][i]] \in Registered
      BY WireFacts DEF Wires, OnTheWire
    <2> QED BY <2>1 DEF OneCall
  <1>6. OnTheWire'
    <2> SUFFICES ASSUME NEW a \in Boards
                 PROVE  /\ \A i \in DOMAIN toBoard'[a] :
                             /\ Target[toBoard'[a][i]] = a
                             /\ callState'[toBoard'[a][i]] \in Registered \cup Returned
                        /\ \A i \in DOMAIN ranNow[a] :
                             /\ Target[ranNow[a][i]] = a
                             /\ callState'[ranNow[a][i]] \in Registered \cup Returned
      BY DEF OnTheWire
    <2>1. CASE a = b
      <3>1. ASSUME NEW i \in DOMAIN toBoard'[b]
            PROVE  Target[toBoard'[b][i]] = b
                   /\ callState'[toBoard'[b][i]] \in Registered \cup Returned
        <4>1. CASE i \in DOMAIN toBoard[b]
          <5>1. toBoard[b][i] \in Calls /\ toBoard'[b][i] = toBoard[b][i]
            BY <1>2, <4>1, WireFacts
          <5> QED BY <4>1, <5>1 DEF Wires, OnTheWire, GoesOn
        <4>2. CASE i \notin DOMAIN toBoard[b] BY <1>2, <4>2
        <4> QED BY <4>1, <4>2
      <3>2. \A i \in DOMAIN ranNow[b] : ranNow[b][i] \in Calls BY WireFacts
      <3> QED BY <2>1, <3>1, <3>2 DEF Wires, OnTheWire, GoesOn
    <2>2. CASE a # b BY <1>1, <2>2, WireFacts DEF Wires, OnTheWire, GoesOn
    <2> QED BY <2>1, <2>2
  <1>7. InTurn'
    <2> SUFFICES ASSUME NEW a \in Boards, NEW i \in DOMAIN toBoard'[a],
                        NEW k \in DOMAIN toBoard'[a], i <= k
                 PROVE  /\ callState'[toBoard'[a][i]] \notin Returned =>
                             toBoard'[a][k] = toBoard'[a][i]
                        /\ toBoard'[a][i] = toBoard'[a][k] =>
                             \A j \in DOMAIN toBoard'[a] : i <= j /\ j <= k =>
                               toBoard'[a][j] = toBoard'[a][i]
      BY DEF InTurn
    <2>1. CASE a # b BY <1>1, <2>1, WireFacts DEF Wires, InTurn, GoesOn
    <2>2. CASE a = b /\ k \in DOMAIN toBoard[b]
      <3>1. /\ i \in DOMAIN toBoard[b] /\ toBoard[b][i] \in Calls
            /\ \A j \in DOMAIN toBoard[b] : toBoard'[b][j] = toBoard[b][j]
        BY <1>2, <2>2, WireFacts
      <3>2. \A j \in DOMAIN toBoard'[b] : j <= k => j \in DOMAIN toBoard[b] BY <1>2, <2>2, WireFacts
      <3>3. /\ callState[toBoard[b][i]] \notin Returned => toBoard[b][k] = toBoard[b][i]
            /\ toBoard[b][i] = toBoard[b][k] =>
                 \A j \in DOMAIN toBoard[b] : i <= j /\ j <= k => toBoard[b][j] = toBoard[b][i]
        BY <2>2, <3>1 DEF Wires, InTurn
      <3>4. callState'[toBoard[b][i]] \notin Returned => callState[toBoard[b][i]] \notin Returned
        BY <3>1 DEF GoesOn
      <3> QED BY <2>2, <3>1, <3>2, <3>3, <3>4
    <2>3. CASE a = b /\ k \notin DOMAIN toBoard[b] /\ i \in DOMAIN toBoard[b]
      <3>1. toBoard'[b][k] = c /\ k = Len(toBoard[b]) + 1 BY <1>2, <2>3
      <3>2. toBoard'[b][i] = toBoard[b][i] /\ toBoard[b][i] \in Calls BY <1>2, <2>3, WireFacts
      <3>3. callState'[toBoard[b][i]] \notin Returned => toBoard[b][i] = c
        BY <1>4, <2>3, <3>2 DEF GoesOn
      <3>4. ASSUME toBoard[b][i] = c, NEW j \in DOMAIN toBoard'[b], i <= j PROVE toBoard'[b][j] = c
        <4>1. CASE j \in DOMAIN toBoard[b]
          BY <1>2, <1>3, <2>3, <3>4, <4>1 DEF Wires, InTurn
        <4>2. CASE j \notin DOMAIN toBoard[b] BY <1>2, <4>2
        <4> QED BY <4>1, <4>2
      <3> QED BY <2>3, <3>1, <3>2, <3>3, <3>4
    <2>4. CASE a = b /\ i \notin DOMAIN toBoard[b]
      <3>1. i = Len(toBoard[b]) + 1 /\ k = i BY <1>2, <2>4
      <3> QED BY <1>2, <2>4, <3>1
    <2> QED BY <2>1, <2>2, <2>3, <2>4
  <1>8. RanBefore'
    <2> SUFFICES ASSUME NEW a \in Boards, NEW i \in DOMAIN ranNow[a]
                 PROVE  /\ callState'[ranNow[a][i]] \notin Returned =>
                             /\ i = Len(ranNow[a])
                             /\ \A k \in DOMAIN toBoard'[a] : toBoard'[a][k] = ranNow[a][i]
                        /\ \A k \in DOMAIN toBoard'[a] : toBoard'[a][k] = ranNow[a][i] =>
                             /\ i = Len(ranNow[a])
                             /\ \A j \in DOMAIN toBoard'[a] : j <= k =>
                                  toBoard'[a][j] = toBoard'[a][k]
      BY DEF RanBefore
    <2>1. CASE a # b
      <3>1. toBoard'[a] = toBoard[a] /\ ranNow[a][i] \in Calls BY <1>1, <2>1, WireFacts
      <3>2. callState'[ranNow[a][i]] \notin Returned => callState[ranNow[a][i]] \notin Returned
        BY <3>1 DEF GoesOn
      <3>3. /\ callState[ranNow[a][i]] \notin Returned =>
                 /\ i = Len(ranNow[a])
                 /\ \A k \in DOMAIN toBoard[a] : toBoard[a][k] = ranNow[a][i]
            /\ \A k \in DOMAIN toBoard[a] : toBoard[a][k] = ranNow[a][i] =>
                 /\ i = Len(ranNow[a])
                 /\ \A j \in DOMAIN toBoard[a] : j <= k => toBoard[a][j] = toBoard[a][k]
        BY DEF Wires, RanBefore
      <3>4. callState'[ranNow[a][i]] \notin Returned =>
              /\ i = Len(ranNow[a])
              /\ \A k \in DOMAIN toBoard'[a] : toBoard'[a][k] = ranNow[a][i]
        BY ONLY <3>1, <3>2, <3>3
      <3>5. \A k \in DOMAIN toBoard'[a] : toBoard'[a][k] = ranNow[a][i] =>
              /\ i = Len(ranNow[a])
              /\ \A j \in DOMAIN toBoard'[a] : j <= k => toBoard'[a][j] = toBoard'[a][k]
        BY ONLY <3>1, <3>3
      <3> QED BY <3>4, <3>5
    <2>2. CASE a = b
      <3> ranNow[b][i] \in Calls BY <2>2, WireFacts
      <3>1. CASE ranNow[b][i] = c
        <4>1. i = Len(ranNow[b]) /\ \A k \in DOMAIN toBoard[b] : toBoard[b][k] = c
          BY <1>3, <2>2, <3>1 DEF Wires, RanBefore
        <4>2. \A k \in DOMAIN toBoard'[b] : toBoard'[b][k] = c BY <1>2, <4>1
        <4> QED BY <2>2, <3>1, <4>1, <4>2
      <3>2. CASE ranNow[b][i] # c
        <4>1. callState'[ranNow[b][i]] \in Returned BY <1>5, <2>2, <3>2 DEF GoesOn
        <4>2. ASSUME NEW k \in DOMAIN toBoard'[b], toBoard'[b][k] = ranNow[b][i]
              PROVE  /\ i = Len(ranNow[b])
                     /\ \A j \in DOMAIN toBoard'[b] : j <= k => toBoard'[b][j] = toBoard'[b][k]
          <5>1. k \in DOMAIN toBoard[b] /\ toBoard[b][k] = ranNow[b][i] BY <1>2, <3>2, <4>2
          <5>2. /\ i = Len(ranNow[b])
                /\ \A j \in DOMAIN toBoard[b] : j <= k => toBoard[b][j] = toBoard[b][k]
            BY <2>2, <5>1 DEF Wires, RanBefore
          <5> QED BY <1>2, <5>1, <5>2
        <4> QED BY <2>2, <4>1, <4>2
      <3> QED BY <3>1, <3>2
    <2> QED BY <2>1, <2>2
  <1>9. (RingEnds /\ OncePerBoot)' BY DEF Wires, RingEnds, OncePerBoot, IsInjective
  <1> QED BY <1>6, <1>7, <1>8, <1>9 DEF Wires

(* A session ends and its wire is empty; a reset forgets what was run, and *)
(* the ring with it.                                                       *)
LEMMA WireEmpties ==
  ASSUME CommandTypeOK, Wires, NEW b \in Boards, UNCHANGED callState,
         toBoard' = [toBoard EXCEPT ![b] = << >>],
         \/ UNCHANGED <<ranNow, ring>>
         \/ ranNow' = [ranNow EXCEPT ![b] = << >>] /\ ring' = [ring EXCEPT ![b] = << >>]
  PROVE  Wires'
  <1>1. /\ DOMAIN toBoard = Boards /\ DOMAIN ranNow = Boards /\ DOMAIN ring = Boards
        /\ \A a \in Boards \ {b} : /\ toBoard'[a] = toBoard[a] /\ ranNow'[a] = ranNow[a]
                                   /\ ring'[a] = ring[a]
        /\ toBoard'[b] = << >> /\ DOMAIN toBoard'[b] = {}
        /\ \/ ranNow'[b] = ranNow[b] /\ ring'[b] = ring[b]
           \/ ranNow'[b] = << >> /\ DOMAIN ranNow'[b] = {}
    BY EmptySeq DEF CommandTypeOK
  <1>2. OnTheWire' BY <1>1 DEF Wires, OnTheWire
  <1>3. InTurn' BY <1>1 DEF Wires, InTurn
  <1>4. RanBefore' BY <1>1 DEF Wires, RanBefore
  <1>5. (RingEnds /\ OncePerBoot)' BY <1>1 DEF Wires, RingEnds, OncePerBoot, IsInjective
  <1> QED BY <1>2, <1>3, <1>4, <1>5 DEF Wires

(* What is left on a wire stays in turn.                                   *)
LEMMA WireShorter ==
  ASSUME CommandTypeOK, InTurn, NEW b \in Boards, toBoard[b] # << >>, UNCHANGED callState,
         toBoard' = [toBoard EXCEPT ![b] = Tail(@)]
  PROVE  InTurn'
  <1>1. /\ DOMAIN toBoard = Boards /\ toBoard[b] \in Seq(Calls)
        /\ \A a \in Boards \ {b} : toBoard'[a] = toBoard[a]
        /\ toBoard'[b] = Tail(toBoard[b])
    BY DEF CommandTypeOK
  <1>2. /\ DOMAIN toBoard'[b] = 1..(Len(toBoard[b]) - 1)
        /\ DOMAIN toBoard[b] = 1..Len(toBoard[b]) /\ Len(toBoard[b]) \in Nat \ {0}
        /\ \A i \in DOMAIN toBoard'[b] :
             i + 1 \in DOMAIN toBoard[b] /\ toBoard'[b][i] = toBoard[b][i + 1]
    BY <1>1, Advanced
  <1>3. InTurn'
    <2> SUFFICES ASSUME NEW a \in Boards, NEW i \in DOMAIN toBoard'[a],
                        NEW k \in DOMAIN toBoard'[a], i <= k
                 PROVE  /\ callState[toBoard'[a][i]] \notin Returned =>
                             toBoard'[a][k] = toBoard'[a][i]
                        /\ toBoard'[a][i] = toBoard'[a][k] =>
                             \A j \in DOMAIN toBoard'[a] : i <= j /\ j <= k =>
                               toBoard'[a][j] = toBoard'[a][i]
      BY DEF InTurn
    <2>1. CASE a # b BY <1>1, <2>1 DEF InTurn
    <2>2. CASE a = b
      <3>1. i + 1 <= k + 1 /\ i + 1 \in DOMAIN toBoard[b] /\ k + 1 \in DOMAIN toBoard[b]
            /\ toBoard'[b][i] = toBoard[b][i + 1] /\ toBoard'[b][k] = toBoard[b][k + 1]
        BY <1>2, <2>2
      <3>2. \A j \in DOMAIN toBoard'[b] : i <= j /\ j <= k =>
              /\ j + 1 \in DOMAIN toBoard[b] /\ i + 1 <= j + 1 /\ j + 1 <= k + 1
              /\ toBoard'[b][j] = toBoard[b][j + 1]
        BY <1>2, <2>2
      <3>3. /\ callState[toBoard[b][i + 1]] \notin Returned =>
                 toBoard[b][k + 1] = toBoard[b][i + 1]
            /\ toBoard[b][i + 1] = toBoard[b][k + 1] =>
                 \A j \in DOMAIN toBoard[b] : i + 1 <= j /\ j <= k + 1 =>
                   toBoard[b][j] = toBoard[b][i + 1]
        BY <3>1 DEF InTurn
      <3> QED BY <2>2, <3>1, <3>2, <3>3
    <2> QED BY <2>1, <2>2
  <1> QED BY <1>3

(* A copy of a command that the board ran before is dropped.               *)
LEMMA WireAdvances ==
  ASSUME CommandTypeOK, Wires, NEW b \in Boards, toBoard[b] # << >>, UNCHANGED callState,
         toBoard' = [toBoard EXCEPT ![b] = Tail(@)], UNCHANGED <<ranNow, ring>>
  PROVE  Wires'
  <1>1. /\ DOMAIN toBoard = Boards /\ toBoard[b] \in Seq(Calls)
        /\ \A a \in Boards \ {b} : toBoard'[a] = toBoard[a]
        /\ toBoard'[b] = Tail(toBoard[b])
    BY DEF CommandTypeOK
  <1>2. /\ DOMAIN toBoard'[b] = 1..(Len(toBoard[b]) - 1)
        /\ DOMAIN toBoard[b] = 1..Len(toBoard[b]) /\ Len(toBoard[b]) \in Nat \ {0}
        /\ \A i \in DOMAIN toBoard'[b] :
             i + 1 \in DOMAIN toBoard[b] /\ toBoard'[b][i] = toBoard[b][i + 1]
    BY <1>1, Advanced
  <1>3. OnTheWire' BY <1>1, <1>2 DEF Wires, OnTheWire
  <1>4. InTurn' BY WireShorter DEF Wires
  <1>5. RanBefore'
    <2> SUFFICES ASSUME NEW a \in Boards, NEW i \in DOMAIN ranNow[a]
                 PROVE  /\ callState[ranNow[a][i]] \notin Returned =>
                             /\ i = Len(ranNow[a])
                             /\ \A k \in DOMAIN toBoard'[a] : toBoard'[a][k] = ranNow[a][i]
                        /\ \A k \in DOMAIN toBoard'[a] : toBoard'[a][k] = ranNow[a][i] =>
                             /\ i = Len(ranNow[a])
                             /\ \A j \in DOMAIN toBoard'[a] : j <= k =>
                                  toBoard'[a][j] = toBoard'[a][k]
      BY DEF RanBefore
    <2>1. CASE a # b BY <1>1, <2>1 DEF Wires, RanBefore
    <2>2. CASE a = b
      <3>1. ASSUME NEW k \in DOMAIN toBoard'[b], toBoard'[b][k] = ranNow[b][i]
            PROVE  /\ i = Len(ranNow[b])
                   /\ \A j \in DOMAIN toBoard'[b] : j <= k => toBoard'[b][j] = toBoard'[b][k]
        <4>1. k + 1 \in DOMAIN toBoard[b] /\ toBoard[b][k + 1] = ranNow[b][i] BY <1>2, <3>1
        <4>2. /\ i = Len(ranNow[b])
              /\ \A j \in DOMAIN toBoard[b] : j <= k + 1 => toBoard[b][j] = toBoard[b][k + 1]
          BY <2>2, <4>1 DEF Wires, RanBefore
        <4>3. \A j \in DOMAIN toBoard'[b] : j <= k =>
                /\ j + 1 \in DOMAIN toBoard[b] /\ j + 1 <= k + 1
                /\ toBoard'[b][j] = toBoard[b][j + 1]
          BY <1>2
        <4> QED BY <3>1, <4>1, <4>2, <4>3
      <3>2. callState[ranNow[b][i]] \notin Returned =>
              /\ i = Len(ranNow[b])
              /\ \A k \in DOMAIN toBoard'[b] : toBoard'[b][k] = ranNow[b][i]
        BY <1>2, <2>2 DEF Wires, RanBefore
      <3> QED BY <2>2, <3>1, <3>2
    <2> QED BY <2>1, <2>2
  <1>6. (RingEnds /\ OncePerBoot)' BY DEF Wires, RingEnds, OncePerBoot, IsInjective
  <1> QED BY <1>3, <1>4, <1>5, <1>6 DEF Wires

(* A command the ring does not hold is one the board did not run in this   *)
(* boot: had it run, it would be the last that ran, and in the ring.       *)
LEMMA NotRun ==
  ASSUME CommandTypeOK, Wires, NEW b \in Boards, toBoard[b] # << >>,
         ~Contains(ring[b], Head(toBoard[b]))
  PROVE  /\ \A i \in DOMAIN ranNow[b] : ranNow[b][i] # Head(toBoard[b])
         /\ \A i \in DOMAIN ranNow[b] : callState[ranNow[b][i]] \in Returned
         /\ \A i \in DOMAIN ranNow[b], k \in DOMAIN toBoard[b] : toBoard[b][k] # ranNow[b][i]
  <1>1. /\ toBoard[b] \in Seq(Calls) /\ ring[b] \in Seq(Calls) /\ ranNow[b] \in Seq(Calls)
        /\ Head(toBoard[b]) = toBoard[b][1] /\ 1 \in DOMAIN toBoard[b]
    BY WireFacts, Advanced
  <1>2. ranNow[b] # << >> => ranNow[b][Len(ranNow[b])] # Head(toBoard[b])
    <2> SUFFICES ASSUME ranNow[b] # << >>, ranNow[b][Len(ranNow[b])] = Head(toBoard[b])
                 PROVE  FALSE
      OBVIOUS
    <2>1. ring[b] # << >> /\ ring[b][Len(ring[b])] = Head(toBoard[b]) BY DEF Wires, RingEnds
    <2>2. Len(ring[b]) \in 1..Len(ring[b]) BY <1>1, <2>1, EmptySeq
    <2> QED BY <2>1, <2>2 DEF Contains
  <1>3. \A i \in DOMAIN ranNow[b] : ranNow[b] # << >> BY EmptySeq
  <1>4. ASSUME NEW i \in DOMAIN ranNow[b], NEW k \in DOMAIN toBoard[b],
               toBoard[b][k] = ranNow[b][i]
        PROVE  FALSE
    <2>1. i = Len(ranNow[b]) /\ toBoard[b][1] = toBoard[b][k]
      <3>1. 1 <= k BY WireFacts
      <3> QED BY <1>1, <1>4, <3>1 DEF Wires, RanBefore
    <2> QED BY <1>1, <1>2, <1>3, <1>4, <2>1
  <1>5. ASSUME NEW i \in DOMAIN ranNow[b], callState[ranNow[b][i]] \notin Returned PROVE FALSE
    <2>1. toBoard[b][1] = ranNow[b][i] BY <1>1, <1>5 DEF Wires, RanBefore
    <2> QED BY <1>1, <1>4, <2>1
  <1> QED BY <1>1, <1>4, <1>5

(* A board runs a command once in a boot.                                  *)
LEMMA WireRuns ==
  ASSUME CommandTypeOK, Wires, NEW b \in Boards, toBoard[b] # << >>,
         ~Contains(ring[b], Head(toBoard[b])), UNCHANGED callState,
         toBoard' = [toBoard EXCEPT ![b] = Tail(@)],
         ranNow' = [ranNow EXCEPT ![b] = Append(@, Head(toBoard[b]))],
         ring' = [ring EXCEPT ![b] = Remember(b, Head(toBoard[b]))]
  PROVE  Wires' /\ Remember(b, Head(toBoard[b])) \in Seq(Calls)
         /\ Len(Remember(b, Head(toBoard[b]))) <= RingSize
  <1> DEFINE c == Head(toBoard[b])
  <1>1. /\ DOMAIN toBoard = Boards /\ DOMAIN ranNow = Boards /\ DOMAIN ring = Boards
        /\ toBoard[b] \in Seq(Calls) /\ ring[b] \in Seq(Calls) /\ ranNow[b] \in Seq(Calls)
        /\ \A a \in Boards \ {b} : /\ toBoard'[a] = toBoard[a] /\ ranNow'[a] = ranNow[a]
                                   /\ ring'[a] = ring[a]
        /\ toBoard'[b] = Tail(toBoard[b]) /\ ranNow'[b] = Append(ranNow[b], c)
        /\ ring'[b] = Remember(b, c)
    BY DEF CommandTypeOK
  <1>2. /\ c \in Calls /\ c = toBoard[b][1] /\ 1 \in DOMAIN toBoard[b]
        /\ DOMAIN toBoard'[b] = 1..(Len(toBoard[b]) - 1)
        /\ DOMAIN toBoard[b] = 1..Len(toBoard[b]) /\ Len(toBoard[b]) \in Nat \ {0}
        /\ \A i \in DOMAIN toBoard'[b] :
             i + 1 \in DOMAIN toBoard[b] /\ toBoard'[b][i] = toBoard[b][i + 1]
    BY <1>1, Advanced
  <1>3. /\ \A i \in DOMAIN ranNow[b] : ranNow[b][i] # c
        /\ \A i \in DOMAIN ranNow[b] : callState[ranNow[b][i]] \in Returned
        /\ \A i \in DOMAIN ranNow[b], k \in DOMAIN toBoard[b] : toBoard[b][k] # ranNow[b][i]
    BY NotRun
  <1> HIDE DEF c
  <1>4. /\ Len(ranNow'[b]) = Len(ranNow[b]) + 1 /\ Len(ranNow[b]) \in Nat
        /\ DOMAIN ranNow'[b] = 1..(Len(ranNow[b]) + 1) /\ DOMAIN ranNow[b] = 1..Len(ranNow[b])
        /\ \A i \in DOMAIN ranNow'[b] :
             ranNow'[b][i] = IF i \in DOMAIN ranNow[b] THEN ranNow[b][i] ELSE c
    BY <1>1, <1>2, Appended
  <1>5. /\ ring'[b] \in Seq(Calls) /\ ring'[b] # << >> /\ ring'[b][Len(ring'[b])] = c
        /\ Len(ring'[b]) <= RingSize
    <2>1. Len(ring[b]) <= RingSize /\ RingSize \in Nat \ {0} /\ Len(ring[b]) \in Nat
      BY <1>1, CommandAssumption, LenProperties DEF CommandTypeOK
    <2>2. CASE Len(ring[b]) = RingSize
      <3>1. ring[b] # << >> BY <2>1, <2>2, EmptySeq
      <3>2. Tail(ring[b]) \in Seq(Calls) /\ Len(Tail(ring[b])) = Len(ring[b]) - 1
        BY <1>1, <3>1, Advanced
      <3>3. ring'[b] = Append(Tail(ring[b]), c) BY <1>1, <2>2 DEF Remember
      <3>4. Len(Append(Tail(ring[b]), c)) <= RingSize
        BY <1>2, <2>1, <2>2, <3>2, Appended
      <3>5. /\ Append(Tail(ring[b]), c) \in Seq(Calls) /\ Append(Tail(ring[b]), c) # << >>
            /\ Append(Tail(ring[b]), c)[Len(Append(Tail(ring[b]), c))] = c
        <4>1. Tail(ring[b]) \in Seq(Calls) /\ c \in Calls BY <1>2, <3>2
        <4> QED BY <4>1, Appended, Zenon
      <3> QED BY <3>3, <3>4, <3>5, Zenon
    <2>3. CASE Len(ring[b]) # RingSize
      <3>1. ring'[b] = Append(ring[b], c) BY <1>1, <2>3 DEF Remember
      <3>2. Len(Append(ring[b], c)) <= RingSize
        <4>1. Len(Append(ring[b], c)) = Len(ring[b]) + 1 BY <1>1, <1>2, Appended
        <4> QED BY <2>1, <2>3, <4>1
      <3>3. /\ Append(ring[b], c) \in Seq(Calls) /\ Append(ring[b], c) # << >>
            /\ Append(ring[b], c)[Len(Append(ring[b], c))] = c
        <4>1. ring[b] \in Seq(Calls) /\ c \in Calls BY <1>1, <1>2
        <4> QED BY <4>1, Appended, Zenon
      <3> QED BY <3>1, <3>2, <3>3, Zenon
    <2> QED BY <2>2, <2>3
  <1>6. OnTheWire'
    <2> SUFFICES ASSUME NEW a \in Boards
                 PROVE  /\ \A i \in DOMAIN toBoard'[a] :
                             /\ Target[toBoard'[a][i]] = a
                             /\ callState[toBoard'[a][i]] \in Registered \cup Returned
                        /\ \A i \in DOMAIN ranNow'[a] :
                             /\ Target[ranNow'[a][i]] = a
                             /\ callState[ranNow'[a][i]] \in Registered \cup Returned
      BY DEF OnTheWire
    <2>1. CASE a = b
      <3>1. Target[c] = b /\ callState[c] \in Registered \cup Returned
        BY <1>2 DEF Wires, OnTheWire
      <3>2. ASSUME NEW i \in DOMAIN ranNow'[b]
            PROVE  Target[ranNow'[b][i]] = b
                   /\ callState[ranNow'[b][i]] \in Registered \cup Returned
        <4>1. CASE i \in DOMAIN ranNow[b]
          <5>1. ranNow'[b][i] = ranNow[b][i] BY <1>4, <4>1
          <5> QED BY <4>1, <5>1 DEF Wires, OnTheWire
        <4>2. CASE i \notin DOMAIN ranNow[b] BY <1>4, <3>1, <4>2
        <4> QED BY <4>1, <4>2
      <3> QED BY <1>2, <2>1, <3>2 DEF Wires, OnTheWire
    <2>2. CASE a # b BY <1>1, <2>2 DEF Wires, OnTheWire
    <2> QED BY <2>1, <2>2
  <1>7. InTurn' BY WireShorter DEF Wires
  <1>8. RanBefore'
    <2> SUFFICES ASSUME NEW a \in Boards, NEW i \in DOMAIN ranNow'[a]
                 PROVE  /\ callState[ranNow'[a][i]] \notin Returned =>
                             /\ i = Len(ranNow'[a])
                             /\ \A k \in DOMAIN toBoard'[a] : toBoard'[a][k] = ranNow'[a][i]
                        /\ \A k \in DOMAIN toBoard'[a] : toBoard'[a][k] = ranNow'[a][i] =>
                             /\ i = Len(ranNow'[a])
                             /\ \A j \in DOMAIN toBoard'[a] : j <= k =>
                                  toBoard'[a][j] = toBoard'[a][k]
      BY DEF RanBefore
    <2>1. CASE a # b BY <1>1, <2>1 DEF Wires, RanBefore
    <2>2. CASE a = b /\ i \in DOMAIN ranNow[b]
      <3>1. ranNow'[b][i] = ranNow[b][i] BY <1>4, <2>2
      <3>2. \A k \in DOMAIN toBoard'[b] : toBoard'[b][k] # ranNow[b][i] BY <1>2, <1>3, <2>2
      <3> QED BY <1>3, <2>2, <3>1, <3>2
    <2>3. CASE a = b /\ i \notin DOMAIN ranNow[b]
      <3>1. ranNow'[b][i] = c /\ i = Len(ranNow'[b]) BY <1>4, <2>3
      <3>2. callState[c] \notin Returned => \A k \in DOMAIN toBoard[b] : toBoard[b][k] = c
        BY <1>2 DEF Wires, InTurn
      <3>3. ASSUME NEW k \in DOMAIN toBoard'[b], toBoard'[b][k] = c,
                   NEW j \in DOMAIN toBoard'[b], j <= k
            PROVE  toBoard'[b][j] = c
        <4>1. /\ k + 1 \in DOMAIN toBoard[b] /\ toBoard[b][k + 1] = c
              /\ j + 1 \in DOMAIN toBoard[b] /\ toBoard'[b][j] = toBoard[b][j + 1]
              /\ 1 <= k + 1 /\ 1 <= j + 1 /\ j + 1 <= k + 1
          BY <1>2, <3>3
        <4> QED BY <1>2, <4>1 DEF Wires, InTurn
      <3>4. callState[c] \notin Returned => \A k \in DOMAIN toBoard'[b] : toBoard'[b][k] = c
        BY <1>2, <3>2
      <3> QED BY <2>3, <3>1, <3>3, <3>4
    <2> QED BY <2>1, <2>2, <2>3
  <1>9. RingEnds'
    <2>1. ranNow'[b][Len(ranNow'[b])] = c BY <1>4
    <2> QED BY <1>1, <1>5, <2>1 DEF Wires, RingEnds
  <1>10. OncePerBoot'
    <2> SUFFICES ASSUME NEW a \in Boards, NEW i \in DOMAIN ranNow'[a], NEW j \in DOMAIN ranNow'[a],
                        ranNow'[a][i] = ranNow'[a][j]
                 PROVE  i = j
      BY DEF OncePerBoot, IsInjective
    <2>1. CASE a # b BY <1>1, <2>1 DEF Wires, OncePerBoot, IsInjective
    <2>2. CASE a = b /\ i \in DOMAIN ranNow[b] /\ j \in DOMAIN ranNow[b]
      BY <1>4, <2>2 DEF Wires, OncePerBoot, IsInjective
    <2>3. CASE a = b /\ ~(i \in DOMAIN ranNow[b] /\ j \in DOMAIN ranNow[b])
      BY <1>3, <1>4, <2>3
    <2> QED BY <2>1, <2>2, <2>3
  <1> QED BY <1>1, <1>5, <1>6, <1>7, <1>8, <1>9, <1>10 DEF Wires, c

(* What the router hears joins what it has not handled yet.                *)
LEMMA HeardNext ==
  ASSUME NEW queue \in Seq(Report), NEW m \in Report
  PROVE  /\ Hears(queue, m) \in Seq(Report)
         /\ \A i \in DOMAIN Hears(queue, m) :
              (i \in DOMAIN queue /\ Hears(queue, m)[i] = queue[i]) \/ Hears(queue, m)[i] = m
  <1>1. /\ Append(queue, m) \in Seq(Report) /\ Len(Append(queue, m)) = Len(queue) + 1
        /\ \A i \in 1..Len(queue) : Append(queue, m)[i] = queue[i]
        /\ Append(queue, m)[Len(queue) + 1] = m
    BY AppendProperties
  <1>2. /\ DOMAIN Append(queue, m) = 1..(Len(queue) + 1) /\ DOMAIN queue = 1..Len(queue)
        /\ Len(queue) \in Nat
    BY <1>1, LenProperties
  <1> QED BY <1>1, <1>2 DEF Hears

(* A beat, a crash, a will or an event is no response.                     *)
LEMMA Signs ==
  ASSUME NEW b \in Boards, NEW kind \in {"online", "offline", "crash", "ota_event"}
  PROVE  [kind |-> kind, board |-> b] \in Report
  BY DEF Report

(* The queue of the router holds true answers as long as what joins it     *)
(* does, and calls go on.                                                  *)
TrueAnswer(m, state) ==
  m.kind = "response" => Target[m.call] = m.board /\ state[m.call] \in Registered \cup Returned

LEMMA Queued ==
  ASSUME CommandTypeOK, NEW i \in DOMAIN toRouter
  PROVE  toRouter[i] \in Report /\ toRouter[i].board \in Boards
         /\ (toRouter[i].kind = "response" => toRouter[i].call \in Calls)
  <1>1. toRouter \in Seq(Report) BY DEF CommandTypeOK
  <1>2. toRouter[i] \in Report BY <1>1, LenProperties, ElementOfSeq
  <1> QED BY <1>2 DEF Report

LEMMA ResponsesStay ==
  ASSUME CommandTypeOK, Responses, GoesOn,
         \A i \in DOMAIN toRouter' :
           \/ \E j \in DOMAIN toRouter : toRouter'[i] = toRouter[j]
           \/ TrueAnswer(toRouter'[i], callState')
  PROVE  Responses'
  <1> SUFFICES ASSUME NEW i \in DOMAIN toRouter', toRouter'[i].kind = "response"
               PROVE  /\ Target[toRouter'[i].call] = toRouter'[i].board
                      /\ callState'[toRouter'[i].call] \in Registered \cup Returned
    BY DEF Responses
  <1>1. CASE \E j \in DOMAIN toRouter : toRouter'[i] = toRouter[j]
    <2>1. PICK j \in DOMAIN toRouter : toRouter'[i] = toRouter[j] BY <1>1
    <2>2. toRouter[j].call \in Calls BY <2>1, Queued
    <2> QED BY <2>1, <2>2 DEF Responses, GoesOn
  <1>2. CASE TrueAnswer(toRouter'[i], callState') BY <1>2 DEF TrueAnswer
  <1> QED BY <1>1, <1>2

(* An answer stays a reply while calls go on and the tables are kept.      *)
Replies ==
  \A c \in Calls : answer[c] # NoCall =>
    \/ answer[c] = c
    \/ answer[c] \in Calls /\ Target[answer[c]] = Target[c] /\ callState[answer[c]] \in Returned

LEMMA RepliesStay ==
  ASSUME Replies, GoesOn, UNCHANGED answer
  PROVE  Replies'
  BY DEF Replies, GoesOn

LEMMA SameState ==
  ASSUME UNCHANGED callState
  PROVE  GoesOn
  BY DEF GoesOn

(* Boards, the broker and the router's connection leave the calls alone.   *)
LEMMA CallsRest ==
  ASSUME CommandInv, UNCHANGED callVars
  PROVE  (OneCall /\ AnswersAreReplies)'
         /\ callState' \in [Calls -> CallStates] /\ answer' \in [Calls -> Calls \cup {NoCall}]
         /\ pendingFor' \in [Boards -> Calls \cup {NoCall}]
         /\ redeliverFor' \in [Boards -> Calls \cup {NoCall}]
  BY DEF callVars, CommandInv, CommandTypeOK, OneCall, AnswersAreReplies, RegisteredWhileWaiting

(* A call is logged, and registered for its board.                         *)
LEMMA CallBegins ==
  ASSUME TakeTurns, CommandInv, NEW c \in Calls, LogCommand(c) \/ Register(c)
  PROVE  CommandInv'
  <1> USE DEF CommandInv
  <1>0. /\ callState \in [Calls -> CallStates] /\ pendingFor \in [Boards -> Calls \cup {NoCall}]
        /\ redeliverFor \in [Boards -> Calls \cup {NoCall}] /\ Target[c] \in Boards
        /\ \A e \in Calls : Target[e] \in Boards
    BY CommandAssumption DEF CommandTypeOK
  <1>1. UNCHANGED <<answer, routerVars, toRouter, toBoard, boardVars>> BY DEF LogCommand, Register
  <1>2. /\ \/ /\ callState' = [callState EXCEPT ![c] = "audited"] /\ callState[c] = "new"
              /\ \A e \in Calls : Target[e] = Target[c] => callState[e] \notin UnderWay
              /\ UNCHANGED <<pendingFor, redeliverFor>>
           \/ /\ callState' = [callState EXCEPT ![c] = "publishing"] /\ callState[c] = "audited"
              /\ pendingFor' = [pendingFor EXCEPT ![Target[c]] = c]
              /\ redeliverFor' = [redeliverFor EXCEPT ![Target[c]] = c]
    BY DEF LogCommand, Register, TakeTurns
  <1>3. GoesOn BY <1>0, <1>2 DEF GoesOn, Registered, Returned
  <1>4. Wires' BY <1>1, <1>3, WiresRest DEF Wires, boardVars
  <1>5. CommandTypeOK'
    <2>1. callState' \in [Calls -> CallStates] BY <1>0, <1>2 DEF CallStates
    <2>2. /\ pendingFor' \in [Boards -> Calls \cup {NoCall}]
          /\ redeliverFor' \in [Boards -> Calls \cup {NoCall}]
      BY <1>0, <1>2
    <2> QED BY <1>1, <2>1, <2>2 DEF CommandTypeOK, routerVars, boardVars
  <1>6. OneCall'
    BY <1>0, <1>2, CommandAssumption DEF OneCall, UnderWay, Registered
  <1>7. Responses' BY <1>1, <1>3, ResponsesStay
  <1>8. RegisteredWhileWaiting'
    <2> SUFFICES ASSUME NEW b \in Boards
                 PROVE  /\ pendingFor'[b] # NoCall =>
                             Target[pendingFor'[b]] = b /\ callState'[pendingFor'[b]] \in Registered
                        /\ redeliverFor'[b] = pendingFor'[b]
      BY DEF RegisteredWhileWaiting
    <2>1. pendingFor[b] # NoCall => pendingFor[b] \in Calls BY <1>0
    <2> QED BY <1>0, <1>2, <2>1, CommandAssumption
        DEF AnswersAreReplies, RegisteredWhileWaiting, Registered
  <1>9. Replies' BY <1>1, <1>3, RepliesStay DEF AnswersAreReplies, Replies
  <1> QED BY <1>4, <1>5, <1>6, <1>7, <1>8, <1>9 DEF AnswersAreReplies, Replies, Wires

(* A published command reaches its board in turn, if it reaches it.        *)
LEMMA CallPublishes ==
  ASSUME CommandInv, NEW c \in Calls, callState[c] = "publishing", ToBoard(Target[c], c),
         callState' = [callState EXCEPT ![c] = "waiting"],
         UNCHANGED <<pendingFor, redeliverFor, answer, routerVars, toRouter, boardVars>>
  PROVE  CommandInv'
  <1> USE DEF CommandInv
  <1>0. /\ callState \in [Calls -> CallStates] /\ toBoard \in [Boards -> Seq(Calls)]
        /\ Target[c] \in Boards /\ pendingFor \in [Boards -> Calls \cup {NoCall}]
    BY CommandAssumption DEF CommandTypeOK
  <1>1. GoesOn BY <1>0 DEF GoesOn, Registered, Returned
  <1>2. Wires'
    <2>1. CASE UNCHANGED toBoard BY <1>1, <2>1, WiresRest DEF Wires, boardVars
    <2>2. CASE toBoard' = [toBoard EXCEPT ![Target[c]] = Append(@, c)]
      <3>1. callState[c] \in Registered /\ callState'[c] \in Registered BY <1>0 DEF Registered
      <3> QED BY <1>0, <1>1, <2>2, <3>1, WireGrows DEF Wires, boardVars
    <2> QED BY <2>1, <2>2 DEF ToBoard
  <1>3. toBoard' \in [Boards -> Seq(Calls)] BY <1>0, Appended DEF ToBoard
  <1>4. CommandTypeOK' BY <1>0, <1>3 DEF CommandTypeOK, CallStates, routerVars, boardVars
  <1>5. OneCall' BY <1>0 DEF OneCall, UnderWay, Registered
  <1>6. Responses' BY <1>1, ResponsesStay
  <1>7. RegisteredWhileWaiting'
    <2>1. \A b \in Boards : pendingFor[b] # NoCall => pendingFor[b] \in Calls BY <1>0
    <2> QED BY <1>0, <2>1 DEF AnswersAreReplies, RegisteredWhileWaiting, Registered
  <1>8. Replies' BY <1>1, RepliesStay DEF AnswersAreReplies, Replies
  <1> QED BY <1>2, <1>4, <1>5, <1>6, <1>7, <1>8 DEF AnswersAreReplies, Replies, Wires

(* A call that returns forgets what is registered for its board, which is  *)
(* its own.                                                                *)
LEMMA CallEnds ==
  ASSUME CommandInv, NEW c \in Calls, NEW ended \in Returned, callState[c] \in Registered,
         callState' = [callState EXCEPT ![c] = ended], Unregister(Target[c]),
         UNCHANGED <<answer, routerVars, toRouter, toBoard, boardVars>>
  PROVE  CommandInv'
  <1> USE DEF CommandInv
  <1>0. /\ callState \in [Calls -> CallStates] /\ pendingFor \in [Boards -> Calls \cup {NoCall}]
        /\ redeliverFor \in [Boards -> Calls \cup {NoCall}] /\ Target[c] \in Boards
        /\ pendingFor[Target[c]] = c
        /\ \A e \in Calls : Target[e] \in Boards
    BY CommandAssumption DEF CommandTypeOK, OneCall
  <1>1. GoesOn BY <1>0 DEF GoesOn, Registered, Returned
  <1>2. Wires' BY <1>1, WiresRest DEF Wires, boardVars
  <1>3. CommandTypeOK'
    BY <1>0 DEF CommandTypeOK, CallStates, Returned, Unregister, routerVars, boardVars
  <1>4. OneCall'
    BY <1>0 DEF OneCall, UnderWay, Registered, Returned, Unregister
  <1>5. Responses' BY <1>1, ResponsesStay
  <1>6. RegisteredWhileWaiting'
    <2> SUFFICES ASSUME NEW b \in Boards
                 PROVE  /\ pendingFor'[b] # NoCall =>
                             Target[pendingFor'[b]] = b /\ callState'[pendingFor'[b]] \in Registered
                        /\ redeliverFor'[b] = pendingFor'[b]
      BY DEF RegisteredWhileWaiting
    <2>1. pendingFor[b] # NoCall => pendingFor[b] \in Calls /\ Target[pendingFor[b]] = b
      BY <1>0 DEF AnswersAreReplies, RegisteredWhileWaiting
    <2> QED BY <1>0, <2>1 DEF AnswersAreReplies, RegisteredWhileWaiting, Unregister
  <1>7. Replies' BY <1>1, RepliesStay DEF AnswersAreReplies, Replies
  <1> QED BY <1>2, <1>3, <1>4, <1>5, <1>6, <1>7 DEF AnswersAreReplies, Replies, Wires

LEMMA CallSafe ==
  ASSUME TakeTurns, CommandInv, NEW c \in Calls, CallStep(c)
  PROVE  CommandInv'
  <1>1. CASE LogCommand(c) \/ Register(c) BY <1>1, CallBegins
  <1>2. CASE PublishCommand(c)
    <2>1. callState[c] = "publishing" /\ callState[c] \in Registered /\ "failed" \in Returned
      BY <1>2 DEF PublishCommand, Registered, Returned
    <2> QED BY <1>2, <2>1, CallPublishes, CallEnds DEF PublishCommand
  <1>3. CASE CallReturns(c)
    <2>1. callState[c] \in Registered /\ "answered" \in Returned /\ "timed_out" \in Returned
      BY <1>3 DEF CallReturns, Registered, Returned
    <2> QED BY <1>3, <2>1, CallEnds DEF CallReturns
  <1> QED BY <1>1, <1>2, <1>3 DEF CallStep

(* The router redelivers only the command of a call that waits, and gives  *)
(* a response to the one that waits now.                                   *)
LEMMA RouterHandles ==
  ASSUME CommandInv, HandleMessage
  PROVE  CommandInv'
  <1> USE DEF CommandInv
  <1> DEFINE m == Head(toRouter)
  <1>0. toRouter \in Seq(Report) /\ toRouter # << >> /\ toRouter' = Tail(toRouter)
    BY DEF CommandTypeOK, HandleMessage
  <1>1. /\ toRouter' \in Seq(Report)
        /\ \A i \in DOMAIN toRouter' : \E j \in DOMAIN toRouter : toRouter'[i] = toRouter[j]
        /\ 1 \in DOMAIN toRouter /\ m = toRouter[1]
    <2>1. /\ toRouter' \in Seq(Report) /\ Len(toRouter') = Len(toRouter) - 1
          /\ \A i \in 1..Len(toRouter') : toRouter'[i] = toRouter[i + 1]
      BY <1>0, HeadTailProperties
    <2>2. /\ DOMAIN toRouter = 1..Len(toRouter) /\ DOMAIN toRouter' = 1..Len(toRouter')
          /\ Len(toRouter) \in Nat \ {0}
      BY <1>0, <2>1, LenProperties, EmptySeq
    <2>3. m = toRouter[1] BY <1>0
    <2>4. ASSUME NEW i \in DOMAIN toRouter' PROVE \E j \in DOMAIN toRouter : toRouter'[i] = toRouter[j]
      <3>1. i + 1 \in DOMAIN toRouter /\ toRouter'[i] = toRouter[i + 1] BY <2>1, <2>2
      <3> QED BY <3>1
    <2>5. 1 \in DOMAIN toRouter BY <2>2
    <2> QED BY <2>1, <2>3, <2>4, <2>5, Zenon
  <1>2. UNCHANGED <<callState, pendingFor, redeliverFor, routerVars, boardVars>>
    BY DEF HandleMessage
  <1>3. m \in Report /\ m.board \in Boards /\ (m.kind = "response" => m.call \in Calls)
        /\ (m.kind = "response" => TrueAnswer(m, callState))
    BY <1>1, Queued DEF Responses, TrueAnswer
  <1> HIDE DEF m
  <1>4. GoesOn BY <1>2, SameState
  <1>5. \/ UNCHANGED <<answer, toBoard>>
        \/ /\ UNCHANGED answer /\ redeliverFor[m.board] # NoCall
           /\ toBoard' = [toBoard EXCEPT ![m.board] = Append(@, redeliverFor[m.board])]
        \/ /\ m.kind = "response" /\ UNCHANGED toBoard
           /\ pendingFor[m.board] # NoCall
           /\ answer' = [answer EXCEPT ![pendingFor[m.board]] = m.call]
    BY DEF HandleMessage, MaybeRedeliver, ResolveResponse, ToBoard, m
  <1>6. Wires' /\ toBoard' \in [Boards -> Seq(Calls)]
    <2>1. CASE UNCHANGED toBoard
      BY <1>2, <1>4, <2>1, WiresRest DEF Wires, boardVars, CommandTypeOK
    <2>2. CASE /\ redeliverFor[m.board] # NoCall
               /\ toBoard' = [toBoard EXCEPT ![m.board] = Append(@, redeliverFor[m.board])]
      <3> DEFINE c == redeliverFor[m.board]
      <3>1. /\ c \in Calls /\ Target[c] = m.board /\ callState[c] \in Registered
            /\ callState'[c] \in Registered
        BY <1>2, <1>3, <2>2 DEF CommandTypeOK, AnswersAreReplies, RegisteredWhileWaiting
      <3>2. toBoard' = [toBoard EXCEPT ![m.board] = Append(@, c)] BY <2>2
      <3> HIDE DEF c
      <3>3. Wires' BY <1>2, <1>3, <1>4, <3>1, <3>2, WireGrows DEF Wires, boardVars
      <3>4. toBoard' \in [Boards -> Seq(Calls)] BY <1>3, <3>1, <3>2, Appended DEF CommandTypeOK
      <3> QED BY <3>3, <3>4
    <2> QED BY <1>5, <2>1, <2>2
  <1>7. answer' \in [Calls -> Calls \cup {NoCall}] /\ Replies'
    <2>1. CASE UNCHANGED answer
      BY <1>4, <2>1, RepliesStay DEF CommandTypeOK, AnswersAreReplies, Replies
    <2>2. CASE /\ m.kind = "response" /\ pendingFor[m.board] # NoCall
               /\ answer' = [answer EXCEPT ![pendingFor[m.board]] = m.call]
      <3> DEFINE c == pendingFor[m.board]
      <3>1. /\ c \in Calls /\ Target[c] = m.board /\ callState[c] \in Registered
            /\ answer \in [Calls -> Calls \cup {NoCall}] /\ answer' = [answer EXCEPT ![c] = m.call]
        BY <1>3, <2>2 DEF CommandTypeOK, AnswersAreReplies, RegisteredWhileWaiting
      <3>2. /\ m.call \in Calls /\ Target[m.call] = m.board
            /\ callState[m.call] \in Registered \cup Returned
        BY <1>3, <2>2 DEF TrueAnswer
      <3> HIDE DEF c
      <3>3. m.call = c \/ callState[m.call] \in Returned
        BY <3>1, <3>2 DEF OneCall, UnderWay, Registered
      <3>4. answer' \in [Calls -> Calls \cup {NoCall}] BY <3>1, <3>2
      <3>5. Replies' BY <1>2, <3>1, <3>2, <3>3 DEF Replies, AnswersAreReplies
      <3> QED BY <3>4, <3>5
    <2> QED BY <1>5, <2>1, <2>2
  <1>8. Responses' BY <1>1, <1>4, ResponsesStay
  <1>9. CommandTypeOK' BY <1>1, <1>2, <1>6, <1>7 DEF CommandTypeOK, routerVars, boardVars
  <1>10. (OneCall /\ RegisteredWhileWaiting)'
    BY <1>2 DEF OneCall, AnswersAreReplies, RegisteredWhileWaiting
  <1> QED BY <1>6, <1>7, <1>8, <1>9, <1>10 DEF AnswersAreReplies, Replies, Wires

(* Its connection comes and goes.                                          *)
LEMMA RouterConnection ==
  ASSUME CommandInv, RouterLoses \/ RouterReconnects
  PROVE  CommandInv'
  <1> USE DEF CommandInv
  <1>1. UNCHANGED <<callVars, toBoard, boardVars>> BY DEF RouterLoses, RouterReconnects
  <1>2. /\ toRouter' \in Seq(Report)
        /\ \A i \in DOMAIN toRouter' : \E j \in DOMAIN toRouter : toRouter'[i] = toRouter[j]
    <2>1. CASE RouterLoses BY <2>1, EmptySeq DEF RouterLoses
    <2>2. CASE RouterReconnects BY <2>2 DEF RouterReconnects, CommandTypeOK
    <2> QED BY <2>1, <2>2
  <1>3. routerUp' \in BOOLEAN /\ routerLosses' \in 0..MaxRouterLosses
    <2>1. routerLosses \in 0..MaxRouterLosses /\ MaxRouterLosses \in Nat
      BY CommandAssumption DEF CommandTypeOK
    <2>2. CASE RouterLoses
      <3>1. routerLosses' \in 0..MaxRouterLosses BY <2>1, <2>2 DEF RouterLoses
      <3> QED BY <2>2, <3>1 DEF RouterLoses
    <2>3. CASE RouterReconnects BY <2>1, <2>3 DEF RouterReconnects
    <2> QED BY <2>2, <2>3
  <1>4. GoesOn BY <1>1, SameState DEF callVars
  <1>5. Wires' BY <1>1, <1>4, WiresRest DEF Wires, boardVars
  <1>6. Responses' BY <1>2, <1>4, ResponsesStay
  <1>7. CommandTypeOK' BY <1>1, <1>2, <1>3, CallsRest DEF CommandTypeOK, boardVars
  <1> QED BY <1>1, <1>5, <1>6, <1>7, CallsRest DEF Wires

(* What a board does, apart from its wire: it tells the router of itself   *)
(* or answers, truly.                                                      *)
LEMMA BoardTells ==
  ASSUME CommandInv, UNCHANGED callVars, NEW m \in Report, TrueAnswer(m, callState),
         ToRouter(m) \/ UNCHANGED toRouter
  PROVE  toRouter' \in Seq(Report) /\ Responses'
  <1> USE DEF CommandInv
  <1>0. toRouter \in Seq(Report) BY DEF CommandTypeOK
  <1>1. /\ toRouter' \in Seq(Report)
        /\ \A i \in DOMAIN toRouter' :
             \/ \E j \in DOMAIN toRouter : toRouter'[i] = toRouter[j]
             \/ toRouter'[i] = m
    BY <1>0, HeardNext DEF ToRouter
  <1>2. GoesOn BY SameState DEF callVars
  <1>3. TrueAnswer(m, callState') BY DEF callVars
  <1>4. \A i \in DOMAIN toRouter' :
          \/ \E j \in DOMAIN toRouter : toRouter'[i] = toRouter[j]
          \/ TrueAnswer(toRouter'[i], callState')
    BY <1>1, <1>3
  <1> QED BY <1>1, <1>2, <1>4, ResponsesStay

(* A board announces itself, beats, subscribes.                            *)
LEMMA BoardShows ==
  ASSUME CommandInv, NEW b \in Boards, Connect(b) \/ Subscribe(b) \/ Beat(b)
  PROVE  CommandInv'
  <1> USE DEF CommandInv
  <1>1. UNCHANGED <<callVars, routerVars, toBoard, drops, ring, ranNow, ranEver>>
    BY DEF Connect, Subscribe, Beat, boardVars
  <1>2. link' \in [Boards -> LinkStates] /\ crashed' \subseteq Boards
    BY DEF Connect, Subscribe, Beat, Announce, boardVars, CommandTypeOK, LinkStates
  <1>3. GoesOn BY <1>1, SameState DEF callVars
  <1>4. Wires' BY <1>1, <1>3, WiresRest DEF Wires
  <1>5. toRouter' \in Seq(Report) /\ Responses'
    <2>1. CASE Connect(b)
      <3> DEFINE online == [kind |-> "online", board |-> b]
                 crash == [kind |-> "crash", board |-> b]
                 beat == Hears(toRouter, online)
      <3>1. online \in Report /\ crash \in Report BY Signs
      <3>2. TrueAnswer(online, callState') /\ TrueAnswer(crash, callState') BY DEF TrueAnswer
      <3>3. toRouter' = beat \/ toRouter' = Hears(beat, crash) BY <2>1 DEF Connect, Announce
      <3> HIDE DEF online, crash
      <3>4. /\ beat \in Seq(Report)
            /\ \A i \in DOMAIN beat :
                 (i \in DOMAIN toRouter /\ beat[i] = toRouter[i]) \/ beat[i] = online
        BY <3>1, HeardNext DEF CommandTypeOK
      <3> HIDE DEF beat
      <3>5. /\ toRouter' \in Seq(Report)
            /\ \A i \in DOMAIN toRouter' :
                 \/ \E j \in DOMAIN toRouter : toRouter'[i] = toRouter[j]
                 \/ toRouter'[i] \in {online, crash}
        <4>1. CASE toRouter' = beat BY <3>4, <4>1
        <4>2. CASE toRouter' = Hears(beat, crash)
          <5>1. /\ toRouter' \in Seq(Report)
                /\ \A i \in DOMAIN toRouter' :
                     (i \in DOMAIN beat /\ toRouter'[i] = beat[i]) \/ toRouter'[i] = crash
            BY <3>1, <3>4, <4>2, HeardNext
          <5> QED BY <3>4, <5>1
        <4> QED BY <3>3, <4>1, <4>2
      <3>6. \A i \in DOMAIN toRouter' :
              \/ \E j \in DOMAIN toRouter : toRouter'[i] = toRouter[j]
              \/ TrueAnswer(toRouter'[i], callState')
        BY <3>2, <3>5
      <3> QED BY <1>3, <3>5, <3>6, ResponsesStay
    <2>2. CASE Subscribe(b)
      <3>1. UNCHANGED toRouter BY <2>2 DEF Subscribe
      <3>2. \A i \in DOMAIN toRouter' : \E j \in DOMAIN toRouter : toRouter'[i] = toRouter[j]
        BY <3>1
      <3> QED BY <1>3, <3>1, <3>2, ResponsesStay DEF CommandTypeOK
    <2>3. CASE Beat(b)
      <3>1. PICK kind \in {"online", "ota_event"} : ToRouter([kind |-> kind, board |-> b])
        BY <2>3 DEF Beat
      <3>2. /\ [kind |-> kind, board |-> b] \in Report
            /\ TrueAnswer([kind |-> kind, board |-> b], callState)
        BY Signs DEF TrueAnswer
      <3> QED BY <1>1, <3>1, <3>2, BoardTells
    <2> QED BY <2>1, <2>2, <2>3
  <1>6. CommandTypeOK' BY <1>1, <1>2, <1>5, CallsRest DEF CommandTypeOK, routerVars
  <1> QED BY <1>1, <1>4, <1>5, <1>6, CallsRest DEF Wires

(* Its session ends, with a will or after an answer; a reset clears what   *)
(* the board has in RAM.                                                   *)
LEMMA BoardLeaves ==
  ASSUME CommandInv, NEW b \in Boards, LinkDrops(b) \/ Crash(b) \/ RunReboot(b)
  PROVE  CommandInv'
  <1> USE DEF CommandInv
  <1>0. toBoard \in [Boards -> Seq(Calls)] /\ ring \in [Boards -> Seq(Calls)]
        /\ ranNow \in [Boards -> Seq(Calls)] /\ (\A a \in Boards : Len(ring[a]) <= RingSize)
        /\ drops \in [Boards -> 0..MaxDrops] /\ MaxDrops \in Nat /\ RingSize \in Nat \ {0}
    BY CommandAssumption DEF CommandTypeOK
  <1>1. UNCHANGED <<callVars, routerVars>> /\ SessionEnds(b)
    BY DEF LinkDrops, Crash, RunReboot
  <1>2. \/ UNCHANGED <<ranNow, ring>>
        \/ ranNow' = [ranNow EXCEPT ![b] = << >>] /\ ring' = [ring EXCEPT ![b] = << >>]
    BY DEF LinkDrops, Crash, RunReboot
  <1>3. Wires' BY <1>1, <1>2, WireEmpties DEF Wires, SessionEnds, callVars
  <1>4. toRouter' \in Seq(Report) /\ Responses' /\ ranEver' \subseteq Calls
    <2>1. CASE LinkDrops(b) \/ Crash(b)
      <3> DEFINE will == [kind |-> "offline", board |-> b]
      <3>1. will \in Report /\ TrueAnswer(will, callState) BY Signs DEF TrueAnswer
      <3>2. ToRouter(will) /\ UNCHANGED ranEver BY <2>1 DEF LinkDrops, Crash
      <3> QED BY <1>1, <3>1, <3>2, BoardTells DEF CommandTypeOK
    <2>2. CASE RunReboot(b)
      <3> DEFINE c == Head(toBoard[b])
                 reply == [kind |-> "response", board |-> b, call |-> c]
      <3>1. /\ toBoard[b] # << >> /\ ToRouter(reply) /\ ranEver' = ranEver \cup {c}
        BY <2>2 DEF RunReboot, Answers
      <3>2. c \in Calls /\ c = toBoard[b][1] /\ 1 \in DOMAIN toBoard[b] BY <1>0, <3>1, Advanced
      <3>3. Target[c] = b /\ callState[c] \in Registered \cup Returned BY <3>2 DEF OnTheWire
      <3> HIDE DEF c
      <3>4. reply \in Report BY <3>2 DEF Report
      <3>5. TrueAnswer(reply, callState) BY <3>3 DEF TrueAnswer
      <3> HIDE DEF reply
      <3> QED BY <1>1, <3>1, <3>2, <3>4, <3>5, BoardTells DEF CommandTypeOK
    <2> QED BY <2>1, <2>2
  <1>5. /\ toBoard' \in [Boards -> Seq(Calls)] /\ ring' \in [Boards -> Seq(Calls)]
        /\ ranNow' \in [Boards -> Seq(Calls)] /\ \A a \in Boards : Len(ring'[a]) <= RingSize
    <2>1. << >> \in Seq(Calls) /\ Len(<< >>) = 0 /\ 0 <= RingSize BY <1>0, EmptySeq
    <2>2. toBoard' \in [Boards -> Seq(Calls)] BY <1>0, <1>1, <2>1 DEF SessionEnds
    <2>3. ring' \in [Boards -> Seq(Calls)] /\ ranNow' \in [Boards -> Seq(Calls)]
      BY <1>0, <1>2, <2>1
    <2>4. ASSUME NEW a \in Boards PROVE Len(ring'[a]) <= RingSize
      <3>1. ring'[a] = ring[a] \/ ring'[a] = << >> BY <1>0, <1>2
      <3> QED BY <1>0, <2>1, <3>1
    <2> QED BY <2>2, <2>3, <2>4
  <1>6. link' \in [Boards -> LinkStates] /\ crashed' \subseteq Boards
    BY <1>1 DEF SessionEnds, LinkDrops, Crash, RunReboot, CommandTypeOK, LinkStates
  <1>7. drops' \in [Boards -> 0..MaxDrops] BY <1>0 DEF LinkDrops, Crash, RunReboot
  <1>8. CommandTypeOK'
    BY <1>1, <1>4, <1>5, <1>6, <1>7, CallsRest DEF CommandTypeOK, routerVars
  <1> QED BY <1>1, <1>3, <1>4, <1>8, CallsRest DEF Wires

(* It drops a copy it ran before, and runs and answers any other command.  *)
LEMMA BoardReceives ==
  ASSUME CommandInv, NEW b \in Boards, RejectReplay(b) \/ RunCommand(b)
  PROVE  CommandInv'
  <1> USE DEF CommandInv
  <1> DEFINE c == Head(toBoard[b])
             reply == [kind |-> "response", board |-> b, call |-> c]
  <1>0. toBoard \in [Boards -> Seq(Calls)] /\ ring \in [Boards -> Seq(Calls)]
        /\ ranNow \in [Boards -> Seq(Calls)] /\ (\A a \in Boards : Len(ring[a]) <= RingSize)
    BY DEF CommandTypeOK
  <1>1. /\ UNCHANGED <<callVars, routerVars, link, drops, crashed>> /\ toBoard[b] # << >>
        /\ toBoard' = [toBoard EXCEPT ![b] = Tail(@)]
    BY DEF RejectReplay, RunCommand, boardVars
  <1>2. c \in Calls /\ c = toBoard[b][1] /\ 1 \in DOMAIN toBoard[b]
        /\ Tail(toBoard[b]) \in Seq(Calls)
    BY <1>0, <1>1, Advanced
  <1>3. Target[c] = b /\ callState[c] \in Registered \cup Returned BY <1>2 DEF OnTheWire
  <1>4. toBoard' \in [Boards -> Seq(Calls)] BY <1>0, <1>1, <1>2
  <1>5. CASE RejectReplay(b)
    <2>1. UNCHANGED <<toRouter, boardVars>> BY <1>5 DEF RejectReplay
    <2>2. Wires' BY <1>1, <2>1, WireAdvances DEF Wires, callVars, boardVars
    <2>3. GoesOn BY <1>1, SameState DEF callVars
    <2>4. \A i \in DOMAIN toRouter' : \E j \in DOMAIN toRouter : toRouter'[i] = toRouter[j]
      BY <2>1
    <2>5. Responses' BY <2>3, <2>4, ResponsesStay
    <2>6. CommandTypeOK' BY <1>1, <1>4, <2>1, CallsRest DEF CommandTypeOK, routerVars, boardVars
    <2> QED BY <1>1, <2>2, <2>5, <2>6, CallsRest DEF Wires
  <1>6. CASE RunCommand(b)
    <2>1. /\ ring' = [ring EXCEPT ![b] = Remember(b, c)]
          /\ ranNow' = [ranNow EXCEPT ![b] = Append(@, c)]
          /\ ranEver' = ranEver \cup {c} /\ ToRouter(reply) /\ ~Contains(ring[b], c)
      BY <1>6 DEF RunCommand, Answers
    <2>2. Wires' /\ Remember(b, c) \in Seq(Calls) /\ Len(Remember(b, c)) <= RingSize
      BY <1>1, <2>1, WireRuns DEF Wires, callVars
    <2> HIDE DEF c
    <2>3. reply \in Report BY <1>2 DEF Report
    <2>4. TrueAnswer(reply, callState) BY <1>3 DEF TrueAnswer
    <2> HIDE DEF reply
    <2>5. toRouter' \in Seq(Report) /\ Responses' BY <1>1, <2>1, <2>3, <2>4, BoardTells
    <2>6. /\ ring' \in [Boards -> Seq(Calls)] /\ \A a \in Boards : Len(ring'[a]) <= RingSize
      BY <1>0, <2>1, <2>2
    <2>7. ranNow' \in [Boards -> Seq(Calls)] BY <1>0, <1>2, <2>1, Appended
    <2>8. ranEver' \subseteq Calls BY <1>2, <2>1 DEF CommandTypeOK
    <2>9. CommandTypeOK'
      BY <1>1, <1>4, <2>5, <2>6, <2>7, <2>8, CallsRest DEF CommandTypeOK, routerVars
    <2> QED BY <1>1, <2>2, <2>5, <2>9, CallsRest DEF Wires
  <1> QED BY <1>5, <1>6

LEMMA CommandNextSafe ==
  TakeTurns /\ CommandInv /\ [CommandNext]_commandVars => CommandInv'
  <1> SUFFICES ASSUME TakeTurns, CommandInv, [CommandNext]_commandVars PROVE CommandInv' OBVIOUS
  <1>1. CASE UNCHANGED commandVars
    <2> USE <1>1 DEF commandVars, CommandInv
    <2>1. CommandTypeOK' BY DEF CommandTypeOK
    <2>2. (OneCall /\ Responses /\ AnswersAreReplies)'
      BY DEF OneCall, Responses, AnswersAreReplies, RegisteredWhileWaiting
    <2>3. (OnTheWire /\ InTurn /\ RanBefore /\ RingEnds /\ OncePerBoot)'
      BY DEF OnTheWire, InTurn, RanBefore, RingEnds, OncePerBoot, IsInjective
    <2> QED BY <2>1, <2>2, <2>3
  <1>2. CASE CommandNext
    BY <1>2, CallSafe, RouterHandles, RouterConnection, BoardShows, BoardLeaves, BoardReceives
      DEF CommandNext, RouterStep, BoardStep, Receive
  <1> QED BY <1>1, <1>2

(* The invariant that the next two theorems rest on.                       *)
THEOREM CommandsHold == ASSUME TakeTurns PROVE CommandSpec => []CommandInv
  BY CommandStarts, CommandNextSafe, PTL DEF CommandSpec

(* A device runs a command once in a boot, however often it is redelivered *)
(* and however few nonces its ring holds, for any calls and boards, as     *)
(* long as the callers of a board take turns (router.py:98-115,            *)
(* security.py:81-98, dispatcher.py:26-58).                                *)
THEOREM RunsOncePerBoot == ASSUME TakeTurns PROVE CommandSpec => []OncePerBoot
  <1>1. CommandInv => OncePerBoot BY DEF CommandInv
  <1> QED BY <1>1, CommandsHold, PTL

(* What is registered is of a call that waits, and an answer is to the     *)
(* call's own command or to an earlier one for the same board, for any     *)
(* calls and boards whose callers take turns (commands.py:39-96,           *)
(* router.py:47-50).                                                       *)
THEOREM CallsAreSound == ASSUME TakeTurns PROVE CommandSpec => []CallsSound
  <1>1. CommandInv => CallsSound BY DEF CommandInv, CallsSound
  <1> QED BY <1>1, CommandsHold, PTL

(***************************************************************************)
(* Enrolment.                                                              *)
(***************************************************************************)

(* The messages on their way to the router, and the records of the units   *)
(* and of the worker.                                                      *)
EnrolRecords ==
  /\ toFleet \in Seq([kind : {"announce", "online", "offline", "applied", "error"},
                      hwid : Hwids, batch : Batches \cup {Absent}])
  /\ \A h \in Hwids :
       /\ DOMAIN unit[h] = {"mode", "batch", "up", "identity"}
       /\ unit[h].mode \in {"blank", "bootstrap", "claimed"}
       /\ unit[h].batch \in Batches \cup {Absent}
       /\ unit[h].mode # "blank" => unit[h].batch \in Batches
  /\ DOMAIN worker = {"step", "todo", "row"}
  /\ worker.step \in {"provision", "publish", "wait", "claim", "issued"} => worker.row \in Keys
  /\ onboarding.step = "created" => onboarding.batch \in Batches

(* An announcement names the batch it was flashed with; any other sign of  *)
(* a claimed unit comes from one that stored an identity.                  *)
Messages ==
  \A i \in DOMAIN toFleet :
    /\ toFleet[i].kind = "announce" => toFleet[i].batch \in Batches
    /\ toFleet[i].kind \in {"online", "applied"} => unit[toFleet[i].hwid].identity # Absent

(* Whoever calls a unit claimed has it from the unit's own identity.       *)
ClaimsRest ==
  /\ \A h \in Hwids : unit[h].mode = "claimed" => unit[h].identity # Absent
  /\ \A h \in Hwids : rolloverAck[h] = "applied" => unit[h].identity # Absent
  /\ worker.step = "claim" => unit[HwidOf(worker.row)].identity # Absent

(* From the issue of a leaf to its delivery the pair of files is whole and *)
(* of the project.                                                         *)
Own(identity) == identity.whole /\ identity.project = OwnProject

LeavesWhole ==
  /\ worker.step \in {"provision", "publish"} => Own(leaf[HwidOf(worker.row)])
  /\ \A h \in Hwids : rollover[h] # Absent => Own(rollover[h])

(* At most one batch is active, and a call about to create one found none. *)
OneBatch ==
  /\ \A a, b \in ActiveBatches : a = b
  /\ onboarding.step = "looked" /\ onboarding.batch = Absent => ActiveBatches = {}

EnrolInv ==
  /\ EnrolTypeOK /\ EnrolRecords /\ Messages /\ ClaimsRest /\ ClaimedHasIdentity
  /\ LeavesWhole /\ IdentityWhole /\ OneBatch

(* The work is done for one project, whoever provisions by hand.           *)
OneProject == HandProjects \subseteq {OwnProject}

LEMMA EnrolStarts == EnrolInit => EnrolInv
  <1> SUFFICES ASSUME EnrolInit PROVE EnrolInv OBVIOUS
  <1> USE DEF EnrolInit
  <1>1. EnrolTypeOK BY DEF EnrolTypeOK
  <1>2. EnrolRecords BY EmptySeq DEF EnrolRecords
  <1>3. Messages BY EmptySeq DEF Messages
  <1>4. ClaimsRest /\ ClaimedHasIdentity BY DEF ClaimsRest, ClaimedHasIdentity, Keys, HwidOf
  <1>5. LeavesWhole /\ IdentityWhole BY DEF LeavesWhole, IdentityWhole
  <1>6. OneBatch BY DEF OneBatch, ActiveBatches
  <1> QED BY <1>1, <1>2, <1>3, <1>4, <1>5, <1>6 DEF EnrolInv

(* The newest of at most one active batch is that batch.                   *)
LEMMA NewestIsActive ==
  ASSUME OneBatch
  PROVE  NewestActive \in Batches \cup {Absent}
         /\ (NewestActive = Absent => ActiveBatches = {})
  <1>1. CASE ActiveBatches = {} BY <1>1 DEF NewestActive
  <1>2. CASE ActiveBatches # {}
    <2>1. PICK b \in ActiveBatches : TRUE BY <1>2
    <2>2. b \in Batches /\ b \in Nat /\ \A a \in ActiveBatches : a <= b
      BY <2>1, EnrolAssumption DEF OneBatch, ActiveBatches, Batches
    <2>3. NewestActive \in ActiveBatches BY <1>2, <2>1, <2>2 DEF NewestActive
    <2>4. NewestActive # Absent BY <2>3, EnrolAssumption DEF ActiveBatches, Batches
    <2> QED BY <2>3, <2>4 DEF ActiveBatches
  <1> QED BY <1>1, <1>2

(* An operator's call and the expiry of a batch: the batches.              *)
LEMMA BatchesSafe ==
  ASSUME EnrolInv, Onboarding \/ ExpireBatch
  PROVE  EnrolInv'
  <1> USE DEF EnrolInv
  <1>1. /\ UNCHANGED <<enrolment, worker, rolloverAck, leaf, unit, rollover, toFleet, seen>>
        /\ batchRow' \in [Batches -> {"none", "active", "expired"}]
        /\ batchLeaf' \in [Batches -> {"none", "torn", "whole"}]
        /\ headers' \subseteq Batches
        /\ onboarding' \in [step : {"idle", "looked", "created"}, batch : Batches \cup {Absent}]
        /\ onboarding'.step = "created" => onboarding'.batch \in Batches
        /\ OneBatch'
    <2> USE DEF EnrolTypeOK, OneBatch, ActiveBatches, unitVars, batchVars, Idle
    <2>1. CASE LookUpBatch
      <3>1. NewestActive \in Batches \cup {Absent} /\ (NewestActive = Absent => ActiveBatches = {})
        BY NewestIsActive
      <3> QED BY <2>1, <3>1 DEF LookUpBatch, ReusableBatch
    <2>2. CASE CreateBatch
      <3>1. ActiveBatches = {} BY <2>2 DEF CreateBatch
      <3>2. CASE batchRow' = batchRow BY <2>2, <3>1, <3>2 DEF CreateBatch
      <3>3. ASSUME NEW b \in Batches, batchRow' = [batchRow EXCEPT ![b] = "active"],
                   onboarding' = [step |-> "created", batch |-> b]
            PROVE  <1>1!6
        BY <3>1, <3>3
      <3> QED BY <2>2, <3>1, <3>2, <3>3 DEF CreateBatch
    <2>3. CASE IssueBatchCert BY <2>3 DEF IssueBatchCert, EnrolRecords
    <2>4. CASE ReuseBatch BY <2>4 DEF ReuseBatch
    <2>5. CASE ExpireBatch BY <2>5 DEF ExpireBatch, EnrolRecords
    <2> QED BY <2>1, <2>2, <2>3, <2>4, <2>5 DEF Onboarding
  <1>2. EnrolTypeOK' BY <1>1 DEF EnrolTypeOK
  <1>3. EnrolRecords' BY <1>1 DEF EnrolRecords
  <1>4. Messages' BY <1>1 DEF Messages
  <1>5. (ClaimsRest /\ ClaimedHasIdentity)' BY <1>1 DEF ClaimsRest, ClaimedHasIdentity
  <1>6. (LeavesWhole /\ IdentityWhole)' BY <1>1 DEF LeavesWhole, IdentityWhole
  <1> QED BY <1>1, <1>2, <1>3, <1>4, <1>5, <1>6

(* Every message on its way is about a unit.                               *)
LEMMA EveryMessage ==
  ASSUME EnrolInv
  PROVE  \A i \in DOMAIN toFleet :
           toFleet[i] \in [kind : {"announce", "online", "offline", "applied", "error"},
                          hwid : Hwids, batch : Batches \cup {Absent}]
  <1> DEFINE messages == [kind : {"announce", "online", "offline", "applied", "error"},
                          hwid : Hwids, batch : Batches \cup {Absent}]
  <1>1. toFleet \in Seq(messages) BY DEF EnrolInv, EnrolRecords
  <1> HIDE DEF messages
  <1>2. \A i \in DOMAIN toFleet : toFleet[i] \in messages BY <1>1, LenProperties, ElementOfSeq
  <1> QED BY <1>2 DEF messages

(* A message appended to those on their way.                               *)
LEMMA Told ==
  ASSUME EnrolInv, NEW h \in Hwids,
         NEW kind \in {"announce", "online", "offline", "applied", "error"}, Tell(kind, h)
  PROVE  /\ toFleet' \in Seq([kind : {"announce", "online", "offline", "applied", "error"},
                              hwid : Hwids, batch : Batches \cup {Absent}])
         /\ DOMAIN toFleet' = 1..(Len(toFleet) + 1) /\ DOMAIN toFleet = 1..Len(toFleet)
         /\ Len(toFleet) \in Nat
         /\ \A i \in DOMAIN toFleet' :
              toFleet'[i] = IF i \in DOMAIN toFleet THEN toFleet[i]
                            ELSE [kind |-> kind, hwid |-> h, batch |-> unit[h].batch]
         /\ \A i \in DOMAIN toFleet : toFleet[i].hwid \in Hwids
  <1> DEFINE messages == [kind : {"announce", "online", "offline", "applied", "error"},
                          hwid : Hwids, batch : Batches \cup {Absent}]
             m == [kind |-> kind, hwid |-> h, batch |-> unit[h].batch]
  <1>1. toFleet \in Seq(messages) /\ m \in messages /\ toFleet' = Append(toFleet, m)
    BY DEF EnrolInv, EnrolRecords, Tell
  <1>4. \A i \in DOMAIN toFleet : toFleet[i].hwid \in Hwids BY EveryMessage
  <1> HIDE DEF messages, m
  <1>2. /\ toFleet' \in Seq(messages) /\ Len(toFleet') = Len(toFleet) + 1
        /\ \A i \in 1..Len(toFleet) : toFleet'[i] = toFleet[i]
        /\ toFleet'[Len(toFleet) + 1] = m
    BY <1>1, AppendProperties
  <1>3. /\ DOMAIN toFleet' = 1..(Len(toFleet) + 1) /\ DOMAIN toFleet = 1..Len(toFleet)
        /\ Len(toFleet) \in Nat
    BY <1>1, <1>2, LenProperties
  <1>5. \A i \in DOMAIN toFleet' : toFleet'[i] = IF i \in DOMAIN toFleet THEN toFleet[i] ELSE m
    BY <1>2, <1>3
  <1> QED BY <1>2, <1>3, <1>4, <1>5 DEF messages, m

(* What a unit tells the router is true.                                   *)
LEMMA ToldTruth ==
  ASSUME EnrolInv, NEW h \in Hwids,
         NEW kind \in {"announce", "online", "offline", "applied", "error"}, Tell(kind, h),
         \A g \in Hwids : unit[g].identity # Absent => unit'[g].identity # Absent,
         kind = "announce" => unit[h].batch \in Batches,
         kind \in {"online", "applied"} => unit'[h].identity # Absent
  PROVE  /\ toFleet' \in Seq([kind : {"announce", "online", "offline", "applied", "error"},
                              hwid : Hwids, batch : Batches \cup {Absent}])
         /\ Messages'
  <1>1. Messages'
    <2> SUFFICES ASSUME NEW i \in DOMAIN toFleet'
                 PROVE  /\ toFleet'[i].kind = "announce" => toFleet'[i].batch \in Batches
                        /\ toFleet'[i].kind \in {"online", "applied"} =>
                             unit'[toFleet'[i].hwid].identity # Absent
      BY DEF Messages
    <2>1. CASE i \in DOMAIN toFleet
      <3>1. toFleet'[i] = toFleet[i] /\ toFleet[i].hwid \in Hwids BY <2>1, Told
      <3> QED BY <2>1, <3>1 DEF EnrolInv, Messages
    <2>2. CASE i \notin DOMAIN toFleet
      <3>1. toFleet'[i] = [kind |-> kind, hwid |-> h, batch |-> unit[h].batch] BY <2>2, Told
      <3> QED BY <3>1
    <2> QED BY <2>1, <2>2
  <1> QED BY <1>1, Told

(* A unit's record after each of its steps, and what it tells the router.  *)
LEMMA UnitRecord ==
  ASSUME EnrolInv, NEW h \in Hwids,
         Flash(h) \/ ConnectUnit(h) \/ DropUnit(h) \/ BeatClaimed(h) \/ ApplyRollover(h)
           \/ RefuseRollover(h)
  PROVE  /\ DOMAIN unit' = Hwids /\ \A g \in Hwids \ {h} : unit'[g] = unit[g]
         /\ DOMAIN unit'[h] = {"mode", "batch", "up", "identity"}
         /\ unit'[h].mode \in {"blank", "bootstrap", "claimed"}
         /\ unit'[h].batch \in Batches \cup {Absent}
         /\ unit'[h].mode # "blank" => unit'[h].batch \in Batches
         /\ unit'[h].identity \in {unit[h].identity, rollover[h]}
         /\ unit'[h].identity # unit[h].identity => rollover[h] # Absent
         /\ unit[h].identity # Absent => unit'[h].identity # Absent
         /\ unit'[h].mode = "claimed" => unit'[h].identity # Absent
         /\ DOMAIN rollover' = Hwids
         /\ \A g \in Hwids : rollover'[g] \in {rollover[g], Absent}
         /\ \/ UNCHANGED toFleet
            \/ Tell("announce", h) /\ unit[h].batch \in Batches
            \/ Tell("online", h) /\ unit[h].identity # Absent
            \/ Tell("applied", h) /\ unit'[h].identity # Absent
            \/ Tell("offline", h) \/ Tell("error", h)
  <1> /\ DOMAIN unit = Hwids /\ DOMAIN rollover = Hwids /\ headers \subseteq Batches
      /\ DOMAIN unit[h] = {"mode", "batch", "up", "identity"}
      /\ unit[h].mode \in {"blank", "bootstrap", "claimed"}
      /\ unit[h].batch \in Batches \cup {Absent}
      /\ unit[h].mode # "blank" => unit[h].batch \in Batches
      /\ unit[h].mode = "claimed" => unit[h].identity # Absent
    BY DEF EnrolInv, EnrolTypeOK, EnrolRecords, ClaimsRest
  <1> USE DEF unitVars
  <1>1. CASE Flash(h)
    <2>1. PICK b \in headers : unit' = [unit EXCEPT ![h].mode = "bootstrap", ![h].batch = b]
      BY <1>1 DEF Flash
    <2>2. UNCHANGED <<rollover, toFleet>> /\ unit[h].mode = "blank" BY <1>1 DEF Flash
    <2> QED BY <2>1, <2>2
  <1>2. CASE ConnectUnit(h) BY <1>2 DEF ConnectUnit
  <1>3. CASE DropUnit(h) BY <1>3 DEF DropUnit
  <1>4. CASE BeatClaimed(h) BY <1>4 DEF BeatClaimed
  <1>5. CASE ApplyRollover(h) BY <1>5 DEF ApplyRollover
  <1>6. CASE RefuseRollover(h) BY <1>6 DEF RefuseRollover
  <1> QED BY <1>1, <1>2, <1>3, <1>4, <1>5, <1>6

(* A unit claims only with an identity that came whole, and never loses it.*)
LEMMA UnitSafe ==
  ASSUME EnrolInv, NEW h \in Hwids,
         Flash(h) \/ ConnectUnit(h) \/ DropUnit(h) \/ BeatClaimed(h) \/ ApplyRollover(h)
           \/ RefuseRollover(h)
  PROVE  EnrolInv'
  <1>1. UNCHANGED <<batchRow, batchLeaf, headers, onboarding, enrolment, worker, rolloverAck,
                    leaf, seen>>
    BY DEF Flash, ConnectUnit, DropUnit, BeatClaimed, ApplyRollover, RefuseRollover, unitVars,
           batchVars
  <1>2. \A g \in Hwids : unit[g].identity # Absent => unit'[g].identity # Absent BY UnitRecord
  <1>3. EnrolTypeOK' BY <1>1, UnitRecord DEF EnrolInv, EnrolTypeOK
  <1>4. /\ toFleet' \in Seq([kind : {"announce", "online", "offline", "applied", "error"},
                             hwid : Hwids, batch : Batches \cup {Absent}])
        /\ Messages'
    <2>1. CASE UNCHANGED toFleet
      <3>1. \A i \in DOMAIN toFleet : toFleet[i].hwid \in Hwids BY EveryMessage
      <3> QED BY <1>2, <2>1, <3>1 DEF EnrolInv, EnrolRecords, Messages
    <2>2. CASE Tell("announce", h) /\ unit[h].batch \in Batches BY <1>2, <2>2, ToldTruth
    <2>3. CASE Tell("online", h) /\ unit[h].identity # Absent BY <1>2, <2>3, ToldTruth
    <2>4. CASE Tell("applied", h) /\ unit'[h].identity # Absent BY <1>2, <2>4, ToldTruth
    <2>5. CASE Tell("offline", h) BY <1>2, <2>5, ToldTruth
    <2>6. CASE Tell("error", h) BY <1>2, <2>6, ToldTruth
    <2> QED BY <2>1, <2>2, <2>3, <2>4, <2>5, <2>6, UnitRecord
  <1>5. EnrolRecords'
    <2>1. \A g \in Hwids :
            /\ DOMAIN unit'[g] = {"mode", "batch", "up", "identity"}
            /\ unit'[g].mode \in {"blank", "bootstrap", "claimed"}
            /\ unit'[g].batch \in Batches \cup {Absent}
            /\ unit'[g].mode # "blank" => unit'[g].batch \in Batches
      BY UnitRecord DEF EnrolInv, EnrolRecords
    <2> QED BY <1>1, <1>4, <2>1 DEF EnrolInv, EnrolRecords
  <1>6. ClaimsRest'
    <2>1. \A g \in Hwids : unit'[g].mode = "claimed" => unit'[g].identity # Absent
      BY UnitRecord DEF EnrolInv, ClaimsRest
    <2>2. worker.step = "claim" => HwidOf(worker.row) \in Hwids
      BY DEF EnrolInv, EnrolRecords, Keys, HwidOf
    <2> QED BY <1>1, <1>2, <2>1, <2>2 DEF EnrolInv, ClaimsRest
  <1>7. ClaimedHasIdentity'
    BY <1>1, <1>2 DEF EnrolInv, ClaimedHasIdentity, Keys, HwidOf
  <1>8. LeavesWhole'
    <2>1. \A g \in Hwids : rollover'[g] # Absent => rollover'[g] = rollover[g] BY UnitRecord
    <2> QED BY <1>1, <2>1 DEF EnrolInv, LeavesWhole
  <1>9. IdentityWhole'
    BY UnitRecord DEF EnrolInv, LeavesWhole, IdentityWhole, Own
  <1>10. OneBatch' BY <1>1 DEF EnrolInv, OneBatch, ActiveBatches
  <1> QED BY <1>3, <1>4, <1>5, <1>6, <1>7, <1>8, <1>9, <1>10 DEF EnrolInv

(* Provisioning by hand writes a whole pair of files of the same project.  *)
LEMMA HandSafe ==
  ASSUME EnrolInv, OneProject, NEW h \in Hwids, ProvisionDevice(h)
  PROVE  EnrolInv'
  <1>1. PICK project \in HandProjects : leaf' = [leaf EXCEPT ![h] = FreshLeaf(project)]
    BY DEF ProvisionDevice
  <1>2. UNCHANGED <<batchRow, batchLeaf, headers, onboarding, enrolment, worker, rolloverAck,
                    unit, rollover, toFleet, seen>>
    BY DEF ProvisionDevice, unitVars, batchVars
  <1>3. Own(FreshLeaf(project)) BY <1>1 DEF OneProject, Own, FreshLeaf
  <1>4. EnrolTypeOK' BY <1>1, <1>2 DEF EnrolInv, EnrolTypeOK
  <1>5. LeavesWhole'
    <2>1. \A g \in Hwids : leaf'[g] \in {leaf[g], FreshLeaf(project)}
      BY <1>1 DEF EnrolInv, EnrolTypeOK
    <2>2. worker.step \in {"provision", "publish"} => HwidOf(worker.row) \in Hwids
      BY DEF EnrolInv, EnrolRecords, Keys, HwidOf
    <2> QED BY <1>2, <1>3, <2>1, <2>2 DEF EnrolInv, LeavesWhole
  <1>6. (EnrolRecords /\ Messages /\ ClaimsRest /\ ClaimedHasIdentity /\ IdentityWhole
           /\ OneBatch)'
    BY <1>2 DEF EnrolInv, EnrolRecords, Messages, ClaimsRest, ClaimedHasIdentity, IdentityWhole,
                OneBatch, ActiveBatches
  <1> QED BY <1>4, <1>5, <1>6 DEF EnrolInv

(* What is left on its way after the first message.                        *)
LEMMA RestOfMessages ==
  ASSUME EnrolInv, toFleet # << >>, toFleet' = Tail(toFleet), UNCHANGED unit
  PROVE  /\ Head(toFleet) \in [kind : {"announce", "online", "offline", "applied", "error"},
                               hwid : Hwids, batch : Batches \cup {Absent}]
         /\ Head(toFleet).kind = "announce" => Head(toFleet).batch \in Batches
         /\ Head(toFleet).kind \in {"online", "applied"} =>
              unit[Head(toFleet).hwid].identity # Absent
         /\ toFleet' \in Seq([kind : {"announce", "online", "offline", "applied", "error"},
                              hwid : Hwids, batch : Batches \cup {Absent}])
         /\ Messages'
  <1> DEFINE messages == [kind : {"announce", "online", "offline", "applied", "error"},
                          hwid : Hwids, batch : Batches \cup {Absent}]
  <1>1. toFleet \in Seq(messages) BY DEF EnrolInv, EnrolRecords
  <1> HIDE DEF messages
  <1>2. /\ Head(toFleet) \in messages /\ toFleet' \in Seq(messages)
        /\ Len(toFleet') = Len(toFleet) - 1
        /\ \A i \in 1..Len(toFleet') : toFleet'[i] = toFleet[i + 1]
    BY <1>1, HeadTailProperties
  <1>3. /\ DOMAIN toFleet = 1..Len(toFleet) /\ DOMAIN toFleet' = 1..Len(toFleet')
        /\ Len(toFleet) \in Nat \ {0}
    BY <1>1, <1>2, LenProperties, EmptySeq
  <1>4. Head(toFleet) = toFleet[1] /\ 1 \in DOMAIN toFleet BY <1>1, <1>3
  <1>5. \A i \in DOMAIN toFleet' : i + 1 \in DOMAIN toFleet /\ toFleet'[i] = toFleet[i + 1]
    BY <1>2, <1>3
  <1>6. Messages' BY <1>5 DEF EnrolInv, Messages
  <1> QED BY <1>2, <1>4, <1>6 DEF EnrolInv, Messages, messages

(* The rows change so that a row is claimed only with its unit's identity. *)
EnrolmentOK ==
  /\ enrolment \in [Keys -> [state : {"none", "pending", "accepted", "claimed"}, issued : BOOLEAN]]
  /\ ClaimedHasIdentity

(* Moving one row on, or none.                                             *)
LEMMA RowMoves ==
  ASSUME EnrolInv, UNCHANGED unit,
         \/ UNCHANGED enrolment
         \/ \E key \in Keys, state \in {"none", "pending", "accepted", "claimed"} :
              /\ state = "claimed" => unit[HwidOf(key)].identity # Absent
              /\ enrolment' = [enrolment EXCEPT ![key].state = state]
  PROVE  EnrolmentOK'
  <1>1. CASE UNCHANGED enrolment
    BY <1>1 DEF EnrolInv, EnrolTypeOK, EnrolmentOK, ClaimedHasIdentity
  <1>2. ASSUME NEW key \in Keys, NEW state \in {"none", "pending", "accepted", "claimed"},
               state = "claimed" => unit[HwidOf(key)].identity # Absent,
               enrolment' = [enrolment EXCEPT ![key].state = state]
        PROVE  EnrolmentOK'
    <2>1. enrolment \in [Keys -> [state : {"none", "pending", "accepted", "claimed"},
                                  issued : BOOLEAN]]
      BY DEF EnrolInv, EnrolTypeOK
    <2>2. [enrolment[key] EXCEPT !.state = state]
            \in [state : {"none", "pending", "accepted", "claimed"}, issued : BOOLEAN]
      BY <2>1
    <2>3. enrolment' \in [Keys -> [state : {"none", "pending", "accepted", "claimed"},
                                   issued : BOOLEAN]]
      BY <1>2, <2>1, <2>2
    <2>4. \A other \in Keys : enrolment'[other].state
                                = IF other = key THEN state ELSE enrolment[other].state
      BY <1>2, <2>1
    <2> QED BY <1>2, <2>3, <2>4 DEF EnrolInv, EnrolmentOK, ClaimedHasIdentity
  <1> QED BY <1>1, <1>2

(* The router believes what a unit says of itself.                         *)
LEMMA RouteSafe ==
  ASSUME EnrolInv, RouteEnrolment
  PROVE  EnrolInv'
  <1> DEFINE m == Head(toFleet)
  <1>1. UNCHANGED <<batchRow, batchLeaf, headers, onboarding, worker, leaf, unit, rollover>>
        /\ toFleet # << >> /\ toFleet' = Tail(toFleet) /\ Handle(m)
    BY DEF RouteEnrolment, batchVars, unitVars
  <1>2. /\ m.kind \in {"announce", "online", "offline", "applied", "error"} /\ m.hwid \in Hwids
        /\ m.kind = "announce" => m.batch \in Batches
        /\ m.kind \in {"online", "applied"} => unit[m.hwid].identity # Absent
        /\ toFleet' \in Seq([kind : {"announce", "online", "offline", "applied", "error"},
                             hwid : Hwids, batch : Batches \cup {Absent}])
        /\ Messages'
    BY <1>1, RestOfMessages
  <1> HIDE DEF m
  <1>3. EnrolmentOK'
    <2>1. CASE UNCHANGED enrolment BY <1>1, <2>1, RowMoves
    <2>2. CASE m.kind = "announce" /\ RecordEnrolment(<<m.batch, m.hwid>>)
      <3>1. <<m.batch, m.hwid>> \in Keys BY <1>2, <2>2 DEF Keys
      <3> QED BY <1>1, <2>1, <2>2, <3>1, RowMoves DEF RecordEnrolment
    <2>3. CASE m.kind = "online" /\ ClaimByPresence(m.hwid)
      <3>1. enrolment \in [Keys -> [state : {"none", "pending", "accepted", "claimed"},
                                    issued : BOOLEAN]]
        BY DEF EnrolInv, EnrolTypeOK
      <3>2. \A key \in Keys : [enrolment[key] EXCEPT !.state = "claimed"]
                \in [state : {"none", "pending", "accepted", "claimed"}, issued : BOOLEAN]
        BY <3>1
      <3>3. enrolment' \in [Keys -> [state : {"none", "pending", "accepted", "claimed"},
                                     issued : BOOLEAN]]
        BY <2>3, <3>1, <3>2 DEF ClaimByPresence
      <3>4. ClaimedHasIdentity'
        BY <1>1, <1>2, <2>3, <3>1 DEF ClaimByPresence, EnrolInv, ClaimedHasIdentity
      <3> QED BY <3>3, <3>4 DEF EnrolmentOK
    <2> QED BY <1>1, <2>1, <2>2, <2>3 DEF Handle
  <1>4. /\ rolloverAck' \in [Hwids -> {"none", "waiting", "applied", "error"}]
        /\ \A h \in Hwids : rolloverAck'[h] = "applied" => unit[h].identity # Absent
        /\ seen' \subseteq Hwids
    <2>1. /\ rolloverAck \in [Hwids -> {"none", "waiting", "applied", "error"}]
          /\ \A h \in Hwids : rolloverAck[h] = "applied" => unit[h].identity # Absent
          /\ seen \subseteq Hwids
      BY DEF EnrolInv, EnrolTypeOK, ClaimsRest
    <2> QED BY <1>1, <1>2, <2>1 DEF Handle
  <1>5. EnrolTypeOK' BY <1>1, <1>3, <1>4 DEF EnrolInv, EnrolTypeOK, EnrolmentOK
  <1>6. EnrolRecords' BY <1>1, <1>2 DEF EnrolInv, EnrolRecords
  <1>7. ClaimsRest' BY <1>1, <1>4 DEF EnrolInv, ClaimsRest
  <1>8. (LeavesWhole /\ IdentityWhole /\ OneBatch)'
    BY <1>1 DEF EnrolInv, LeavesWhole, IdentityWhole, OneBatch, ActiveBatches
  <1> QED BY <1>2, <1>3, <1>5, <1>6, <1>7, <1>8 DEF EnrolInv, EnrolmentOK

(* An owner accepts; the worker gives up on an identity nobody applied.    *)
LEMMA RowsSafe ==
  ASSUME EnrolInv,
         \/ AcceptEnrolment
         \/ \E reopened \in SUBSET Keys : Reconcile(reopened)
         \/ Fetch \/ SweepEnds \/ ProvisionRow \/ MarkRow
  PROVE  EnrolInv'
  <1> USE DEF WorkerOnly
  <1>1. UNCHANGED <<batchRow, batchLeaf, headers, onboarding, rolloverAck, leaf, unit, rollover,
                    toFleet, seen>>
    BY DEF AcceptEnrolment, Reconcile, Fetch, SweepEnds, ProvisionRow, MarkRow, batchVars, unitVars
  <1>2. EnrolmentOK'
    <2>1. CASE AcceptEnrolment BY <1>1, <2>1, RowMoves DEF AcceptEnrolment
    <2>2. ASSUME NEW reopened \in SUBSET Keys, Reconcile(reopened) PROVE EnrolmentOK'
      <3>1. enrolment \in [Keys -> [state : {"none", "pending", "accepted", "claimed"},
                                    issued : BOOLEAN]]
        BY DEF EnrolInv, EnrolTypeOK
      <3>2. \A key \in Keys : [enrolment[key] EXCEPT !.issued = FALSE]
                \in [state : {"none", "pending", "accepted", "claimed"}, issued : BOOLEAN]
        BY <3>1, Zenon
      <3>3. enrolment' = [key \in Keys |-> IF key \in reopened
                            THEN [enrolment[key] EXCEPT !.issued = FALSE] ELSE enrolment[key]]
        BY <2>2 DEF Reconcile
      <3>4. enrolment' \in [Keys -> [state : {"none", "pending", "accepted", "claimed"},
                                     issued : BOOLEAN]]
        BY <3>1, <3>2, <3>3
      <3>5. \A key \in Keys : enrolment'[key].state = enrolment[key].state BY <3>1, <3>3
      <3>6. ClaimedHasIdentity' BY <1>1, <3>5 DEF EnrolInv, ClaimedHasIdentity
      <3> QED BY <3>4, <3>6 DEF EnrolmentOK
    <2>3. CASE Fetch \/ SweepEnds \/ ProvisionRow
      BY <1>1, <2>3, RowMoves DEF Fetch, SweepEnds, ProvisionRow
    <2>4. CASE MarkRow
      <3>1. CASE UNCHANGED enrolment BY <1>1, <3>1, RowMoves
      <3>2. CASE /\ worker.step = "claim"
                 /\ enrolment' = [enrolment EXCEPT ![worker.row].state = "claimed"]
        <4>1. worker.row \in Keys /\ unit[HwidOf(worker.row)].identity # Absent
          BY <3>2 DEF EnrolInv, EnrolRecords, ClaimsRest
        <4> QED BY <1>1, <3>2, <4>1, RowMoves
      <3>3. CASE /\ worker.step = "issued"
                 /\ enrolment' = [enrolment EXCEPT ![worker.row].issued = TRUE]
        <4>1. enrolment \in [Keys -> [state : {"none", "pending", "accepted", "claimed"},
                                      issued : BOOLEAN]]
              /\ worker.row \in Keys
          BY <3>3 DEF EnrolInv, EnrolTypeOK, EnrolRecords
        <4>2. \A key \in Keys : [enrolment[key] EXCEPT !.issued = TRUE]
                  \in [state : {"none", "pending", "accepted", "claimed"}, issued : BOOLEAN]
          BY <4>1, Zenon
        <4>3. enrolment' \in [Keys -> [state : {"none", "pending", "accepted", "claimed"},
                                       issued : BOOLEAN]]
          BY <3>3, <4>1, <4>2
        <4>4. \A key \in Keys : enrolment'[key].state = enrolment[key].state BY <3>3, <4>1
        <4>5. ClaimedHasIdentity' BY <1>1, <4>4 DEF EnrolInv, ClaimedHasIdentity
        <4> QED BY <4>3, <4>5 DEF EnrolmentOK
      <3> QED BY <2>4, <3>1, <3>2, <3>3 DEF MarkRow
    <2> QED BY <2>1, <2>2, <2>3, <2>4
  <1>3. /\ DOMAIN worker' = {"step", "todo", "row"} /\ worker'.todo \subseteq Keys
        /\ worker'.step \in {"sleep", "fetch", "pick", "provision", "publish"} \/ UNCHANGED worker
        /\ worker'.row = Absent \/ worker'.row \in Keys
        /\ worker'.step \in {"provision", "publish"} =>
             worker.step \in {"provision", "publish"} /\ worker'.row = worker.row
    <2> /\ DOMAIN worker = {"step", "todo", "row"} /\ worker.todo \subseteq Keys
        /\ worker.row = Absent \/ worker.row \in Keys
      BY DEF EnrolInv, EnrolTypeOK, EnrolRecords
    <2>1. CASE AcceptEnrolment BY <2>1 DEF AcceptEnrolment
    <2>2. CASE \E reopened \in SUBSET Keys : Reconcile(reopened) BY <2>2 DEF Reconcile
    <2>3. CASE Fetch BY <2>3 DEF Fetch, Asleep
    <2>4. CASE SweepEnds BY <2>4 DEF SweepEnds, Asleep
    <2>5. CASE ProvisionRow BY <2>5 DEF ProvisionRow, NextRow
    <2>6. CASE MarkRow BY <2>6 DEF MarkRow, NextRow
    <2> QED BY <2>1, <2>2, <2>3, <2>4, <2>5, <2>6
  <1>4. EnrolTypeOK' BY <1>1, <1>2, <1>3 DEF EnrolInv, EnrolTypeOK, EnrolmentOK
  <1>5. EnrolRecords' BY <1>1, <1>3 DEF EnrolInv, EnrolRecords
  <1>6. Messages' BY <1>1 DEF EnrolInv, Messages
  <1>7. ClaimsRest' BY <1>1, <1>3 DEF EnrolInv, ClaimsRest
  <1>8. (LeavesWhole /\ IdentityWhole)' BY <1>1, <1>3 DEF EnrolInv, LeavesWhole, IdentityWhole
  <1>9. OneBatch' BY <1>1 DEF EnrolInv, OneBatch, ActiveBatches
  <1> QED BY <1>2, <1>4, <1>5, <1>6, <1>7, <1>8, <1>9 DEF EnrolInv, EnrolmentOK

(* The worker writes a whole pair of files, delivers it as long as nobody  *)
(* touched it, and takes an answer for what it says.                       *)
LEMMA DeliverySafe ==
  ASSUME EnrolInv, IssueIdentity \/ PublishRollover \/ AwaitAck
  PROVE  EnrolInv'
  <1>1. UNCHANGED <<batchRow, batchLeaf, headers, onboarding, enrolment, unit, toFleet, seen>>
    BY DEF IssueIdentity, PublishRollover, AwaitAck, batchVars, unitVars
  <1>2. /\ DOMAIN worker = {"step", "todo", "row"} /\ worker.todo \subseteq Keys
        /\ worker.row = Absent \/ worker.row \in Keys
        /\ DOMAIN leaf = Hwids /\ DOMAIN rollover = Hwids
        /\ rolloverAck \in [Hwids -> {"none", "waiting", "applied", "error"}]
        /\ worker.step \in {"provision", "publish", "wait", "claim", "issued"} =>
             worker.row \in Keys /\ HwidOf(worker.row) \in Hwids
    BY DEF EnrolInv, EnrolTypeOK, EnrolRecords, Keys, HwidOf
  <1>3. /\ DOMAIN worker' = {"step", "todo", "row"} /\ worker'.todo \subseteq Keys
        /\ worker'.step \in {"sleep", "fetch", "pick", "provision", "publish", "wait", "claim",
                             "issued"}
        /\ worker'.row = Absent \/ worker'.row \in Keys
        /\ worker'.step \in {"provision", "publish", "wait", "claim", "issued"} =>
             worker'.row \in Keys
        /\ DOMAIN leaf' = Hwids /\ DOMAIN rollover' = Hwids
        /\ rolloverAck' \in [Hwids -> {"none", "waiting", "applied", "error"}]
    <2>1. CASE IssueIdentity BY <1>2, <2>1 DEF IssueIdentity, IssueLeaf, unitVars
    <2>2. CASE PublishRollover BY <1>2, <2>2 DEF PublishRollover, NextRow
    <2>3. CASE AwaitAck BY <1>2, <2>3 DEF AwaitAck, unitVars
    <2> QED BY <2>1, <2>2, <2>3
  <1>4. ClaimsRest'
    <2>1. CASE IssueIdentity
      BY <1>1, <1>2, <2>1 DEF IssueIdentity, unitVars, EnrolInv, ClaimsRest
    <2>2. CASE PublishRollover
      BY <1>1, <1>2, <2>2 DEF PublishRollover, NextRow, EnrolInv, ClaimsRest
    <2>3. CASE AwaitAck
      BY <1>1, <1>2, <2>3 DEF AwaitAck, Acknowledged, unitVars, EnrolInv, ClaimsRest
    <2> QED BY <2>1, <2>2, <2>3
  <1>5. LeavesWhole'
    <2>1. CASE IssueIdentity
      <3>1. PICK key \in worker.todo :
              /\ worker' = [step |-> "provision", todo |-> worker.todo \ {key}, row |-> key]
              /\ leaf' = [leaf EXCEPT ![HwidOf(key)] = FreshLeaf(OwnProject)]
        BY <2>1 DEF IssueIdentity, IssueLeaf
      <3>2. HwidOf(key) \in Hwids BY <1>2, <3>1 DEF Keys, HwidOf
      <3>3. Own(FreshLeaf(OwnProject)) BY DEF Own, FreshLeaf
      <3>4. leaf'[HwidOf(worker'.row)] = FreshLeaf(OwnProject) /\ UNCHANGED rollover
        BY <1>2, <2>1, <3>1, <3>2 DEF IssueIdentity, unitVars
      <3> QED BY <3>3, <3>4 DEF EnrolInv, LeavesWhole
    <2>2. CASE PublishRollover
      BY <1>2, <2>2 DEF PublishRollover, NextRow, EnrolInv, LeavesWhole
    <2>3. CASE AwaitAck BY <1>2, <2>3 DEF AwaitAck, unitVars, EnrolInv, LeavesWhole
    <2> QED BY <2>1, <2>2, <2>3
  <1>6. EnrolTypeOK' BY <1>1, <1>3 DEF EnrolInv, EnrolTypeOK
  <1>7. EnrolRecords' BY <1>1, <1>3 DEF EnrolInv, EnrolRecords
  <1>8. (Messages /\ ClaimedHasIdentity /\ IdentityWhole /\ OneBatch)'
    BY <1>1 DEF EnrolInv, Messages, ClaimedHasIdentity, IdentityWhole, OneBatch, ActiveBatches
  <1> QED BY <1>4, <1>5, <1>6, <1>7, <1>8 DEF EnrolInv

(* A restart forgets what was under way; half a pair of files that it may  *)
(* leave is of a row the worker no longer has.                             *)
LEMMA RestartSafe ==
  ASSUME EnrolInv, FleetRestarts
  PROVE  EnrolInv'
  <1>1. /\ UNCHANGED <<batchRow, headers, enrolment>>
        /\ worker' = Asleep /\ onboarding' = Idle /\ seen' = {} /\ toFleet' = << >>
        /\ rolloverAck' = [h \in Hwids |-> "none"]
        /\ unit' = [h \in Hwids |-> [unit[h] EXCEPT !.up = FALSE]]
        /\ rollover' = [h \in Hwids |-> Absent]
    BY DEF FleetRestarts
  <1>2. /\ DOMAIN leaf' = Hwids
        /\ batchLeaf' \in [Batches -> {"none", "torn", "whole"}]
    BY DEF FleetRestarts, Torn, EnrolInv, EnrolTypeOK
  <1>3. \A h \in Hwids : /\ DOMAIN unit'[h] = DOMAIN unit[h] /\ unit'[h].mode = unit[h].mode
                         /\ unit'[h].batch = unit[h].batch
                         /\ unit'[h].identity = unit[h].identity
    BY <1>1 DEF EnrolInv, EnrolTypeOK, EnrolRecords
  <1>4. EnrolTypeOK' BY <1>1, <1>2 DEF EnrolInv, EnrolTypeOK, Asleep, Idle
  <1>5. EnrolRecords' BY <1>1, <1>3, EmptySeq DEF EnrolInv, EnrolRecords, Asleep, Idle
  <1>6. Messages' BY <1>1, EmptySeq DEF Messages
  <1>7. (ClaimsRest /\ ClaimedHasIdentity)'
    <2>1. worker'.step # "claim" BY <1>1 DEF Asleep
    <2>2. ClaimsRest' BY <1>1, <1>3, <2>1 DEF EnrolInv, ClaimsRest
    <2>3. \A key \in Keys : HwidOf(key) \in Hwids BY DEF Keys, HwidOf
    <2>4. ClaimedHasIdentity' BY <1>1, <1>3, <2>3 DEF EnrolInv, ClaimedHasIdentity
    <2> QED BY <2>2, <2>4
  <1>8. (LeavesWhole /\ IdentityWhole)'
    BY <1>1, <1>3 DEF EnrolInv, LeavesWhole, IdentityWhole, Asleep
  <1>9. OneBatch' BY <1>1 DEF EnrolInv, OneBatch, ActiveBatches, Idle
  <1> QED BY <1>4, <1>5, <1>6, <1>7, <1>8, <1>9 DEF EnrolInv

LEMMA EnrolStep == OneProject /\ EnrolInv /\ [EnrolNext]_enrolVars => EnrolInv'
  <1> SUFFICES ASSUME OneProject, EnrolInv, [EnrolNext]_enrolVars PROVE EnrolInv' OBVIOUS
  <1>1. CASE UNCHANGED enrolVars
    BY <1>1 DEF enrolVars, EnrolInv, EnrolTypeOK, EnrolRecords, Messages, ClaimsRest,
                ClaimedHasIdentity, LeavesWhole, IdentityWhole, OneBatch, ActiveBatches
  <1>2. CASE EnrolNext
    BY <1>2, BatchesSafe, UnitSafe, HandSafe, RouteSafe, RowsSafe, DeliverySafe, RestartSafe
      DEF EnrolNext, UnitStep, Fulfil
  <1> QED BY <1>1, <1>2

(* The invariant the next theorem rests on.                                *)
THEOREM EnrolmentHolds == ASSUME OneProject PROVE EnrolSpec => []EnrolInv
  BY EnrolStarts, EnrolStep, PTL DEF EnrolSpec

(* For any units and batches, whatever raises, is lost, repeated or dies:  *)
(* a row is claimed only if its unit stores an identity, what a unit       *)
(* stores is whole and of its project, and batches do not pile up          *)
(* (enroll_worker.py:79-124, router.py:168-172, control.py:194-207), given *)
(* that whoever provisions by hand does it for the same project.           *)
THEOREM EnrolmentIsSound == ASSUME OneProject PROVE EnrolSpec => []EnrolmentSound
  <1>1. EnrolInv => EnrolmentSound
    <2> SUFFICES ASSUME EnrolInv PROVE BatchesDontPileUp BY DEF EnrolInv, EnrolmentSound
    <2>1. CASE ActiveBatches = {} BY <2>1, FS_EmptySet DEF BatchesDontPileUp
    <2>2. CASE ActiveBatches # {}
      <3>1. PICK b \in ActiveBatches : TRUE BY <2>2
      <3>2. ActiveBatches = {b} BY <3>1 DEF EnrolInv, OneBatch
      <3> QED BY <3>2, FS_Singleton DEF BatchesDontPileUp
    <2> QED BY <2>1, <2>2
  <1> QED BY <1>1, EnrolmentHolds, PTL

(***************************************************************************)
(* Presence.                                                               *)
(***************************************************************************)

(* Every message on its way and every row's writes are sequences, of       *)
(* messages about members and of statuses.                                 *)
Queues ==
  /\ inbox \in Seq([member : Members, status : Status])
  /\ writing \in [Members -> Seq(Status)]

(* Without doubt about a row, the registry holds what was written to it    *)
(* last: either that write is done, or it is the only one under way.       *)
LastWrite ==
  \A d \in Members : ~doubt[d] /\ registry[d].status # "unknown" =>
    \/ writing[d] = << >> /\ row[d] = registry[d].status
    \/ Len(writing[d]) = 1 /\ writing[d][1] = registry[d].status

PresenceInv == PresenceTypeOK /\ Queues /\ LastWrite

(* A row's writes without one of them.                                     *)
LEMMA Without ==
  ASSUME NEW S, NEW s \in Seq(S), NEW i \in DOMAIN s
  PROVE  /\ SubSeq(s, 1, i - 1) \o SubSeq(s, i + 1, Len(s)) \in Seq(S)
         /\ Len(SubSeq(s, 1, i - 1) \o SubSeq(s, i + 1, Len(s))) = Len(s) - 1
  <1>1. i \in 1..Len(s) /\ Len(s) \in Nat /\ \A j \in 1..Len(s) : s[j] \in S
    BY LenProperties, ElementOfSeq
  <1>2. SubSeq(s, 1, i - 1) \in Seq(S) /\ Len(SubSeq(s, 1, i - 1)) = i - 1
    <2>1. \A j \in 1..(i - 1) : s[j] \in S BY <1>1
    <2>2. i - 1 \in Int /\ 1 \in Int BY <1>1
    <2> QED BY <1>1, <2>1, <2>2, SubSeqProperties, Z3
  <1>3. SubSeq(s, i + 1, Len(s)) \in Seq(S) /\ Len(SubSeq(s, i + 1, Len(s))) = Len(s) - i
    <2>1. \A j \in (i + 1)..Len(s) : s[j] \in S BY <1>1
    <2>2. i + 1 \in Int /\ Len(s) \in Int BY <1>1
    <2> QED BY <1>1, <2>1, <2>2, SubSeqProperties, Z3
  <1> DEFINE before == SubSeq(s, 1, i - 1)
             after == SubSeq(s, i + 1, Len(s))
  <1>4. /\ before \in Seq(S) /\ Len(before) = i - 1
        /\ after \in Seq(S) /\ Len(after) = Len(s) - i
    BY <1>2, <1>3, Zenon
  <1> HIDE DEF before, after
  <1>5. Len(before) + Len(after) = Len(s) - 1 BY <1>1, <1>4
  <1>6. before \o after \in Seq(S) /\ Len(before \o after) = Len(before) + Len(after)
    BY <1>4, ConcatProperties
  <1>7. before \o after \in Seq(S) /\ Len(before \o after) = Len(s) - 1 BY <1>5, <1>6
  <1> QED BY <1>7 DEF before, after

(* The pieces of the invariant in a form the steps use.                    *)
LEMMA PresenceFacts ==
  ASSUME Queues
  PROVE  /\ \A i \in DOMAIN inbox : inbox[i] \in [member : Members, status : Status]
         /\ \A d \in Members : \A i \in DOMAIN writing[d] : writing[d][i] \in Status
  <1>1. \A i \in DOMAIN inbox : inbox[i] \in [member : Members, status : Status]
    BY LenProperties, ElementOfSeq DEF Queues
  <1>2. ASSUME NEW d \in Members, NEW i \in DOMAIN writing[d] PROVE writing[d][i] \in Status
    <2>1. writing[d] \in Seq(Status) BY DEF Queues
    <2> QED BY <2>1, LenProperties, ElementOfSeq
  <1> QED BY <1>1, <1>2

LEMMA PresenceStarts == PresenceInit => PresenceInv
  <1> SUFFICES ASSUME PresenceInit PROVE PresenceInv OBVIOUS
  <1> USE DEF PresenceInit, Unknown, Status, Condition
  <1>1. Queues BY EmptySeq DEF Queues
  <1>2. PresenceTypeOK BY DEF PresenceTypeOK
  <1>3. LastWrite BY DEF LastWrite
  <1> QED BY <1>1, <1>2, <1>3 DEF PresenceInv

(* What the broker retains is on its way to the router, or nothing is.     *)
LEMMA Retains ==
  ASSUME PresenceInv, NEW d \in Members, NEW status \in Status, Retain(d, status)
  PROVE  /\ inbox' \in Seq([member : Members, status : Status])
         /\ retained' \in [Members -> Status \cup {"none"}]
  BY AppendProperties DEF PresenceInv, Queues, PresenceTypeOK, Retain

(* What a member shows, beats or leaves behind touches no row.             *)
LEMMA MemberSafe ==
  ASSUME PresenceInv, NEW d \in Members, MemberStep(d)
  PROVE  PresenceInv'
  <1>1. /\ inbox' \in Seq([member : Members, status : Status])
        /\ retained' \in [Members -> Status \cup {"none"}]
        /\ condition' \in [Members -> Condition]
        /\ UNCHANGED <<listening, registry, writing, row, doubt>>
    <2>1. CASE Shows(d) BY <2>1, Retains DEF Shows, PresenceInv, PresenceTypeOK, Condition, Status
    <2>2. CASE Beats(d)
      <3>1. condition[d] \in Status
        BY <2>2 DEF Beats, PresenceInv, PresenceTypeOK, Condition, Status
      <3> QED BY <2>2, <3>1, Retains DEF Beats, PresenceInv, PresenceTypeOK
    <2>3. CASE FallsSilent(d)
      BY <2>3, Retains DEF FallsSilent, PresenceInv, PresenceTypeOK, Queues, Condition, Status
    <2> QED BY <2>1, <2>2, <2>3 DEF MemberStep
  <1>2. Queues' BY <1>1 DEF PresenceInv, Queues
  <1>3. PresenceTypeOK'
    <2>1. (\A i \in DOMAIN inbox : inbox[i] \in [member : Members, status : Status])'
      BY <1>2, LenProperties, ElementOfSeq DEF Queues
    <2> QED BY <1>1, <2>1 DEF PresenceInv, PresenceTypeOK
  <1>4. LastWrite' BY <1>1 DEF PresenceInv, LastWrite
  <1> QED BY <1>2, <1>3, <1>4 DEF PresenceInv

(* A write that starts is of what the registry now says, and is in doubt   *)
(* while another is under way.                                             *)
LEMMA WriteStarts ==
  ASSUME PresenceInv, NEW d \in Members, NEW status \in Status, NEW late \in BOOLEAN,
         StartWrite(d, status),
         registry' = [registry EXCEPT ![d] = [status |-> status, late |-> late]],
         UNCHANGED <<condition, retained, listening, row>>,
         inbox' \in Seq([member : Members, status : Status])
  PROVE  PresenceInv'
  <1>1. writing[d] \in Seq(Status) /\ Len(writing[d]) \in Nat
    BY LenProperties DEF PresenceInv, Queues
  <1>2. /\ Append(writing[d], status) \in Seq(Status)
        /\ writing[d] = << >> =>
             Len(Append(writing[d], status)) = 1 /\ Append(writing[d], status)[1] = status
    BY <1>1, AppendProperties
  <1>3. Queues' BY <1>2 DEF PresenceInv, Queues, StartWrite
  <1>4. PresenceTypeOK'
    <2>1. (\A i \in DOMAIN inbox : inbox[i] \in [member : Members, status : Status])'
      BY <1>3, LenProperties, ElementOfSeq DEF Queues
    <2>2. (\A e \in Members : \A i \in DOMAIN writing[e] : writing[e][i] \in Status)'
      BY <1>3, LenProperties, ElementOfSeq DEF Queues
    <2>3. doubt' \in [Members -> BOOLEAN] BY DEF PresenceInv, PresenceTypeOK, StartWrite
    <2>4. registry' \in [Members -> [status : Status \cup {"unknown"}, late : BOOLEAN]]
      BY DEF PresenceInv, PresenceTypeOK
    <2> QED BY <2>1, <2>2, <2>3, <2>4 DEF PresenceInv, PresenceTypeOK
  <1>5. LastWrite'
    <2> SUFFICES ASSUME NEW e \in Members, ~doubt'[e], registry'[e].status # "unknown"
                 PROVE  \/ writing'[e] = << >> /\ row'[e] = registry'[e].status
                        \/ Len(writing'[e]) = 1 /\ writing'[e][1] = registry'[e].status
      BY DEF LastWrite
    <2>1. CASE e = d BY <1>2, <2>1 DEF StartWrite, PresenceInv, PresenceTypeOK, Queues
    <2>2. CASE e # d BY <2>2 DEF StartWrite, PresenceInv, PresenceTypeOK, Queues, LastWrite
    <2> QED BY <2>1, <2>2
  <1> QED BY <1>3, <1>4, <1>5 DEF PresenceInv

(* The router and the reaper put in the registry what they write.          *)
LEMMA RegistrySafe ==
  ASSUME PresenceInv, HandleBeat \/ \E d \in Members : Reap(d)
  PROVE  PresenceInv'
  <1>1. CASE HandleBeat
    <2>1. Head(inbox) \in [member : Members, status : Status]
          /\ Tail(inbox) \in Seq([member : Members, status : Status])
      BY <1>1, HeadTailProperties DEF HandleBeat, PresenceInv, Queues
    <2> QED BY <1>1, <2>1, WriteStarts DEF HandleBeat, UpdateHeartbeat, Heard
  <1>2. ASSUME NEW d \in Members, Reap(d) PROVE PresenceInv'
    <2>1. registry' = [registry EXCEPT ![d] = [status |-> "offline", late |-> registry[d].late]]
      <3>1. registry \in [Members -> [status : Status \cup {"unknown"}, late : BOOLEAN]]
        BY DEF PresenceInv, PresenceTypeOK
      <3>2. [registry[d] EXCEPT !.status = "offline"]
              = [status |-> "offline", late |-> registry[d].late]
        BY <3>1
      <3>3. registry' = [registry EXCEPT ![d] = [registry[d] EXCEPT !.status = "offline"]]
        BY <1>2 DEF Reap, MarkOffline
      <3> QED BY <3>2, <3>3
    <2>2. "offline" \in Status /\ registry[d].late \in BOOLEAN
      BY DEF Status, PresenceInv, PresenceTypeOK
    <2> QED BY <1>2, <2>1, <2>2, WriteStarts DEF Reap, MarkOffline, PresenceInv, Queues
  <1> QED BY <1>1, <1>2

(* A write that ends leaves the row as the registry has it, unless in      *)
(* doubt; one that is lost puts it in doubt.                               *)
LEMMA WriteEnds ==
  ASSUME PresenceInv, NEW d \in Members, FinishWrite(d) \/ LoseWrite(d)
  PROVE  PresenceInv'
  <1>1. PICK i \in DOMAIN writing[d] :
          /\ writing' = [writing EXCEPT ![d] = SubSeq(@, 1, i - 1) \o SubSeq(@, i + 1, Len(@))]
          /\ \/ row' = [row EXCEPT ![d] = writing[d][i]] /\ UNCHANGED doubt
             \/ doubt' = [doubt EXCEPT ![d] = TRUE] /\ UNCHANGED row
    BY DEF FinishWrite, LoseWrite
  <1>2. UNCHANGED <<condition, retained, listening, inbox, registry>> BY DEF FinishWrite, LoseWrite
  <1>3. writing[d] \in Seq(Status) /\ Len(writing[d]) \in Nat /\ i \in 1..Len(writing[d])
        /\ writing[d][i] \in Status
    BY <1>1, LenProperties, ElementOfSeq DEF PresenceInv, Queues
  <1>4. writing'[d] \in Seq(Status) /\ Len(writing'[d]) = Len(writing[d]) - 1
    BY <1>1, <1>3, Without DEF PresenceInv, Queues
  <1>5. Queues' BY <1>1, <1>2, <1>4 DEF PresenceInv, Queues
  <1>6. PresenceTypeOK'
    <2>1. (\A e \in Members : \A j \in DOMAIN writing[e] : writing[e][j] \in Status)'
      BY <1>5, LenProperties, ElementOfSeq DEF Queues
    <2>2. doubt' \in [Members -> BOOLEAN] BY <1>1 DEF PresenceInv, PresenceTypeOK
    <2>3. row' \in [Members -> Status \cup {"none"}] BY <1>1, <1>3 DEF PresenceInv, PresenceTypeOK
    <2> QED BY <1>2, <2>1, <2>2, <2>3 DEF PresenceInv, PresenceTypeOK
  <1>7. LastWrite'
    <2> SUFFICES ASSUME NEW e \in Members, ~doubt'[e], registry'[e].status # "unknown"
                 PROVE  \/ writing'[e] = << >> /\ row'[e] = registry'[e].status
                        \/ Len(writing'[e]) = 1 /\ writing'[e][1] = registry'[e].status
      BY DEF LastWrite
    <2>1. CASE e = d
      <3>1. ~doubt[d] /\ row' = [row EXCEPT ![d] = writing[d][i]]
        BY <1>1, <2>1 DEF PresenceInv, PresenceTypeOK
      <3>2. Len(writing[d]) = 1 /\ writing[d][1] = registry[d].status
        BY <1>2, <1>3, <2>1, <3>1, EmptySeq DEF PresenceInv, LastWrite
      <3>3. writing'[d] = << >> BY <1>4, <3>2, EmptySeq
      <3> QED BY <1>2, <1>3, <2>1, <3>1, <3>2, <3>3 DEF PresenceInv, PresenceTypeOK
    <2>2. CASE e # d BY <1>1, <1>2, <2>2 DEF PresenceInv, PresenceTypeOK, Queues, LastWrite
    <2> QED BY <2>1, <2>2
  <1> QED BY <1>5, <1>6, <1>7 DEF PresenceInv

(* A router that connects again hears of each member once what the broker  *)
(* retains of it, which is a status.                                       *)
LEMMA ReconnectSafe ==
  ASSUME PresenceInv, RouterDrops \/ RouterSubscribes
  PROVE  PresenceInv'
  <1>1. inbox' \in Seq([member : Members, status : Status])
    <2>1. CASE RouterDrops BY <2>1, EmptySeq DEF RouterDrops
    <2>2. CASE RouterSubscribes
      <3> DEFINE held == {d \in Members : retained[d] # "none"}
      <3>1. PICK order \in [1..Cardinality(held) -> held] :
              inbox' = [i \in DOMAIN order |-> [member |-> order[i], status |-> retained[order[i]]]]
        BY <2>2 DEF RouterSubscribes
      <3>2. Cardinality(held) \in Nat BY PresenceAssumption, FS_Subset, FS_CardinalityType
      <3>3. \A i \in DOMAIN order : [member |-> order[i], status |-> retained[order[i]]]
                                      \in [member : Members, status : Status]
        BY <3>1 DEF PresenceInv, PresenceTypeOK
      <3>4. DOMAIN order = 1..Cardinality(held) BY <3>1
      <3>5. inbox' \in [1..Cardinality(held) -> [member : Members, status : Status]]
        BY <3>1, <3>3, <3>4
      <3> DEFINE messages == [member : Members, status : Status]
                 n == Cardinality(held)
      <3>6. n \in Nat /\ inbox' \in [1..n -> messages] BY <3>2, <3>5
      <3> HIDE DEF held, n, messages
      <3>7. inbox' \in Seq(messages) BY <3>6
      <3> QED BY <3>7 DEF messages
    <2> QED BY <2>1, <2>2
  <1>2. UNCHANGED <<condition, retained, registry, writing, row, doubt>> /\ listening' \in BOOLEAN
    BY DEF RouterDrops, RouterSubscribes
  <1>3. Queues' BY <1>1, <1>2 DEF PresenceInv, Queues
  <1>4. PresenceTypeOK'
    <2>1. (\A i \in DOMAIN inbox : inbox[i] \in [member : Members, status : Status])'
      BY <1>3, LenProperties, ElementOfSeq DEF Queues
    <2> QED BY <1>2, <2>1 DEF PresenceInv, PresenceTypeOK
  <1>5. LastWrite' BY <1>2 DEF PresenceInv, LastWrite
  <1> QED BY <1>3, <1>4, <1>5 DEF PresenceInv

(* Silence is noticed without a write; a restart forgets the registry.     *)
LEMMA OthersSafe ==
  ASSUME PresenceInv, PresenceRestarts \/ \E d \in Members : Overdue(d)
  PROVE  PresenceInv'
  <1>1. CASE PresenceRestarts
    <2> USE <1>1 DEF PresenceRestarts, Unknown
    <2>1. Queues' BY EmptySeq DEF Queues
    <2>2. PresenceTypeOK' BY DEF PresenceInv, PresenceTypeOK
    <2>3. LastWrite' BY DEF LastWrite
    <2> QED BY <2>1, <2>2, <2>3 DEF PresenceInv
  <1>2. ASSUME NEW d \in Members, Overdue(d) PROVE PresenceInv'
    <2> USE <1>2 DEF Overdue
    <2>1. Queues' BY DEF PresenceInv, Queues
    <2>2. PresenceTypeOK'
      <3>1. registry \in [Members -> [status : Status \cup {"unknown"}, late : BOOLEAN]]
        BY DEF PresenceInv, PresenceTypeOK
      <3>2. [registry[d] EXCEPT !.late = TRUE]
              \in [status : Status \cup {"unknown"}, late : BOOLEAN]
        <4>1. registry[d] \in [status : Status \cup {"unknown"}, late : BOOLEAN] BY <3>1
        <4> QED BY <4>1, Zenon
      <3>3. registry' \in [Members -> [status : Status \cup {"unknown"}, late : BOOLEAN]]
        <4>1. registry' = [registry EXCEPT ![d] = [registry[d] EXCEPT !.late = TRUE]] OBVIOUS
        <4> QED BY <3>1, <3>2, <4>1
      <3> QED BY <3>3 DEF PresenceInv, PresenceTypeOK
    <2>3. \A e \in Members : registry'[e].status = registry[e].status
      BY DEF PresenceInv, PresenceTypeOK
    <2>4. LastWrite' BY <2>3 DEF PresenceInv, LastWrite
    <2> QED BY <2>1, <2>2, <2>4 DEF PresenceInv
  <1> QED BY <1>1, <1>2

LEMMA PresenceStep == PresenceInv /\ [PresenceNext]_presenceVars => PresenceInv'
  <1> SUFFICES ASSUME PresenceInv, [PresenceNext]_presenceVars PROVE PresenceInv' OBVIOUS
  <1>1. CASE UNCHANGED presenceVars
    BY <1>1 DEF presenceVars, PresenceInv, PresenceTypeOK, Queues, LastWrite
  <1>2. CASE PresenceNext
    BY <1>2, MemberSafe, RegistrySafe, WriteEnds, ReconnectSafe, OthersSafe
      DEF PresenceNext, ServiceStep
  <1> QED BY <1>1, <1>2

(* The invariant the next theorem rests on.                                *)
THEOREM PresenceHolds == PresenceSpec => []PresenceInv
  BY PresenceStarts, PresenceStep, PTL DEF PresenceSpec

(* Registry and row agree once a member's writes are done, none of them in *)
(* doubt: beats, wills, the reaper, reconnects and restarts in any order,  *)
(* for any members (reaper.py:16-28, router.py:150-160).                   *)
THEOREM PresenceIsSound == PresenceSpec => []PresenceSound
  <1>1. PresenceInv => PresenceSound
    <2> SUFFICES ASSUME PresenceInv PROVE RowMatchesRegistry
      BY DEF PresenceInv, PresenceSound
    <2> SUFFICES ASSUME NEW d \in Members, writing[d] = << >>, ~doubt[d],
                        registry[d].status # "unknown"
                 PROVE  row[d] = registry[d].status
      BY DEF RowMatchesRegistry
    <2> QED BY EmptySeq DEF PresenceInv, LastWrite
  <1> QED BY <1>1, PresenceHolds, PTL

=============================================================================
