-------------------------- MODULE Outputs_proofs --------------------------
(***************************************************************************)
(* Proofs about the FRIB DAQ readout (MCOutputs) and the stream server.    *)
(*                                                                         *)
(* What its slow controls server acknowledges is true.  One inductive      *)
(* invariant per driver: RegInv for the modules with registers, RcInv for  *)
(* the RC bus, HvInv for the high voltage supply, TclInv for the scripts.  *)
(*                                                                         *)
(* What execute() answers is what was done: VmeInv ties the lists of a     *)
(* client, the pieces of its request and the answer together.              *)
(*                                                                         *)
(* The ring items describe the runs: RunInv follows the state changes from *)
(* the worker's buffer through the snoop buffers and the parser into the   *)
(* ring.                                                                   *)
(***************************************************************************)
EXTENDS MCOutputs, FiniteSetTheorems, SequenceTheorems, WellFoundedInduction, TLAPS

-----------------------------------------------------------------------------
(***************************************************************************)
(* Discriminator, gate and delay generator: what a register may hold       *)
(***************************************************************************)
Kinds == {"none", "v812", "jtecgdg", "mxdcrcbus"}
RegTypes ==
    /\ kind \in Kinds
    /\ DOMAIN hw = SC!Params /\ DOMAIN shadow = SC!Params /\ DOMAIN possible = SC!Params
    /\ hw = [p \in SC!Params |-> hw[p]] /\ shadow = [p \in SC!Params |-> shadow[p]]
    /\ possible = [p \in SC!Params |-> possible[p]]
Holds(p) == hw[p] \in possible[p]
Remembers(p) == SC!Images(p, shadow[p]) \subseteq possible[p]
RegInv ==
    /\ RegTypes
    /\ \A p \in SC!Params : Holds(p)
    /\ kind = "v812" => \A p \in SC!ParamsOf.v812 : Remembers(p)

LEMMA KindParams ==
    /\ SC!ParamsOf.v812 = {"threshold", "width", "majority"}
    /\ SC!ParamsOf.jtecgdg = {"delay", "width"}
    /\ SC!ParamsOf.v812 \subseteq SC!Params /\ SC!ParamsOf.jtecgdg \subseteq SC!Params
    /\ \A k \in Kinds : SC!ParamsOf[k] \subseteq SC!Params
BY DEF SC!ParamsOf, SC!Params, Kinds

LEMMA ImagesOf ==
    ASSUME NEW p, NEW v
    PROVE  SC!AsSet(p, v) \in SC!Images(p, v) /\ SC!AsUpdated(p, v) \in SC!Images(p, v)
BY DEF SC!Images

LEMMA RegInit == SC!Init => RegInv
BY KindParams DEF SC!Init, RegInv, RegTypes, Kinds, Holds, Remembers

\* A write that the caller is told of leaves a register with what it may hold.
LEMMA ToldWrite ==
    ASSUME RegInv, NEW p \in SC!Params, NEW value, NEW images, value \in images,
           NEW outcome \in SC!Outcomes,
           SC!vmeWrite(p, value, outcome), SC!Told(p, images, outcome)
    PROVE  /\ DOMAIN hw' = SC!Params /\ hw' = [q \in SC!Params |-> hw'[q]]
           /\ DOMAIN possible' = SC!Params /\ possible' = [q \in SC!Params |-> possible'[q]]
           /\ \A q \in SC!Params : hw'[q] \in possible'[q]
           /\ \A q \in SC!Params : q # p => possible'[q] = possible[q]
           /\ outcome = "ok" => possible'[p] = images
           /\ outcome # "ok" => possible[p] \subseteq possible'[p]
<1>1. /\ hw' = IF outcome = "refused" THEN hw ELSE [hw EXCEPT ![p] = value]
      /\ possible' = [possible EXCEPT ![p] = CASE outcome = "ok" -> images
                                          [] outcome = "refused" -> possible[p]
                                          [] OTHER -> possible[p] \cup images]
  BY DEF SC!vmeWrite, SC!Told
<1>2. /\ DOMAIN hw = SC!Params /\ hw = [q \in SC!Params |-> hw[q]]
      /\ DOMAIN possible = SC!Params /\ possible = [q \in SC!Params |-> possible[q]]
      /\ \A q \in SC!Params : hw[q] \in possible[q]
  BY DEF RegInv, RegTypes, Holds
<1>3. CASE outcome = "ok"
  BY <1>1, <1>2, <1>3
<1>4. CASE outcome = "refused"
  BY <1>1, <1>2, <1>4
<1>5. CASE outcome = "unanswered"
  BY <1>1, <1>2, <1>5
<1> QED BY <1>3, <1>4, <1>5 DEF SC!Outcomes

\* Set of a discriminator or of a gate generator
LEMMA RegSet ==
    ASSUME RegInv, NEW p \in SC!Params, NEW v, SC!V812Set(p, v) \/ SC!GDGSet(p, v)
    PROVE  RegInv'
<1>1. CASE SC!V812Set(p, v)
  <2>1. kind = "v812" /\ p \in SC!ParamsOf.v812 /\ UNCHANGED kind
    BY <1>1 DEF SC!V812Set
  <2>2. PICK outcome \in SC!Outcomes :
          /\ SC!vmeWrite(p, SC!AsSet(p, v), outcome)
          /\ SC!Told(p, SC!Images(p, v), outcome)
          /\ shadow' = IF outcome = "ok" THEN [shadow EXCEPT ![p] = v] ELSE shadow
    BY <1>1 DEF SC!V812Set
  <2>3. /\ DOMAIN hw' = SC!Params /\ hw' = [q \in SC!Params |-> hw'[q]]
        /\ DOMAIN possible' = SC!Params /\ possible' = [q \in SC!Params |-> possible'[q]]
        /\ \A q \in SC!Params : hw'[q] \in possible'[q]
        /\ \A q \in SC!Params : q # p => possible'[q] = possible[q]
        /\ outcome = "ok" => possible'[p] = SC!Images(p, v)
        /\ outcome # "ok" => possible[p] \subseteq possible'[p]
    BY <2>2, ImagesOf, ToldWrite
  <2>4. DOMAIN shadow = SC!Params /\ shadow = [q \in SC!Params |-> shadow[q]]
    BY DEF RegInv, RegTypes
  <2>5. DOMAIN shadow' = SC!Params /\ shadow' = [q \in SC!Params |-> shadow'[q]]
    BY <2>2, <2>4
  <2>6. ASSUME NEW q \in SC!ParamsOf.v812 PROVE SC!Images(q, shadow'[q]) \subseteq possible'[q]
    <3>1. q \in SC!Params /\ SC!Images(q, shadow[q]) \subseteq possible[q]
      BY <2>1, KindParams DEF RegInv, Remembers
    <3>2. CASE q # p
      BY <3>1, <3>2, <2>2, <2>3, <2>4
    <3>3. CASE q = p /\ outcome = "ok"
      <4>1. shadow'[q] = v
        BY <3>3, <2>2, <2>4
      <4> QED BY <4>1, <3>3, <2>3
    <3>4. CASE q = p /\ outcome # "ok"
      BY <3>1, <3>4, <2>2, <2>3
    <3> QED BY <3>2, <3>3, <3>4
  <2> QED BY <2>1, <2>3, <2>5, <2>6 DEF RegInv, RegTypes, Holds, Remembers
<1>2. CASE SC!GDGSet(p, v)
  <2>1. kind = "jtecgdg" /\ UNCHANGED kind /\ shadow' = [shadow EXCEPT ![p] = v]
    BY <1>2 DEF SC!GDGSet
  <2>2. PICK outcome \in SC!Outcomes :
          SC!vmeWrite(p, v, outcome) /\ SC!Told(p, {v}, outcome)
    BY <1>2 DEF SC!GDGSet
  <2>3. /\ DOMAIN hw' = SC!Params /\ hw' = [q \in SC!Params |-> hw'[q]]
        /\ DOMAIN possible' = SC!Params /\ possible' = [q \in SC!Params |-> possible'[q]]
        /\ \A q \in SC!Params : hw'[q] \in possible'[q]
    BY <2>2, ToldWrite
  <2>4. DOMAIN shadow' = SC!Params /\ shadow' = [q \in SC!Params |-> shadow'[q]]
    BY <2>1 DEF RegInv, RegTypes
  <2> QED BY <2>1, <2>3, <2>4 DEF RegInv, RegTypes, Holds, Kinds
<1> QED BY <1>1, <1>2

\* CV812::Update(): what is written is one of the images of what is remembered.
LEMMA RegV812Update ==
    ASSUME RegInv, kind = "v812", UNCHANGED kind,
           DOMAIN shadow' = SC!Params, shadow' = [q \in SC!Params |-> shadow'[q]],
           SC!V812Update(shadow'), ~configured' => UNCHANGED shadow
    PROVE  RegInv'
<1>1. CASE ~configured'
  BY <1>1 DEF SC!V812Update, RegInv, RegTypes, Holds, Remembers
<1>2. CASE configured'
  <2> DEFINE P == SC!Params
             D == SC!ParamsOf.v812
  <2>1. PICK failed \in SUBSET D :
          /\ hw' = [p \in P |-> IF p \in D \ failed THEN SC!AsUpdated(p, shadow'[p]) ELSE hw[p]]
          /\ possible' = [p \in P |->
                IF p \notin D THEN possible[p]
                ELSE SC!Images(p, shadow'[p]) \cup (IF p \in failed THEN possible[p] ELSE {})]
    BY <1>2 DEF SC!V812Update
  <2>2. D \subseteq P
    BY KindParams
  <2>3. \A p \in P : hw[p] \in possible[p]
    BY DEF RegInv, Holds
  <2>4. \A p \in P : SC!AsUpdated(p, shadow'[p]) \in SC!Images(p, shadow'[p])
    BY ImagesOf
  <2> HIDE DEF P, D
  <2>5. /\ DOMAIN hw' = P /\ hw' = [q \in P |-> hw'[q]]
        /\ DOMAIN possible' = P /\ possible' = [q \in P |-> possible'[q]]
    BY <2>1
  <2>6. \A p \in P : hw'[p] \in possible'[p]
    BY <2>1, <2>3, <2>4
  <2>7. \A p \in D : SC!Images(p, shadow'[p]) \subseteq possible'[p]
    BY <2>1, <2>2
  <2>8. kind' \in Kinds
    BY DEF RegInv, RegTypes
  <2> QED BY <2>5, <2>6, <2>7, <2>8 DEF RegInv, RegTypes, Holds, Remembers, P, D
<1> QED BY <1>1, <1>2

LEMMA RegGDGUpdate ==
    ASSUME RegInv, kind = "jtecgdg", UNCHANGED kind, SC!GDGUpdate
    PROVE  RegInv'
<1>1. UNCHANGED <<hw, possible>>
  BY DEF SC!GDGUpdate
<1>2. PICK failed \in SUBSET SC!ParamsOf.jtecgdg :
        shadow' = [p \in SC!Params |-> IF p \in SC!ParamsOf.jtecgdg \ failed
                                       THEN hw[p] ELSE shadow[p]]
  BY DEF SC!GDGUpdate
<1>3. DOMAIN shadow' = SC!Params /\ shadow' = [q \in SC!Params |-> shadow'[q]]
  BY <1>2
<1> QED BY <1>1, <1>3 DEF RegInv, RegTypes, Holds, Kinds

\* Steps that leave the registers alone
LEMMA RegUnchanged ==
    ASSUME RegInv, UNCHANGED <<kind, hw, shadow, possible>>
    PROVE  RegInv'
BY DEF RegInv, RegTypes, Holds, Remembers

LEMMA RegCreate ==
    ASSUME RegInv, NEW type \in {"v812", "jtecgdg", "mxdcrcbus"}, SC!create(type)
    PROVE  RegInv'
<1>1. kind = "none" /\ kind' = type /\ UNCHANGED <<hw, shadow>>
      /\ possible' = [p \in SC!Params |-> IF type = "v812" /\ p \in SC!ParamsOf.v812
                                     THEN possible[p] \cup SC!Images(p, shadow[p])
                                     ELSE possible[p]]
  BY DEF SC!create
<1>2. DOMAIN possible' = SC!Params /\ possible' = [q \in SC!Params |-> possible'[q]]
  BY <1>1
<1>3. \A p \in SC!Params : hw'[p] \in possible'[p]
  BY <1>1 DEF RegInv, Holds
<1>4. type = "v812" => \A p \in SC!ParamsOf.v812 : SC!Images(p, shadow'[p]) \subseteq possible'[p]
  BY <1>1, KindParams
<1> QED BY <1>1, <1>2, <1>3, <1>4 DEF RegInv, RegTypes, Holds, Remembers, Kinds

\* Module config and Update
LEMMA RegReconfigure ==
    ASSUME RegInv, UNCHANGED kind, SC!reconfigure PROVE RegInv'
<1>1. CASE kind = "v812"
  <2>1. SC!V812Reconfigure
    BY <1>1 DEF SC!reconfigure
  <2>2. shadow' = IF configured' THEN SC!configFileToShadow ELSE shadow
    BY <2>1 DEF SC!V812Reconfigure
  <2>3. DOMAIN shadow = SC!Params /\ shadow = [q \in SC!Params |-> shadow[q]]
    BY DEF RegInv, RegTypes
  <2>4. DOMAIN shadow' = SC!Params /\ shadow' = [q \in SC!Params |-> shadow'[q]]
    BY <2>2, <2>3 DEF SC!configFileToShadow
  <2>5. SC!V812Update(shadow') /\ (~configured' => UNCHANGED shadow)
    BY <2>1, <2>2 DEF SC!V812Reconfigure
  <2> QED BY <1>1, <2>4, <2>5, RegV812Update
<1>2. CASE kind = "jtecgdg"
  <2>1. SC!GDGUpdate
    BY <1>2 DEF SC!reconfigure
  <2> QED BY <1>2, <2>1, RegGDGUpdate
<1>3. CASE kind \in {"none", "mxdcrcbus"}
  <2>1. UNCHANGED SC!regVars
    BY <1>3 DEF SC!reconfigure
  <2> QED BY <2>1, RegUnchanged DEF SC!regVars
<1> QED BY <1>1, <1>2, <1>3 DEF RegInv, RegTypes, Kinds

LEMMA RegUpdate == ASSUME RegInv, SC!Update PROVE RegInv'
<1>1. UNCHANGED kind
  BY DEF SC!Update
<1>2. CASE kind = "v812"
  <2>1. SC!V812Update(shadow) /\ UNCHANGED shadow
    BY <1>2 DEF SC!Update
  <2>2. SC!V812Update(shadow')
    BY <2>1
  <2>3. DOMAIN shadow' = SC!Params /\ shadow' = [q \in SC!Params |-> shadow'[q]]
    BY <2>1 DEF RegInv, RegTypes
  <2> QED BY <1>1, <1>2, <2>1, <2>2, <2>3, RegV812Update
<1>3. CASE kind = "jtecgdg"
  <2>1. SC!GDGUpdate
    BY <1>3 DEF SC!Update
  <2> QED BY <1>1, <1>3, <2>1, RegGDGUpdate
<1>4. CASE kind \in {"none", "mxdcrcbus"}
  <2>1. UNCHANGED SC!regVars
    BY <1>4 DEF SC!Update
  <2> QED BY <1>1, <2>1, RegUnchanged DEF SC!regVars
<1> QED BY <1>2, <1>3, <1>4 DEF RegInv, RegTypes, Kinds

LEMMA RegStep == RegInv /\ [SC!Next]_slowVars => RegInv'
<1> SUFFICES ASSUME RegInv, [SC!Next]_slowVars PROVE RegInv'
  OBVIOUS
<1>1. ASSUME NEW type \in {"v812", "jtecgdg", "mxdcrcbus"}, SC!create(type) PROVE RegInv'
  BY <1>1, RegCreate
<1>2. ASSUME NEW options, SC!configure(options) PROVE RegInv'
  <2>1. UNCHANGED kind /\ (UNCHANGED <<SC!regVars, faults>> \/ SC!reconfigure)
    BY <1>2 DEF SC!configure
  <2> QED BY <2>1, RegUnchanged, RegReconfigure DEF SC!regVars
<1>3. CASE SC!Update
  BY <1>3, RegUpdate
<1>4. ASSUME NEW p \in SC!Params, NEW v, SC!V812Set(p, v) \/ SC!GDGSet(p, v) PROVE RegInv'
  BY <1>4, RegSet
<1>5. ASSUME NEW p \in SC!Params, SC!GDGGet(p) PROVE RegInv'
  <2>1. kind = "jtecgdg" /\ UNCHANGED <<kind, hw, possible>> /\ shadow' = [shadow EXCEPT ![p] = hw[p]]
    BY <1>5 DEF SC!GDGGet
  <2>2. DOMAIN shadow' = SC!Params /\ shadow' = [q \in SC!Params |-> shadow'[q]]
    BY <2>1 DEF RegInv, RegTypes
  <2> QED BY <2>1, <2>2 DEF RegInv, RegTypes, Holds, Kinds
<1>6. CASE SC!RcAttempt
  BY <1>6, RegUnchanged DEF SC!RcAttempt, SC!regVars
<1>7. ASSUME NEW op, NEW a, NEW v, SC!RcStart(op, a, v) PROVE RegInv'
  BY <1>7, RegUnchanged DEF SC!RcStart, SC!regVars
<1>8. CASE UNCHANGED slowVars
  BY <1>8, RegUnchanged DEF slowVars
<1> QED BY <1>1, <1>2, <1>3, <1>4, <1>5, <1>6, <1>7, <1>8 DEF SC!Next

LEMMA RegistersTold == RegInv => SC!AcknowledgedStands
BY KindParams DEF RegInv, RegTypes, Holds, Remembers, SC!AcknowledgedStands

-----------------------------------------------------------------------------
(***************************************************************************)
(* The bus behind a mesytec module                                         *)
(***************************************************************************)
RcCommands == [op : {"read", "write"}, addr : SC!Addrs, data : Nat, attempts : Nat]
RcInv ==
    /\ DOMAIN dev = SC!Addrs /\ dev = [a \in SC!Addrs |-> dev[a]]
    /\ DOMAIN rcPossible = SC!Addrs /\ rcPossible = [a \in SC!Addrs |-> rcPossible[a]]
    /\ hidden \in BOOLEAN
    /\ rcCmd # <<>> => rcCmd[1] \in RcCommands /\ rcRead = <<>>
    /\ SC!RcBusTrue

LEMMA RcInit == SC!Init => RcInv
BY DEF SC!Init, RcInv, SC!RcBusTrue

LEMMA RcAttemptTrue == ASSUME RcInv, SC!RcAttempt PROVE RcInv'
<1>1. rcCmd # <<>> /\ rcCmd[1] \in RcCommands /\ rcRead = <<>>
  BY DEF SC!RcAttempt, RcInv
<1>2. PICK c \in RcCommands, refused \in SUBSET (1 .. 4),
           bus \in {"ok", "collision", "noresponse"}, polled \in BOOLEAN :
        SC!RcTransaction(c, refused, bus, polled)
  BY <1>1 DEF SC!RcAttempt
<1> DEFINE values == IF c.op = "write" THEN [rcPossible EXCEPT ![c.addr] = @ \cup {c.data}]
                     ELSE rcPossible
           thrown == refused \cap SC!Checked(c.op) # {}
           opcode == IF 2 \in refused THEN rc.opcode ELSE c.op
           addr == IF 3 \in refused THEN rc.addr ELSE c.addr
           sent == IF c.op = "write" THEN c.data ELSE 0
           started == ~thrown /\ 4 \notin refused
           done0 == started /\ bus = "ok" /\ opcode # "none"
           store == [dev EXCEPT ![addr] = IF done0 /\ opcode = "write" THEN sent ELSE @]
           data == IF done0 THEN store[addr] ELSE IF started THEN sent ELSE rc.data
           status == IF started THEN bus ELSE rc.status
<1>3. hidden' = (hidden \/ (refused # {} /\ ~thrown)) /\ dev' = store
  BY <1>2 DEF SC!RcTransaction
<1>4. \/ SC!RcGivesUp /\ rcPossible' = values
      \/ ~(thrown \/ ~polled) /\ ~SC!responseIndicatesError(status) /\ SC!RcAnswers(c, data, values)
      \/ /\ rcCmd' = <<[c EXCEPT !.attempts = @ + 1]>>
         /\ rcPossible' = values /\ UNCHANGED rcRead
  BY <1>2 DEF SC!RcTransaction
<1>5. c.op \in {"read", "write"} /\ c.addr \in SC!Addrs /\ c.data \in Nat /\ c.attempts \in Nat
  BY <1>1 DEF RcCommands
<1>6. /\ DOMAIN dev = SC!Addrs /\ dev = [a \in SC!Addrs |-> dev[a]]
      /\ DOMAIN rcPossible = SC!Addrs /\ rcPossible = [a \in SC!Addrs |-> rcPossible[a]]
      /\ hidden \in BOOLEAN
      /\ ~hidden => \A a \in SC!Addrs : dev[a] \in rcPossible[a]
  BY DEF RcInv, SC!RcBusTrue
<1>7. DOMAIN dev' = SC!Addrs /\ dev' = [a \in SC!Addrs |-> dev'[a]] /\ hidden' \in BOOLEAN
  BY <1>3, <1>6
<1>8. /\ DOMAIN values = SC!Addrs /\ values = [a \in SC!Addrs |-> values[a]]
      /\ \A a \in SC!Addrs : rcPossible[a] \subseteq values[a]
      /\ c.op = "write" => c.data \in values[c.addr]
  BY <1>5, <1>6
<1>9. c.op = "write" => /\ DOMAIN [rcPossible EXCEPT ![c.addr] = {c.data}] = SC!Addrs
                        /\ [rcPossible EXCEPT ![c.addr] = {c.data}]
                             = [a \in SC!Addrs |-> [rcPossible EXCEPT ![c.addr] = {c.data}][a]]
                        /\ \A a \in SC!Addrs : [rcPossible EXCEPT ![c.addr] = {c.data}][a]
                             = IF a = c.addr THEN {c.data} ELSE rcPossible[a]
  BY <1>5, <1>6
<1> HIDE DEF values
<1>10. DOMAIN rcPossible' = SC!Addrs /\ rcPossible' = [a \in SC!Addrs |-> rcPossible'[a]]
  BY <1>4, <1>8, <1>9 DEF SC!RcAnswers
<1>11. rcCmd' # <<>> => rcCmd'[1] \in RcCommands /\ rcRead' = <<>>
  <2>1. [c EXCEPT !.attempts = @ + 1] \in RcCommands
    BY <1>1, <1>5 DEF RcCommands
  <2> QED BY <2>1, <1>1, <1>4 DEF SC!RcGivesUp, SC!RcAnswers
\* With no write refused the transaction is the one asked for; with one refused
\* and noticed there is none.
<1>12. ~hidden' => ~hidden /\ (thrown \/ refused = {})
  BY <1>3
<1>13. ASSUME ~hidden' PROVE
         \/ thrown /\ dev' = dev
         \/ /\ ~thrown /\ c.op = "write" /\ status = bus
            /\ dev' = [dev EXCEPT ![c.addr] = IF bus = "ok" THEN c.data ELSE @]
         \/ /\ ~thrown /\ c.op = "read" /\ dev' = dev /\ status = bus
            /\ bus = "ok" => data = dev[c.addr]
  <2>1. CASE thrown
    BY <2>1, <1>3, <1>6
  <2>2. CASE ~thrown
    <3>0. refused = {}
      BY <2>2, <1>12, <1>13
    <3>1. started /\ opcode = c.op /\ addr = c.addr /\ status = bus
      BY <3>0, <2>2
    <3>2. CASE c.op = "write"
      BY <3>1, <3>2, <2>2, <1>3, <1>6
    <3>3. CASE c.op = "read"
      <4>1. store = dev
        BY <3>1, <3>3, <1>6
      <4>2. dev' = dev
        BY <4>1, <1>3
      <4>3. bus = "ok" => data = dev[c.addr]
        <5>1. c.op # "none"
          BY <3>3
        <5>2. bus = "ok" => done0
          BY <5>1, <3>1
        <5> QED BY <5>2, <4>1, <3>1
      <4> QED BY <4>2, <4>3, <3>1, <3>3, <2>2
    <3> QED BY <3>2, <3>3, <1>5
  <2> QED BY <2>1, <2>2
<1> HIDE DEF thrown, data, status, store
<1>14. ASSUME ~hidden', NEW a \in SC!Addrs PROVE dev'[a] \in rcPossible'[a]
  <2>1. dev[a] \in rcPossible[a] /\ dev[a] \in values[a]
    BY <1>6, <1>8, <1>12, <1>14
  <2>2. dev'[a] \in values[a]
    <3>1. CASE dev' = dev
      BY <3>1, <2>1
    <3>2. CASE c.op = "write" /\ dev' = [dev EXCEPT ![c.addr] = IF bus = "ok" THEN c.data ELSE @]
      BY <3>2, <2>1, <1>5, <1>6, <1>8
    <3> QED BY <3>1, <3>2, <1>13, <1>14
  <2>3. CASE rcPossible' = values
    BY <2>2, <2>3
  <2>4. CASE rcPossible' # values
    <3>1. /\ ~thrown /\ ~SC!responseIndicatesError(status) /\ c.op = "write"
          /\ rcPossible' = [rcPossible EXCEPT ![c.addr] = {c.data}]
      BY <2>4, <1>4 DEF SC!RcAnswers
    <3>2. bus = "ok" /\ dev' = [dev EXCEPT ![c.addr] = c.data]
      BY <3>1, <1>13, <1>14 DEF SC!responseIndicatesError
    <3> QED BY <3>1, <3>2, <2>1, <1>5, <1>6
  <2> QED BY <2>3, <2>4
<1>15. ASSUME ~hidden', rcRead' # <<>> PROVE rcRead'[2] = dev'[rcRead'[1]]
  <2>1. ~thrown /\ ~SC!responseIndicatesError(status) /\ SC!RcAnswers(c, data, values)
    BY <1>15, <1>1, <1>4 DEF SC!RcGivesUp
  <2>2. c.op = "read" /\ rcRead' = <<c.addr, data>>
    BY <2>1, <1>15, <1>5 DEF SC!RcAnswers
  <2>3. bus = "ok" /\ dev' = dev /\ data = dev[c.addr]
    BY <2>1, <2>2, <1>13, <1>15 DEF SC!responseIndicatesError
  <2> QED BY <2>2, <2>3
<1> QED BY <1>7, <1>10, <1>11, <1>14, <1>15 DEF RcInv, SC!RcBusTrue

LEMMA RcUnchanged == ASSUME RcInv, UNCHANGED SC!rcVars PROVE RcInv'
BY DEF RcInv, SC!RcBusTrue, SC!rcVars

LEMMA RcStep == RcInv /\ [SC!Next]_slowVars => RcInv'
<1> SUFFICES ASSUME RcInv, [SC!Next]_slowVars PROVE RcInv'
  OBVIOUS
<1>1. ASSUME NEW type, SC!create(type) PROVE RcInv'
  BY <1>1, RcUnchanged DEF SC!create
<1>2. ASSUME NEW options, SC!configure(options) PROVE RcInv'
  BY <1>2, RcUnchanged DEF SC!configure
<1>3. CASE SC!Update
  BY <1>3, RcUnchanged DEF SC!Update
<1>4. ASSUME NEW p, NEW v, SC!V812Set(p, v) \/ SC!GDGSet(p, v) PROVE RcInv'
  BY <1>4, RcUnchanged DEF SC!V812Set, SC!GDGSet
<1>5. ASSUME NEW p, SC!GDGGet(p) PROVE RcInv'
  BY <1>5, RcUnchanged DEF SC!GDGGet
<1>6. CASE SC!RcAttempt
  BY <1>6, RcAttemptTrue
<1>7. ASSUME NEW op \in {"read", "write"}, NEW a \in SC!Addrs, NEW v \in Nat, SC!RcStart(op, a, v)
      PROVE  RcInv'
  <2>1. /\ UNCHANGED <<dev, rcPossible, hidden>> /\ rcRead' = <<>>
        /\ rcCmd' = <<[op |-> op, addr |-> a, data |-> v, attempts |-> 0]>>
    BY <1>7 DEF SC!RcStart
  <2>2. rcCmd'[1] \in RcCommands
    BY <2>1 DEF RcCommands
  <2> QED BY <2>1, <2>2 DEF RcInv, SC!RcBusTrue
<1>8. CASE UNCHANGED slowVars
  BY <1>8, RcUnchanged DEF slowVars, SC!rcVars
<1>9. {1, 2} \subseteq Nat /\ 0 \in Nat
  OBVIOUS
<1>10. CASE SC!Next
  <2>1. CASE (\E a \in SC!Addrs, v \in {1, 2} : SC!RcStart("write", a, v))
             \/ (\E a \in SC!Addrs : SC!RcStart("read", a, 0))
    BY <2>1, <1>7, <1>9
  <2> QED BY <2>1, <1>1, <1>2, <1>3, <1>4, <1>5, <1>6, <1>10 DEF SC!Next
<1> QED BY <1>8, <1>10

-----------------------------------------------------------------------------
(***************************************************************************)
(* The high voltage supply                                                 *)
(***************************************************************************)
HvCommands == HV!Params \cup {"mon"}
ShownSettings == HV!Settings \ {"ttrip"}

HvTypes ==
    /\ hvReg \in [HV!Registers -> Int] /\ m_mon \in [HV!Members -> Int]
    /\ hvAsked \in [HV!Settings \X HV!Channels -> SUBSET Int]

\* Every setting is shown as it was asked for.
SettingsTrue ==
    \A p \in ShownSettings, c \in HV!Channels :
        HV!Shown(p, p, hvReg[<<p, c>>]) \in hvAsked[<<p, c>>]

\* What a command under way has read of register q, as its answer will show it
Seen(values, k, q) == IF q \in HV!Members THEN m_mon[q] ELSE values[k]

CommandTrue(c) ==
    /\ c.command \in HvCommands /\ c.read \in Seq(Int)
    /\ Len(c.read) < Len(HV!Reads(c.command))
    /\ hvHeld \in [HV!Registers -> SUBSET Int]
    /\ \A r \in HV!Registers : hvReg[r] \in hvHeld[r]
    /\ c.command # "ttrip" => \A k \in 1 .. Len(c.read) :
         Seen(c.read, k, HV!Reads(c.command)[k]) \in hvHeld[HV!Reads(c.command)[k]]
    /\ c.command \in ShownSettings => \A k \in 1 .. Len(c.read) :
         c.read[k] = hvReg[<<c.command, k>>]

HvInv ==
    /\ HvTypes /\ SettingsTrue
    /\ hvCmd # <<>> => hvAnswer = <<>> /\ CommandTrue(hvCmd[1])
    /\ HV!FreshAnswer /\ HV!SettingShownAsAsked

LEMMA MonReads ==
    /\ HV!Reads("mon") \in Seq(HV!Registers) /\ Len(HV!Reads("mon")) > 0
<1> DEFINE n == NChannels
           rest == [k \in 1 .. 4 * n |-> <<HV!ChannelReads[((k - 1) % 4) + 1], ((k - 1) \div 4) + 1>>]
<1>1. n \in Nat \ {0}
  BY SupplyAssumption
<1>2. ASSUME NEW k \in 1 .. 4 * n PROVE rest[k] \in HV!Registers
  <2>1. (k - 1) % 4 \in 0..3 /\ ((k - 1) \div 4) + 1 \in 1..n
    BY <1>1
  <2>2. ((k - 1) % 4) + 1 \in 1..4
    BY <2>1
  <2>3. \A j \in 1..4 : HV!ChannelReads[j] \in HV!Monitored
    BY DEF HV!ChannelReads, HV!Monitored
  <2>4. <<HV!ChannelReads[((k - 1) % 4) + 1], ((k - 1) \div 4) + 1>>
          \in (HV!Settings \cup HV!Monitored) \X HV!Channels
    <3> DEFINE a == HV!ChannelReads[((k - 1) % 4) + 1]
               b == ((k - 1) \div 4) + 1
    <3>1. a \in HV!Monitored /\ b \in HV!Channels
      BY <2>1, <2>2, <2>3 DEF HV!Channels
    <3> HIDE DEF a, b
    <3>2. <<a, b>> \in (HV!Settings \cup HV!Monitored) \X HV!Channels
      BY <3>1
    <3> QED BY <3>2 DEF a, b
  <2> QED BY <2>4 DEF HV!Registers
<1>3. rest \in Seq(HV!Registers)
  BY <1>1, <1>2
<1> DEFINE first == <<<<"globalstatus", HV!Board>>>>
<1>4. first \in Seq(HV!Registers) /\ Len(first) = 1
  <2>1. <<"globalstatus", HV!Board>> \in HV!Registers
    BY DEF HV!Registers, HV!Board
  <2> QED BY <2>1
<1>5. HV!Reads("mon") = first \o rest
  BY DEF HV!Reads
<1> HIDE DEF first, rest
<1>6. first \o rest \in Seq(HV!Registers)
      /\ Len(first \o rest) = 1 + Len(rest) /\ Len(rest) \in Nat
  <2>1. first \in Seq(HV!Registers) /\ rest \in Seq(HV!Registers)
    BY <1>3, <1>4
  <2>2. first \o rest \in Seq(HV!Registers) /\ Len(first \o rest) = Len(first) + Len(rest)
        /\ Len(rest) \in Nat
    BY <2>1
  <2> QED BY <2>2, <1>4
<1>7. Len(first \o rest) > 0
  BY <1>6
<1> QED BY <1>5, <1>6, <1>7

\* What Get reads of the channels
LEMMA GetReads ==
    ASSUME NEW command \in HV!Settings \cup HV!Monitored
    PROVE  /\ HV!Reads(command) \in Seq(HV!Registers)
           /\ Len(HV!Reads(command)) = NChannels
           /\ \A k \in HV!Channels : HV!Reads(command)[k] = <<command, k>>
<1>1. HV!Reads(command) = [k \in 1 .. NChannels |-> <<command, k>>]
  BY DEF HV!Reads, HV!Settings, HV!Monitored, HV!Globals, HV!Channels
<1>2. \A k \in 1 .. NChannels : <<command, k>> \in HV!Registers
  BY DEF HV!Registers, HV!Channels
<1> QED BY <1>1, <1>2, SupplyAssumption DEF HV!Channels

LEMMA ReadsTyped ==
    ASSUME NEW command \in HvCommands
    PROVE  HV!Reads(command) \in Seq(HV!Registers) /\ Len(HV!Reads(command)) > 0
<1>1. CASE command = "mon"
  BY <1>1, MonReads
<1>2. CASE command \in HV!Globals
  <2>1. HV!Reads(command) = <<<<command, HV!Board>>>>
    BY <1>2 DEF HV!Reads, HV!Globals
  <2>2. <<command, HV!Board>> \in HV!Registers
    BY <1>2 DEF HV!Registers
  <2> QED BY <2>1, <2>2
<1>3. CASE command \in HV!Settings \cup HV!Monitored
  BY <1>3, GetReads, SupplyAssumption
<1> QED BY <1>1, <1>2, <1>3 DEF HvCommands, HV!Params

\* Only the trip times are read unchecked.
LEMMA ReadsChecked ==
    ASSUME NEW command \in HvCommands, command # "ttrip",
           NEW k \in 1 .. Len(HV!Reads(command))
    PROVE  HV!StatusChecked(HV!Reads(command)[k][1])
<1>1. CASE command = "mon"
  <2> DEFINE n == NChannels
             first == <<<<"globalstatus", HV!Board>>>>
             rest == [j \in 1 .. 4 * n |->
                        <<HV!ChannelReads[((j - 1) % 4) + 1], ((j - 1) \div 4) + 1>>]
             A == {<<"globalstatus", HV!Board>>} \cup (HV!Monitored \X Int)
  <2>1. HV!Reads(command) = first \o rest
    BY <1>1 DEF HV!Reads
  <2>2. first \in Seq(A)
    OBVIOUS
  <2>3. ASSUME NEW j \in 1 .. 4 * n PROVE rest[j] \in A
    <3>1. (j - 1) % 4 \in 0..3 /\ ((j - 1) \div 4) + 1 \in Int
      BY SupplyAssumption
    <3>2. ((j - 1) % 4) + 1 \in 1..4
      BY <3>1
    <3>3. \A i \in 1..4 : HV!ChannelReads[i] \in HV!Monitored
      BY DEF HV!ChannelReads, HV!Monitored
    <3>4. HV!ChannelReads[((j - 1) % 4) + 1] \in HV!Monitored
      BY <3>2, <3>3
    <3> QED BY <3>1, <3>4
  <2>4. rest \in Seq(A)
    BY <2>3, SupplyAssumption
  <2> HIDE DEF first, rest, A
  <2>5. first \o rest \in Seq(A)
    BY <2>2, <2>4
  <2>6. HV!Reads(command)[k] \in A
    BY <2>1, <2>5
  <2>7. \A q \in A : q[1] # "ttrip"
    BY DEF A, HV!Monitored
  <2> QED BY <2>6, <2>7 DEF HV!StatusChecked
<1>2. CASE command \in HV!Globals
  <2>1. HV!Reads(command) = <<<<command, HV!Board>>>>
    BY <1>2 DEF HV!Reads, HV!Globals
  <2>2. k = 1
    BY <2>1
  <2> QED BY <2>1, <2>2, <1>2 DEF HV!StatusChecked
<1>3. CASE command \in HV!Settings \cup HV!Monitored
  <2>1. HV!Reads(command)[k] = <<command, k>>
    BY <1>3, GetReads, SupplyAssumption DEF HV!Channels
  <2> QED BY <2>1 DEF HV!StatusChecked
<1> QED BY <1>1, <1>2, <1>3 DEF HvCommands, HV!Params

LEMMA SettingRegisters ==
    /\ HV!Settings \X HV!Channels \subseteq HV!Registers
    /\ HV!Monitored \X HV!Channels \subseteq HV!Registers
    /\ HV!Members \subseteq HV!Registers
    /\ \A p \in HV!Settings, c \in HV!Channels : <<p, c>> \notin HV!Members
    /\ \A p \in HV!Settings, q \in HV!Monitored : p # q
<1>1. \A p \in HV!Settings, q \in HV!Monitored : p # q
  BY DEF HV!Settings, HV!Monitored
<1>2. "globalstatus" \notin HV!Settings
  BY DEF HV!Settings
<1>3. \A p \in HV!Settings, c \in HV!Channels : <<p, c>> \notin HV!Members
  BY <1>1, <1>2 DEF HV!Members
<1>4. HV!Members \subseteq HV!Registers
  BY DEF HV!Members, HV!Registers
<1> QED BY <1>1, <1>3, <1>4 DEF HV!Registers

\* A value asked for is shown again as it was written to a register.
LEMMA ShownAsWritten ==
    ASSUME NEW p \in ShownSettings, NEW value \in HV!Asked \cup {0, 1},
           p \in {"on", "pdownmode"} <=> value = 1
    PROVE  HV!Raw(p, value) \in Int /\ HV!Shown(p, p, HV!Raw(p, value)) = value
<1>1. p \in {"v", "i", "on", "svmax", "rdown", "rup", "pdownmode"} /\ value \in {40, 0, 1}
  BY DEF HV!Asked, ShownSettings, HV!Settings
<1>2. CASE p \in {"v", "svmax"}
  BY <1>1, <1>2 DEF HV!Raw, HV!Shown
<1>3. CASE p = "i"
  BY <1>1, <1>3 DEF HV!Raw, HV!Shown
<1>4. CASE p \in {"rdown", "rup"}
  BY <1>1, <1>4 DEF HV!Raw, HV!Shown
<1>5. CASE p \in {"on", "pdownmode"}
  BY <1>1, <1>5 DEF HV!Raw, HV!Shown
<1> QED BY <1>1, <1>2, <1>3, <1>4, <1>5

LEMMA HvStart == HV!HvInit => HvInv
<1> SUFFICES ASSUME HV!HvInit PROVE HvInv
  OBVIOUS
<1>1. HvTypes
  BY DEF HV!HvInit, HvTypes, HV!Garbage
<1>2. ASSUME NEW p \in ShownSettings, NEW c \in HV!Channels
      PROVE  HV!Shown(p, p, hvReg[<<p, c>>]) \in hvAsked[<<p, c>>]
  <2>1. <<p, c>> \in HV!Settings \X HV!Channels
    BY DEF ShownSettings
  <2>2. hvReg[<<p, c>>] = 0 /\ hvAsked[<<p, c>>] = {0}
    BY <2>1, SettingRegisters DEF HV!HvInit
  <2>3. HV!Shown(p, p, 0) = 0
    BY DEF HV!Shown
  <2> QED BY <2>2, <2>3
<1> QED BY <1>1, <1>2 DEF HV!HvInit, HvInv, SettingsTrue, HV!FreshAnswer, HV!SettingShownAsAsked

\* A step between commands that drops the answer: only the settings matter.
LEMMA HvQuiet ==
    ASSUME HvTypes', SettingsTrue', hvCmd' = <<>>, hvAnswer' = <<>>
    PROVE  HvInv'
BY DEF HvInv, HV!FreshAnswer, HV!SettingShownAsAsked

LEMMA HvSet ==
    ASSUME HvInv, NEW p \in HV!Settings \ {"i"}, NEW c \in HV!Channels, NEW value \in HV!Asked,
           HV!Set(p, c, value)
    PROVE  HvInv'
<1> DEFINE r == <<p, c>>
           v == IF p \in {"on", "pdownmode"} /\ value # 0 THEN 1 ELSE value
<1>1. hvCmd' = <<>> /\ hvAnswer' = <<>> /\ UNCHANGED m_mon
  BY DEF HV!Set
<1>2. PICK done0 \in BOOLEAN : HV!Write(r, v, done0)
  BY DEF HV!Set
<1>3. r \in HV!Settings \X HV!Channels /\ r \in HV!Registers /\ r[1] = p
  BY SettingRegisters
<1>4. HvTypes /\ SettingsTrue
  BY DEF HvInv
<1>5. v \in Int /\ HV!Raw(p, v) \in Int
  BY DEF HV!Asked, HV!Raw
<1>6. p # "ttrip" => HV!Shown(p, p, HV!Raw(p, v)) = v
  BY ShownAsWritten DEF HV!Asked, ShownSettings
<1> HIDE DEF v
<1>7. /\ hvReg' = [hvReg EXCEPT ![r] = IF done0 THEN HV!Raw(p, v) ELSE @]
      /\ hvAsked' = [hvAsked EXCEPT ![r] = IF done0 THEN {v} ELSE @]
  BY <1>2, <1>3 DEF HV!Write
<1>8. HvTypes'
  BY <1>1, <1>3, <1>4, <1>5, <1>7 DEF HvTypes
<1>9. ASSUME NEW q \in ShownSettings, NEW d \in HV!Channels
      PROVE  HV!Shown(q, q, hvReg'[<<q, d>>]) \in hvAsked'[<<q, d>>]
  <2>1. HV!Shown(q, q, hvReg[<<q, d>>]) \in hvAsked[<<q, d>>]
    BY <1>4 DEF SettingsTrue
  <2>2. <<q, d>> \in HV!Settings \X HV!Channels /\ <<q, d>> \in HV!Registers
    BY SettingRegisters DEF ShownSettings
  <2>3. CASE <<q, d>> = r /\ done0
    <3>1. q = p
      BY <2>3
    <3>2. hvReg'[<<q, d>>] = HV!Raw(p, v) /\ hvAsked'[<<q, d>>] = {v}
      BY <2>2, <2>3, <1>4, <1>7 DEF HvTypes
    <3> QED BY <3>1, <3>2, <1>6 DEF ShownSettings
  <2>4. CASE ~(<<q, d>> = r /\ done0)
    <3>1. hvReg'[<<q, d>>] = hvReg[<<q, d>>] /\ hvAsked'[<<q, d>>] = hvAsked[<<q, d>>]
      BY <2>2, <2>4, <1>4, <1>7 DEF HvTypes
    <3> QED BY <3>1, <2>1
  <2> QED BY <2>3, <2>4
<1> QED BY <1>1, <1>8, <1>9, HvQuiet DEF SettingsTrue

LEMMA HvSetCurrent ==
    ASSUME HvInv, NEW c \in HV!Channels, NEW value \in HV!Asked, HV!SetCurrent(c, value)
    PROVE  HvInv'
<1> DEFINE r == <<"i", c>>
<1>1. hvCmd' = <<>> /\ hvAnswer' = <<>> /\ UNCHANGED m_mon
  BY DEF HV!SetCurrent
<1>2. PICK raw \in {hvReg[r], 0, HV!Raw("i", value)} :
        /\ hvReg' = [hvReg EXCEPT ![r] = raw]
        /\ hvAsked' = [hvAsked EXCEPT ![r] = @ \cup {0, value}]
  BY DEF HV!SetCurrent
<1>3. r \in HV!Settings \X HV!Channels /\ r \in HV!Registers
  BY SettingRegisters DEF HV!Settings
<1>4. HvTypes /\ SettingsTrue
  BY DEF HvInv
<1>5. value \in Int /\ HV!Raw("i", value) = value
  BY DEF HV!Asked, HV!Raw
<1>6. raw \in Int
  BY <1>3, <1>4, <1>5 DEF HvTypes
<1>7. HvTypes'
  BY <1>1, <1>2, <1>3, <1>4, <1>5, <1>6 DEF HvTypes
<1>8. \A x : HV!Shown("i", "i", x) = x
  BY DEF HV!Shown
<1>9. ASSUME NEW q \in ShownSettings, NEW d \in HV!Channels
      PROVE  HV!Shown(q, q, hvReg'[<<q, d>>]) \in hvAsked'[<<q, d>>]
  <2>1. HV!Shown(q, q, hvReg[<<q, d>>]) \in hvAsked[<<q, d>>]
    BY <1>4 DEF SettingsTrue
  <2>2. <<q, d>> \in HV!Settings \X HV!Channels /\ <<q, d>> \in HV!Registers
    BY SettingRegisters DEF ShownSettings
  <2>3. CASE <<q, d>> = r
    <3>1. q = "i"
      BY <2>3
    <3>2. hvReg'[<<q, d>>] = raw /\ hvAsked'[<<q, d>>] = hvAsked[<<q, d>>] \cup {0, value}
      BY <2>2, <2>3, <1>2, <1>4 DEF HvTypes
    <3>3. raw \in hvAsked[<<q, d>>] \cup {0, value}
      BY <3>1, <2>1, <2>3, <1>2, <1>5, <1>8
    <3> QED BY <3>1, <3>2, <3>3, <1>8
  <2>4. CASE <<q, d>> # r
    <3>1. hvReg'[<<q, d>>] = hvReg[<<q, d>>] /\ hvAsked'[<<q, d>>] = hvAsked[<<q, d>>]
      BY <2>2, <2>4, <1>2, <1>4 DEF HvTypes
    <3> QED BY <3>1, <2>1
  <2> QED BY <2>3, <2>4
<1> QED BY <1>1, <1>7, <1>9, HvQuiet DEF SettingsTrue

LEMMA HvReconfigure == ASSUME HvInv, HV!reconfigure PROVE HvInv'
<1>1. hvCmd' = <<>> /\ hvAnswer' = <<>> /\ UNCHANGED m_mon
  BY DEF HV!reconfigure
<1>2. PICK zeroed \in SUBSET ({"v", "on"} \X HV!Channels) :
        /\ hvReg' = [r \in HV!Registers |-> IF r \in zeroed THEN 0 ELSE hvReg[r]]
        /\ hvAsked' = [r \in DOMAIN hvAsked |-> IF r \in zeroed THEN {0} ELSE hvAsked[r]]
  BY DEF HV!reconfigure
<1>4. HvTypes /\ SettingsTrue
  BY DEF HvInv
<1>5. HvTypes'
  BY <1>1, <1>2, <1>4 DEF HvTypes
<1>9. ASSUME NEW q \in ShownSettings, NEW d \in HV!Channels
      PROVE  HV!Shown(q, q, hvReg'[<<q, d>>]) \in hvAsked'[<<q, d>>]
  <2>1. HV!Shown(q, q, hvReg[<<q, d>>]) \in hvAsked[<<q, d>>]
    BY <1>4 DEF SettingsTrue
  <2>2. <<q, d>> \in HV!Settings \X HV!Channels /\ <<q, d>> \in HV!Registers
    BY SettingRegisters DEF ShownSettings
  <2>3. CASE <<q, d>> \in zeroed
    <3>1. hvReg'[<<q, d>>] = 0 /\ hvAsked'[<<q, d>>] = {0}
      BY <2>2, <2>3, <1>2, <1>4 DEF HvTypes
    <3>2. HV!Shown(q, q, 0) = 0
      BY DEF HV!Shown
    <3> QED BY <3>1, <3>2
  <2>4. CASE <<q, d>> \notin zeroed
    <3>1. hvReg'[<<q, d>>] = hvReg[<<q, d>>] /\ hvAsked'[<<q, d>>] = hvAsked[<<q, d>>]
      BY <2>2, <2>4, <1>2, <1>4 DEF HvTypes
    <3> QED BY <3>1, <2>1
  <2> QED BY <2>3, <2>4
<1> QED BY <1>1, <1>5, <1>9, HvQuiet DEF SettingsTrue

LEMMA HvBegin == ASSUME HvInv, NEW command \in HvCommands, HV!Begin(command) PROVE HvInv'
<1>1. /\ hvCmd' = <<[command |-> command, read |-> <<>>]>> /\ hvAnswer' = <<>>
      /\ hvHeld' = [r \in HV!Registers |-> {hvReg[r]}]
      /\ UNCHANGED <<hvReg, m_mon, hvAsked>>
  BY DEF HV!Begin
<1>2. HvTypes' /\ SettingsTrue'
  BY <1>1 DEF HvInv, HvTypes, SettingsTrue
<1>3. hvHeld' \in [HV!Registers -> SUBSET Int] /\ \A r \in HV!Registers : hvReg'[r] \in hvHeld'[r]
  BY <1>1 DEF HvInv, HvTypes
<1>4. hvCmd'[1] = [command |-> command, read |-> <<>>] /\ <<>> \in Seq(Int) /\ Len(<<>>) = 0
  BY <1>1
<1>5. CommandTrue(hvCmd[1])'
  BY <1>3, <1>4, ReadsTyped DEF CommandTrue
<1> QED BY <1>1, <1>2, <1>5 DEF HvInv, HV!FreshAnswer, HV!SettingShownAsAsked

LEMMA HvSupplyChanges ==
    ASSUME HvInv, NEW p \in HV!Monitored, NEW c \in HV!Channels, HV!SupplyChanges(p, c)
    PROVE  HvInv'
<1> DEFINE r == <<p, c>>
           value == hvReg[r] + 3
<1>1. /\ hvAnswer' = <<>> /\ UNCHANGED <<m_mon, hvCmd, hvAsked>>
      /\ hvReg' = [hvReg EXCEPT ![r] = value]
      /\ hvCmd # <<>> => hvHeld' = [hvHeld EXCEPT ![r] = @ \cup {value}]
  BY DEF HV!SupplyChanges
<1>2. r \in HV!Registers /\ HvTypes /\ SettingsTrue
  BY SettingRegisters DEF HvInv
<1>3. value \in Int
  BY <1>2 DEF HvTypes
<1> HIDE DEF value
<1>4. HvTypes'
  BY <1>1, <1>2, <1>3 DEF HvTypes
<1>5. \A q \in HV!Settings, d \in HV!Channels :
        <<q, d>> \in HV!Registers /\ hvReg'[<<q, d>>] = hvReg[<<q, d>>]
  <2> SUFFICES ASSUME NEW q \in HV!Settings, NEW d \in HV!Channels
               PROVE  <<q, d>> \in HV!Registers /\ hvReg'[<<q, d>>] = hvReg[<<q, d>>]
    OBVIOUS
  <2>1. q # p
    BY SettingRegisters
  <2>2. <<q, d>> # r
    BY <2>1
  <2>3. <<q, d>> \in HV!Registers
    BY SettingRegisters
  <2> QED BY <2>2, <2>3, <1>1, <1>2 DEF HvTypes
<1>6. SettingsTrue'
  BY <1>1, <1>2, <1>5 DEF SettingsTrue, ShownSettings
<1>7. ASSUME hvCmd # <<>> PROVE CommandTrue(hvCmd[1])'
  <2> DEFINE cmd0 == hvCmd[1]
  <2>1. CommandTrue(cmd0)
    BY <1>7 DEF HvInv
  <2>2. hvHeld' = [hvHeld EXCEPT ![r] = @ \cup {value}] /\ hvCmd'[1] = cmd0
    BY <1>1, <1>7
  <2>3. cmd0.command \in HvCommands /\ cmd0.read \in Seq(Int)
        /\ Len(cmd0.read) < Len(HV!Reads(cmd0.command))
        /\ hvHeld \in [HV!Registers -> SUBSET Int]
        /\ \A q \in HV!Registers : hvReg[q] \in hvHeld[q]
    BY <2>1 DEF CommandTrue
  <2> HIDE DEF cmd0
  <2>4. hvHeld' \in [HV!Registers -> SUBSET Int]
    BY <2>2, <2>3, <1>2, <1>3
  <2>5. \A q \in HV!Registers : hvReg'[q] \in hvHeld'[q] /\ hvHeld[q] \subseteq hvHeld'[q]
    BY <2>2, <2>3, <1>1, <1>2 DEF HvTypes
  <2>6. \A k \in 1 .. Len(cmd0.read) : HV!Reads(cmd0.command)[k] \in HV!Registers
    BY <2>3, ReadsTyped
  <2>7. cmd0.command # "ttrip" => \A k \in 1 .. Len(cmd0.read) :
          Seen(cmd0.read, k, HV!Reads(cmd0.command)[k]) \in hvHeld'[HV!Reads(cmd0.command)[k]]
    BY <2>1, <2>5, <2>6 DEF CommandTrue
  <2>8. cmd0.command \in ShownSettings => \A k \in 1 .. Len(cmd0.read) :
          cmd0.read[k] = hvReg'[<<cmd0.command, k>>]
    <3> SUFFICES ASSUME cmd0.command \in ShownSettings, NEW k \in 1 .. Len(cmd0.read)
                 PROVE  cmd0.read[k] = hvReg'[<<cmd0.command, k>>]
      OBVIOUS
    <3>1. cmd0.read[k] = hvReg[<<cmd0.command, k>>]
      BY <2>1 DEF CommandTrue
    <3>2. cmd0.command \in HV!Settings
      BY DEF ShownSettings
    <3>3. Len(HV!Reads(cmd0.command)) = NChannels
      BY <3>2, GetReads
    <3>4. k \in HV!Channels
      BY <2>3, <3>3, SupplyAssumption DEF HV!Channels
    <3> QED BY <3>1, <3>2, <3>4, <1>5
  <2>9. UNCHANGED m_mon
    BY <1>1
  <2> QED BY <2>2, <2>3, <2>4, <2>5, <2>7, <2>8, <2>9 DEF CommandTrue, Seen
<1> QED BY <1>1, <1>4, <1>6, <1>7 DEF HvInv, HV!FreshAnswer, HV!SettingShownAsAsked

\* A command that ends without an answer
LEMMA HvFails ==
    ASSUME HvInv, hvCmd # <<>>, hvCmd' = <<>>, UNCHANGED <<hvReg, hvAsked, hvAnswer>>,
           m_mon' \in [HV!Members -> Int]
    PROVE  HvInv'
BY DEF HvInv, HvTypes, SettingsTrue, HV!FreshAnswer, HV!SettingShownAsAsked

LEMMA HvReadNext == ASSUME HvInv, NEW names, HV!ReadNext(names) PROVE HvInv'
<1> DEFINE c == hvCmd[1]
           r == HV!Reads(c.command)[Len(c.read) + 1]
<1>1. hvCmd # <<>> /\ UNCHANGED <<hvReg, hvAsked>>
  BY DEF HV!ReadNext
<1>2. PICK ok \in BOOLEAN :
        LET now == IF r \notin HV!Members THEN m_mon
                   ELSE [m_mon EXCEPT ![r] = IF ok THEN hvReg[r] ELSE @]
            value == IF r \in HV!Members THEN now[r] ELSE IF ok THEN hvReg[r] ELSE HV!Garbage
            read0 == Append(c.read, value)
        IN  /\ m_mon' = now
            /\ IF ~ok /\ HV!StatusChecked(r[1]) THEN HV!Fails
               ELSE IF Len(read0) < Len(HV!Reads(c.command))
               THEN /\ hvCmd' = <<[c EXCEPT !.read = read0]>>
                    /\ UNCHANGED <<hvAnswer, hvHeld>>
               ELSE /\ hvCmd' = <<>>
                    /\ hvAnswer' = <<[command |-> c.command, values |->
                         [k \in 1 .. Len(read0) |->
                            LET q == HV!Reads(c.command)[k]
                            IN  HV!Shown(c.command, q[1],
                                      IF q \in HV!Members THEN now[q] ELSE read0[k])]]>>
                    /\ UNCHANGED hvHeld
  BY DEF HV!ReadNext
<1> DEFINE now == IF r \notin HV!Members THEN m_mon
                  ELSE [m_mon EXCEPT ![r] = IF ok THEN hvReg[r] ELSE @]
           value == IF r \in HV!Members THEN now[r] ELSE IF ok THEN hvReg[r] ELSE HV!Garbage
           read0 == Append(c.read, value)
           Show(k) == HV!Shown(c.command, HV!Reads(c.command)[k][1],
                               IF HV!Reads(c.command)[k] \in HV!Members
                               THEN now[HV!Reads(c.command)[k]] ELSE read0[k])
<1>3. m_mon' = now
  BY <1>2
<1>4. \/ hvCmd' = <<>> /\ UNCHANGED hvAnswer
      \/ /\ ok \/ ~HV!StatusChecked(r[1])
         /\ Len(read0) < Len(HV!Reads(c.command))
         /\ hvCmd' = <<[c EXCEPT !.read = read0]>>
         /\ UNCHANGED <<hvAnswer, hvHeld>>
      \/ /\ ok \/ ~HV!StatusChecked(r[1])
         /\ ~(Len(read0) < Len(HV!Reads(c.command)))
         /\ hvCmd' = <<>> /\ UNCHANGED hvHeld
         /\ hvAnswer' = <<[command |-> c.command,
                           values |-> [k \in 1 .. Len(read0) |-> Show(k)]]>>
  BY <1>2 DEF HV!Fails
<1>5. HvTypes /\ SettingsTrue /\ hvAnswer = <<>> /\ CommandTrue(c)
  BY <1>1 DEF HvInv
<1>6. /\ c.command \in HvCommands /\ c.read \in Seq(Int) /\ Len(c.read) \in Nat
      /\ Len(c.read) < Len(HV!Reads(c.command))
      /\ HV!Reads(c.command) \in Seq(HV!Registers) /\ Len(HV!Reads(c.command)) \in Nat
      /\ hvHeld \in [HV!Registers -> SUBSET Int]
      /\ \A q \in HV!Registers : hvReg[q] \in hvHeld[q]
  BY <1>5, ReadsTyped DEF CommandTrue
<1> DEFINE reads == HV!Reads(c.command)
           n == Len(c.read)
<1>7. n + 1 \in 1 .. Len(reads) /\ r \in HV!Registers
      /\ \A k \in 1 .. n + 1 : reads[k] \in HV!Registers
  BY <1>6
<1> HIDE DEF r
<1>8. hvReg[r] \in Int /\ hvReg[r] \in hvHeld[r]
  BY <1>5, <1>6, <1>7 DEF HvTypes
<1>9. now \in [HV!Members -> Int]
  BY <1>5, <1>8 DEF HvTypes
<1>10. value \in Int /\ (ok => value = hvReg[r]) /\ (r \in HV!Members => value = now[r])
  BY <1>5, <1>8, <1>9 DEF HvTypes, HV!Garbage
<1>11. \A q \in HV!Members : now[q] = m_mon[q] \/ (ok /\ q = r /\ now[q] = hvReg[r])
  BY <1>5 DEF HvTypes
<1> HIDE DEF now, value
<1>12. /\ read0 \in Seq(Int) /\ Len(read0) = n + 1 /\ read0[n + 1] = value
       /\ \A k \in 1 .. n : read0[k] = c.read[k]
  BY <1>6, <1>10
<1>p. \A k \in 1 .. n + 1 : k # n + 1 => k \in 1 .. n
  BY <1>6
<1> HIDE DEF read0, c
<1>13. c.command # "ttrip" => HV!StatusChecked(r[1])
  BY <1>6, <1>7, ReadsChecked DEF r
<1> DEFINE SeenNow(k) == IF reads[k] \in HV!Members THEN now[reads[k]] ELSE read0[k]
<1>14. ASSUME ok, c.command # "ttrip", NEW k \in 1 .. n + 1
       PROVE  SeenNow(k) \in hvHeld[reads[k]]
  <2>1. CASE k = n + 1
    <3>1. reads[k] = r
      BY <2>1 DEF r
    <3>2. SeenNow(k) = value
      BY <3>1, <2>1, <1>10, <1>12
    <3> QED BY <3>1, <3>2, <1>8, <1>10, <1>14
  <2>2. CASE k # n + 1
    <3>1. k \in 1 .. n /\ read0[k] = c.read[k]
      BY <2>2, <1>p, <1>12
    <3>2. Seen(c.read, k, reads[k]) \in hvHeld[reads[k]]
      BY <3>1, <1>5, <1>14 DEF CommandTrue
    <3>3. CASE reads[k] \in HV!Members
      <4>1. now[reads[k]] = m_mon[reads[k]] \/ (reads[k] = r /\ now[reads[k]] = hvReg[r])
        BY <3>3, <1>11
      <4> QED BY <4>1, <3>2, <3>3, <1>8 DEF Seen
    <3>4. CASE reads[k] \notin HV!Members
      BY <3>1, <3>2, <3>4 DEF Seen
    <3> QED BY <3>3, <3>4
  <2> QED BY <2>1, <2>2
<1>15. ASSUME ok, c.command \in ShownSettings, NEW k \in 1 .. n + 1
       PROVE  read0[k] = hvReg[<<c.command, k>>] /\ reads[k] = <<c.command, k>>
              /\ k \in HV!Channels
  <2>1. c.command \in HV!Settings
    BY <1>15 DEF ShownSettings
  <2>2. k \in HV!Channels /\ reads[k] = <<c.command, k>>
    <3>1. Len(reads) = NChannels /\ \A j \in HV!Channels : reads[j] = <<c.command, j>>
      BY <2>1, GetReads
    <3>2. k \in HV!Channels
      BY <3>1, <1>6, <1>7, SupplyAssumption DEF HV!Channels
    <3> QED BY <3>1, <3>2
  <2>3. CASE k = n + 1
    <3>1. reads[k] = r
      BY <2>3 DEF r
    <3> QED BY <3>1, <2>2, <2>3, <1>10, <1>12, <1>15
  <2>4. CASE k # n + 1
    <3>1. k \in 1 .. n /\ read0[k] = c.read[k]
      BY <2>4, <1>p, <1>12
    <3> QED BY <3>1, <2>2, <1>5, <1>15 DEF CommandTrue
  <2> QED BY <2>3, <2>4
<1>16. CASE hvCmd' = <<>> /\ UNCHANGED hvAnswer
  BY <1>16, <1>1, <1>3, <1>9, HvFails
<1>u. HvTypes' /\ SettingsTrue'
  BY <1>1, <1>3, <1>5, <1>9 DEF HvTypes, SettingsTrue
<1>17. CASE /\ ok \/ ~HV!StatusChecked(r[1])
            /\ Len(read0) < Len(reads)
            /\ hvCmd' = <<[c EXCEPT !.read = read0]>>
            /\ UNCHANGED <<hvAnswer, hvHeld>>
  <2> DEFINE e == [c EXCEPT !.read = read0]
  <2>1. hvCmd'[1] = e
    BY <1>17
  <2>2. e.command = c.command /\ e.read = read0
    OBVIOUS
  <2>3. e.command # "ttrip" => ok
    BY <2>2, <1>13, <1>17
  <2>4. ShownSettings \subseteq HV!Settings \ {"ttrip"}
    BY DEF ShownSettings
  <2> HIDE DEF e
  <2>5. CommandTrue(hvCmd[1])'
    <3>1. e.command \in HvCommands /\ e.read \in Seq(Int) /\ Len(e.read) < Len(HV!Reads(e.command))
      BY <2>2, <1>6, <1>12, <1>17
    <3>2. hvHeld' \in [HV!Registers -> SUBSET Int] /\ \A q \in HV!Registers : hvReg'[q] \in hvHeld'[q]
      BY <1>1, <1>6, <1>17
    <3>3. e.command # "ttrip" => \A k \in 1 .. Len(e.read) :
            (IF HV!Reads(e.command)[k] \in HV!Members THEN m_mon'[HV!Reads(e.command)[k]] ELSE e.read[k])
              \in hvHeld'[HV!Reads(e.command)[k]]
      BY <2>2, <2>3, <1>3, <1>12, <1>14, <1>17
    <3>4. e.command \in ShownSettings => \A k \in 1 .. Len(e.read) :
            e.read[k] = hvReg'[<<e.command, k>>]
      BY <2>2, <2>3, <2>4, <1>1, <1>12, <1>15
    <3> QED BY <3>1, <3>2, <3>3, <3>4, <2>1 DEF CommandTrue, Seen
  <2>6. hvAnswer' = <<>>
    BY <1>5, <1>17
  <2> QED BY <2>5, <2>6, <1>u DEF HvInv, HV!FreshAnswer, HV!SettingShownAsAsked
<1>18. CASE /\ ok \/ ~HV!StatusChecked(r[1])
            /\ ~(Len(read0) < Len(reads))
            /\ hvCmd' = <<>> /\ UNCHANGED hvHeld
            /\ hvAnswer' = <<[command |-> c.command,
                              values |-> [k \in 1 .. Len(read0) |-> Show(k)]]>>
  <2>1. Len(reads) = n + 1
    BY <1>6, <1>12, <1>18
  <2>2. /\ hvAnswer'[1].command = c.command /\ Len(hvAnswer'[1].values) = n + 1
        /\ \A k \in 1 .. n + 1 : hvAnswer'[1].values[k] = Show(k)
    BY <1>6, <1>12, <1>18
  <2>3. c.command # "ttrip" => ok
    BY <1>13, <1>18
  <2>4. \A k \in 1 .. n + 1 : Show(k) = HV!Shown(c.command, reads[k][1], SeenNow(k))
    OBVIOUS
  <2> HIDE DEF Show, SeenNow
  <2>5. c.command # "ttrip" => \A k \in 1 .. Len(reads) : hvAnswer'[1].values[k]
            \in {HV!Shown(c.command, reads[k][1], raw) : raw \in hvHeld'[reads[k]]}
    BY <2>1, <2>2, <2>3, <2>4, <1>14, <1>18
  <2>6. HV!FreshAnswer'
    BY <2>1, <2>2, <2>5 DEF HV!FreshAnswer
  <2>7. ASSUME c.command \in ShownSettings, NEW d \in HV!Channels
        PROVE  hvAnswer'[1].values[d] \in hvAsked'[<<c.command, d>>]
    <3>1. c.command \in HV!Settings /\ c.command # "ttrip"
      BY <2>7 DEF ShownSettings
    <3>2. d \in 1 .. n + 1
      BY <3>1, <2>1, GetReads DEF HV!Channels
    <3>3. read0[d] = hvReg[<<c.command, d>>] /\ reads[d] = <<c.command, d>>
      BY <3>1, <3>2, <2>3, <2>7, <1>15
    <3>4. SeenNow(d) = hvReg[<<c.command, d>>]
      BY <3>1, <3>3, SettingRegisters DEF SeenNow
    <3>5. hvAnswer'[1].values[d] = HV!Shown(c.command, c.command, hvReg[<<c.command, d>>])
      BY <3>2, <3>3, <3>4, <2>2, <2>4
    <3> QED BY <3>5, <2>7, <1>1, <1>5 DEF SettingsTrue
  <2>8. HV!SettingShownAsAsked'
    BY <2>2, <2>7 DEF HV!SettingShownAsAsked, ShownSettings
  <2> QED BY <2>6, <2>8, <1>18, <1>u DEF HvInv
<1> QED BY <1>4, <1>16, <1>17, <1>18

LEMMA HvStep == HvInv /\ [HV!HvNext]_hvVars => HvInv'
<1> SUFFICES ASSUME HvInv, [HV!HvNext]_hvVars PROVE HvInv'
  OBVIOUS
<1>1. ASSUME NEW p \in HV!Params, HV!Get(p) PROVE HvInv'
  BY <1>1, HvBegin DEF HV!Get, HvCommands
<1>2. CASE HV!getMonitor
  BY <1>2, HvBegin DEF HV!getMonitor, HvCommands
<1>3. CASE \/ HV!getGlobalMax \/ HV!getRequests \/ HV!getActuals \/ HV!getTripTimes \/ HV!getLimits
           \/ HV!getPowerdownModes \/ HV!getTemperatures \/ HV!fillMonitoredVariables
  BY <1>3, HvReadNext DEF HV!getGlobalMax, HV!getRequests, HV!getActuals, HV!getTripTimes,
     HV!getLimits, HV!getPowerdownModes, HV!getTemperatures, HV!fillMonitoredVariables
<1>4. CASE UNCHANGED hvVars
  BY <1>4 DEF hvVars, HvInv, HvTypes, SettingsTrue, CommandTrue, Seen, HV!FreshAnswer,
              HV!SettingShownAsAsked
<1> QED BY <1>1, <1>2, <1>3, <1>4, HvSet, HvSetCurrent, HvReconfigure, HvSupplyChanges
        DEF HV!HvNext

-----------------------------------------------------------------------------
(***************************************************************************)
(* Scripts as drivers                                                      *)
(***************************************************************************)
\* A module has one of the scripts or none; what was acknowledged belongs to a
\* module that exists.
IndexInv ==
    /\ TD!Created \subseteq ModuleNames
    /\ \A n \in TD!Created : tclIndex[n] \in Ensembles \cup {TD!NoEnsemble}
    /\ DOMAIN initialized = ModuleNames /\ initialized = [n \in ModuleNames |-> initialized[n]]
    /\ DOMAIN acknowledged = ModuleNames /\ acknowledged = [n \in ModuleNames |-> acknowledged[n]]
    /\ \A n \in ModuleNames : n \notin TD!Created => ~acknowledged[n]
    /\ TD!ConfigInitialized
\* The list is empty unless something was left in it.
ListInv == m_list = leftover /\ TD!MonitorDataOwn
WordInv == vmeReg \in 0..(TD!WordMod - 1) /\ TD!TclSetStands
TclInv == IndexInv /\ ListInv /\ WordInv

LEMMA WordRange == TD!WordMod \in Nat \ {0}
<1>1. HalfMod \in Nat \ {0}
  BY WordAssumption
<1>2. HalfMod * HalfMod \in Nat /\ HalfMod * HalfMod > 0
  BY <1>1
<1> QED BY <1>2 DEF TD!WordMod

LEMMA TclStart == TD!TclInit => TclInv
<1> SUFFICES ASSUME TD!TclInit PROVE TclInv
  OBVIOUS
<1>1. TD!Created = {}
  BY DEF TD!TclInit, TD!Created
<1>2. IndexInv
  BY <1>1 DEF TD!TclInit, IndexInv, TD!ConfigInitialized
<1>3. ListInv
  BY DEF TD!TclInit, ListInv, TD!MonitorDataOwn
<1>4. WordInv
  BY WordRange DEF TD!TclInit, WordInv, TD!TclSetStands, TD!Reply
<1> QED BY <1>2, <1>3, <1>4 DEF TclInv

\* A remainder is known by its range and a quotient.
LEMMA Remainder ==
    ASSUME NEW m \in Nat \ {0}, NEW w \in 0..(m - 1), NEW k \in Int
    PROVE  (w + m * k) % m = w
<1> DEFINE a == w + m * k
           q == a \div m
           r == a % m
<1>1. a \in Int /\ m * k \in Int
  OBVIOUS
<1>2. q \in Int /\ r \in Int /\ 0 <= r /\ r < m /\ a = m * q + r
  BY <1>1
<1>3. a = w + m * k
  OBVIOUS
<1> HIDE DEF a, q, r
<1> DEFINE d == k - q
<1>4. d \in Int /\ k = q + d
  BY <1>2
<1>5. m * k = m * q + m * d
  BY <1>2, <1>4
<1> HIDE DEF d
<1>6. r - w = m * d
  BY <1>1, <1>2, <1>3, <1>4, <1>5
<1>7. d = 0 \/ m * d <= -m \/ m * d >= m
  <2>1. CASE d <= -1
    <3>1. m * (d + 1) <= 0
      BY <2>1, <1>4
    <3>2. m * (d + 1) = m * d + m
      BY <1>4
    <3> QED BY <3>1, <3>2, <1>4
  <2>2. CASE d >= 1
    <3>1. m * (d - 1) >= 0
      BY <2>2, <1>4
    <3>2. m * (d - 1) = m * d - m
      BY <1>4
    <3> QED BY <3>1, <3>2, <1>4
  <2> QED BY <2>1, <2>2, <1>4
<1>8. d = 0
  BY <1>2, <1>4, <1>6, <1>7
<1>9. r = w
  BY <1>2, <1>6, <1>8
<1> QED BY <1>9 DEF r, a

\* A register read and shown as a Tcl integer has the bits of the register.
LEMMA SameWord ==
    ASSUME NEW w \in 0..(TD!WordMod - 1) PROVE TD!AsWord(TD!intToResult(w)) = w
<1> DEFINE m == TD!WordMod
<1>1. m \in Nat \ {0}
  BY WordRange
<1>2. TD!intToResult(w) = (IF 2 * w >= m THEN w - m ELSE w)
  BY DEF TD!intToResult
<1> HIDE DEF m
<1>i. w \in 0..(m - 1) /\ w \in Int
  BY <1>1 DEF m
<1>3. w % m = w
  <2>1. (w + m * 0) % m = w
    BY <1>1, <1>i, Remainder
  <2> QED BY <2>1, <1>1, <1>i
<1>4. (w - m) % m = w
  <2>1. (w + m * (-1)) % m = w
    BY <1>1, <1>i, Remainder
  <2>2. w + m * (-1) = w - m
    BY <1>1, <1>i
  <2> QED BY <2>1, <2>2
<1> QED BY <1>2, <1>3, <1>4 DEF TD!AsWord, m

LEMMA WordOf == ASSUME NEW v \in Int PROVE TD!AsWord(v) \in 0..(TD!WordMod - 1)
<1> DEFINE m == TD!WordMod
<1>1. m \in Nat \ {0}
  BY WordRange
<1> HIDE DEF m
<1>2. v % m \in 0..(m - 1)
  BY <1>1
<1> QED BY <1>2 DEF TD!AsWord, m

\* The script of a configuration is one of the scripts, or the one there was.
LEMMA ConfiguredScript ==
    ASSUME NEW n, NEW options \in TD!Options,
           tclIndex[n] \in Ensembles \cup {TD!NoEnsemble}
    PROVE  TD!Configured(n, options) \in Ensembles \cup {TD!NoEnsemble}
<1>0. "-bad" \notin Ensembles
  BY EnsembleAssumption DEF Scripts
<1>1. PICK e \in Ensembles : options = <<e>> \/ options = <<e, "-bad">> \/ options = <<"-bad", e>>
  BY DEF TD!Options
<1> DEFINE I == {i \in 1..Len(options) : options[i] \notin Ensembles}
           bad == IF I # {} THEN TD!Min(I) ELSE 0
<1>2. TD!Accepted(options) = IF bad = 0 THEN options ELSE SubSeq(options, 1, bad - 1)
  BY DEF TD!Accepted, TD!SelectInSeq
<1>m. \A x \in Int : TD!Min({x}) = x
  BY DEF TD!Min
<1> HIDE DEF bad
<1>3. CASE options = <<e>>
  <2>1. I = {}
    BY <1>3
  <2>2. bad = 0
    BY <2>1 DEF bad
  <2> HIDE DEF I
  <2>3. TD!Accepted(options) = <<e>>
    BY <1>2, <1>3, <2>2
  <2> QED BY <2>3 DEF TD!Configured, TD!Last
<1>4. CASE options = <<e, "-bad">>
  <2>1. I = {2}
    BY <1>0, <1>4
  <2>2. bad = 2
    BY <2>1, <1>m DEF bad
  <2> HIDE DEF I
  <2>3. TD!Accepted(options) = SubSeq(<<e, "-bad">>, 1, 1)
    BY <1>2, <1>4, <2>2
  <2>4. Len(SubSeq(<<e, "-bad">>, 1, 1)) = 1 /\ SubSeq(<<e, "-bad">>, 1, 1)[1] = e
        /\ SubSeq(<<e, "-bad">>, 1, 1) # <<>>
    OBVIOUS
  <2> QED BY <2>3, <2>4 DEF TD!Configured, TD!Last
<1>5. CASE options = <<"-bad", e>>
  <2>1. I = {1}
    BY <1>0, <1>5
  <2>2. bad = 1
    BY <2>1, <1>m DEF bad
  <2> HIDE DEF I
  <2>3. TD!Accepted(options) = SubSeq(<<"-bad", e>>, 1, 0)
    BY <1>2, <1>5, <2>2
  <2>4. SubSeq(<<"-bad", e>>, 1, 0) = <<>>
    OBVIOUS
  <2> QED BY <2>3, <2>4 DEF TD!Configured
<1> QED BY <1>1, <1>3, <1>4, <1>5

\* What a step leaves alone stays true.
tclIndexVars == <<tclIndex, initialized, acknowledged>>
tclListVars == <<m_list, leftover, monitored>>

LEMMA IndexKept == IndexInv /\ UNCHANGED tclIndexVars => IndexInv'
BY DEF tclIndexVars, IndexInv, TD!ConfigInitialized, TD!Created

LEMMA ListKept == ListInv /\ UNCHANGED tclListVars => ListInv'
BY DEF tclListVars, ListInv, TD!MonitorDataOwn

LEMMA WordKept ==
    ASSUME WordInv, UNCHANGED <<vmeReg, possibleReg>>, tclReply'.value = {}
    PROVE  WordInv'
BY DEF WordInv, TD!TclSetStands, TD!WordMod

LEMMA TclCreate == ASSUME TclInv, NEW n \in ModuleNames, TD!create(n) PROVE TclInv'
<1>1. IndexInv /\ ListInv /\ WordInv
  BY DEF TclInv
<1>2. UNCHANGED <<m_list, vmeReg, leftover, monitored, possibleReg, initialized, acknowledged>>
  BY DEF TD!create, TD!listHistory, TD!configHistory
<1>3. tclReply'.value = {}
  BY DEF TD!create, TD!Reply
<1>4. CASE n \in TD!Created
  <2>1. UNCHANGED tclIndex
    BY <1>4 DEF TD!create
  <2> QED BY <2>1, <1>1, <1>2, <1>3, IndexKept, ListKept, WordKept
          DEF TclInv, tclIndexVars, tclListVars
<1>5. CASE n \notin TD!Created
  <2>1. tclIndex' = [m \in TD!Created \cup {n} |-> IF m = n THEN TD!NoEnsemble ELSE tclIndex[m]]
    BY <1>5 DEF TD!create
  <2>2. TD!Created' = TD!Created \cup {n}
    BY <2>1 DEF TD!Created
  <2>3. \A m \in TD!Created' : tclIndex'[m] = IF m = n THEN TD!NoEnsemble ELSE tclIndex[m]
    BY <2>1, <2>2
  <2>4. TD!Created' \subseteq ModuleNames
    BY <2>2, <1>1 DEF IndexInv
  <2>5. \A m \in TD!Created' : tclIndex'[m] \in Ensembles \cup {TD!NoEnsemble}
    BY <2>2, <2>3, <1>1 DEF IndexInv
  <2>6. TD!ConfigInitialized'
    BY <2>2, <2>3, <1>1, <1>2, <1>5 DEF IndexInv, TD!ConfigInitialized
  <2>7. IndexInv'
    BY <2>2, <2>4, <2>5, <2>6, <1>1, <1>2 DEF IndexInv
  <2> QED BY <2>7, <1>1, <1>2, <1>3, ListKept, WordKept DEF TclInv, tclListVars
<1> QED BY <1>4, <1>5

LEMMA TclConfigure ==
    ASSUME TclInv, NEW n \in ModuleNames, NEW options \in TD!Options, TD!configure(n, options)
    PROVE  TclInv'
<1>1. IndexInv /\ ListInv /\ WordInv
  BY DEF TclInv
<1>2. UNCHANGED <<m_list, vmeReg, leftover, monitored, possibleReg>>
  BY DEF TD!configure, TD!listHistory
<1>3. tclReply'.value = {}
  BY DEF TD!configure, TD!Reply
<1>4. CASE n \notin TD!Created
  <2>1. UNCHANGED tclIndexVars
    BY <1>4 DEF TD!configure, TD!configHistory, tclIndexVars
  <2> QED BY <2>1, <1>1, <1>2, <1>3, IndexKept, ListKept, WordKept DEF TclInv, tclListVars
<1>5. CASE n \in TD!Created
  <2> DEFINE e == TD!Configured(n, options)
             ok == TD!AllKnown(options)
  <2>1. /\ tclIndex' = [tclIndex EXCEPT ![n] = e]
        /\ acknowledged' = [acknowledged EXCEPT ![n] = ok]
        /\ initialized' = IF ok THEN [initialized EXCEPT ![n] = e] ELSE initialized
    BY <1>5 DEF TD!configure, TD!Initialize
  <2>2. e \in Ensembles \cup {TD!NoEnsemble}
    BY <1>1, <1>5, ConfiguredScript DEF IndexInv
  <2> HIDE DEF e, ok
  <2>3. TD!Created' = TD!Created
    BY <2>1 DEF TD!Created
  <2>4. \A m \in TD!Created : tclIndex'[m] = IF m = n THEN e ELSE tclIndex[m]
    BY <2>1 DEF TD!Created
  <2>5. \A m \in ModuleNames : acknowledged'[m] = IF m = n THEN ok ELSE acknowledged[m]
    BY <2>1, <1>1 DEF IndexInv
  <2>6. \A m \in ModuleNames : initialized'[m] = IF m = n /\ ok THEN e ELSE initialized[m]
    BY <2>1, <1>1 DEF IndexInv
  <2>7. /\ DOMAIN initialized' = ModuleNames
        /\ initialized' = [m \in ModuleNames |-> initialized'[m]]
    BY <2>1, <1>1 DEF IndexInv
  <2>8. /\ DOMAIN acknowledged' = ModuleNames
        /\ acknowledged' = [m \in ModuleNames |-> acknowledged'[m]]
    BY <2>1, <1>1 DEF IndexInv
  <2>9. TD!Created' \subseteq ModuleNames
        /\ \A m \in TD!Created' : tclIndex'[m] \in Ensembles \cup {TD!NoEnsemble}
    BY <2>2, <2>3, <2>4, <1>1 DEF IndexInv
  <2>10. \A m \in ModuleNames : m \notin TD!Created' => ~acknowledged'[m]
    BY <2>3, <2>5, <1>1, <1>5 DEF IndexInv
  <2>11. TD!ConfigInitialized'
    <3> SUFFICES ASSUME NEW m \in TD!Created, acknowledged'[m] PROVE initialized'[m] = tclIndex'[m]
      BY <2>3 DEF TD!ConfigInitialized
    <3>1. m \in ModuleNames /\ (acknowledged[m] => initialized[m] = tclIndex[m])
      BY <1>1 DEF IndexInv, TD!ConfigInitialized
    <3>2. CASE m = n
      BY <3>1, <3>2, <2>4, <2>5, <2>6
    <3>3. CASE m # n
      BY <3>1, <3>3, <2>4, <2>5, <2>6
    <3> QED BY <3>2, <3>3
  <2>12. IndexInv'
    BY <2>7, <2>8, <2>9, <2>10, <2>11 DEF IndexInv
  <2> QED BY <2>12, <1>1, <1>2, <1>3, ListKept, WordKept DEF TclInv, tclListVars
<1> QED BY <1>4, <1>5

\* The commands that only answer
LEMMA TclAnswers ==
    ASSUME TclInv, TD!list \/ \E n \in ModuleNames : TD!cget(n) \/ TD!Unusable(n)
    PROVE  TclInv'
<1>1. IndexInv /\ ListInv /\ WordInv
  BY DEF TclInv
<1>2. UNCHANGED tclIndexVars /\ UNCHANGED tclListVars /\ UNCHANGED <<vmeReg, possibleReg>>
  BY DEF TD!cget, TD!Unusable, TD!list, TD!listHistory, TD!configHistory, tclIndexVars, tclListVars
<1>3. tclReply'.value = {}
  BY DEF TD!cget, TD!Unusable, TD!list, TD!Reply
<1> QED BY <1>1, <1>2, <1>3, IndexKept, ListKept, WordKept DEF TclInv

\* Setting, updating and getting: the register holds one of the values it may
\* hold, and a Get shows its bits.
LEMMA TclSet ==
    ASSUME TclInv, NEW n \in ModuleNames, NEW value \in {-2}, NEW outcome \in TD!Outcomes,
           TD!Set(n, value, outcome)
    PROVE  TclInv'
<1>1. IndexInv /\ ListInv /\ WordInv
  BY DEF TclInv
<1>2. UNCHANGED tclIndexVars /\ UNCHANGED tclListVars
  BY DEF TD!Set, TD!listHistory, TD!configHistory, tclIndexVars, tclListVars
<1> DEFINE word == TD!AsWord(value)
<1>3. /\ vmeReg' = IF outcome = "refused" THEN vmeReg ELSE word
      /\ possibleReg' = IF tclReply'.ok THEN {word} ELSE possibleReg \cup {word}
      /\ tclReply' = [ok |-> outcome = "ok", value |-> {}]
  BY DEF TD!Set, TD!vmeWrite, TD!executeCommand, TD!Reply
<1>4. word \in 0..(TD!WordMod - 1)
  BY WordOf
<1> HIDE DEF word
<1>5. tclReply'.value = {} /\ (tclReply'.ok <=> outcome = "ok")
  BY <1>3
<1>6. vmeReg' \in 0..(TD!WordMod - 1)
  BY <1>1, <1>3, <1>4 DEF WordInv
<1>7. vmeReg' \in possibleReg'
  <2>1. CASE outcome = "ok"
    BY <2>1, <1>3, <1>5
  <2>2. CASE outcome # "ok"
    BY <2>2, <1>1, <1>3, <1>5 DEF WordInv, TD!TclSetStands
  <2> QED BY <2>1, <2>2
<1>8. WordInv'
  BY <1>5, <1>6, <1>7 DEF WordInv, TD!TclSetStands, TD!WordMod
<1> QED BY <1>1, <1>2, <1>8, IndexKept, ListKept DEF TclInv

LEMMA TclUpdate ==
    ASSUME TclInv, NEW n \in ModuleNames, NEW outcome \in TD!Outcomes, TD!Update(n, outcome)
    PROVE  TclInv'
<1>1. IndexInv /\ ListInv /\ WordInv
  BY DEF TclInv
<1>2. UNCHANGED tclIndexVars /\ UNCHANGED tclListVars
  BY DEF TD!Update, TD!listHistory, TD!configHistory, tclIndexVars, tclListVars
<1>3. /\ vmeReg' = IF outcome = "refused" THEN vmeReg ELSE 0
      /\ possibleReg' = possibleReg \cup {0}
      /\ tclReply'.value = {}
  BY DEF TD!Update, TD!vmeWrite, TD!Reply
<1>4. 0 \in 0..(TD!WordMod - 1)
  BY WordRange
<1>5. vmeReg' \in 0..(TD!WordMod - 1) /\ vmeReg' \in possibleReg'
  BY <1>1, <1>3, <1>4 DEF WordInv, TD!TclSetStands
<1>6. WordInv'
  BY <1>3, <1>5 DEF WordInv, TD!TclSetStands, TD!WordMod
<1> QED BY <1>1, <1>2, <1>6, IndexKept, ListKept DEF TclInv

LEMMA TclGet ==
    ASSUME TclInv, NEW n \in ModuleNames, NEW fails \in BOOLEAN, TD!Get(n, fails)
    PROVE  TclInv'
<1>1. IndexInv /\ ListInv /\ WordInv
  BY DEF TclInv
<1>2. UNCHANGED tclIndexVars /\ UNCHANGED tclListVars /\ UNCHANGED <<vmeReg, possibleReg>>
  BY DEF TD!Get, TD!listHistory, TD!configHistory, tclIndexVars, tclListVars
<1>3. tclReply'.value = IF fails THEN {} ELSE {TD!intToResult(vmeReg)}
  BY DEF TD!Get
<1>4. TD!AsWord(TD!intToResult(vmeReg)) = vmeReg
  BY <1>1, SameWord DEF WordInv
<1>5. \A v \in tclReply'.value : TD!AsWord(v) \in possibleReg'
  BY <1>1, <1>2, <1>3, <1>4 DEF WordInv, TD!TclSetStands
<1>6. WordInv'
  BY <1>1, <1>2, <1>5 DEF WordInv, TD!TclSetStands, TD!WordMod, TD!AsWord
<1> QED BY <1>1, <1>2, <1>6, IndexKept, ListKept DEF TclInv

\* What clients do to the list themselves
LEMMA TclList ==
    ASSUME TclInv, TD!clear \/ \E op \in {Op("r", 32), Op("w", 16)} : TD!addOp(op)
    PROVE  TclInv'
<1>1. IndexInv /\ ListInv /\ WordInv
  BY DEF TclInv
<1>2. UNCHANGED tclIndexVars /\ UNCHANGED <<monitored, vmeReg, possibleReg>>
      /\ tclReply'.value = {}
  BY DEF TD!clear, TD!addOp, TD!configHistory, tclIndexVars, TD!Reply
<1>3. m_list' = leftover'
  BY <1>1 DEF TD!clear, TD!addOp, ListInv
<1>4. ListInv'
  BY <1>1, <1>2, <1>3 DEF ListInv, TD!MonitorDataOwn
<1> QED BY <1>1, <1>2, <1>4, IndexKept, WordKept DEF TclInv

\* A monitoring: the data is that of what was left in the list and of the
\* script's own reads.
LEMMA TclMonitor == ASSUME TclInv, NEW n \in ModuleNames, TD!getMonitor(n) PROVE TclInv'
<1>1. IndexInv /\ ListInv /\ WordInv
  BY DEF TclInv
<1>2. UNCHANGED tclIndexVars /\ UNCHANGED <<vmeReg, possibleReg>>
  BY DEF TD!getMonitor, TD!configHistory, tclIndexVars
<1> DEFINE e == tclIndex[n]
<1>3. e \in Ensembles
  BY <1>1 DEF TD!getMonitor, TD!Usable, IndexInv
<1>4. \/ \E k \in 0 .. Len(Scripts[e]) : TD!requestMonitorListFails(e, k)
      \/ TD!ExecuteFails(e)
      \/ \E fails \in BOOLEAN : TD!ProcessMonitorList(e, fails)
      \/ TD!EmptyMonitorList(e)
  BY DEF TD!getMonitor
<1> HIDE DEF e
<1>5. CASE (\E k \in 0 .. Len(Scripts[e]) : TD!requestMonitorListFails(e, k)) \/ TD!ExecuteFails(e)
  <2>0. \E added : TD!MonitorFails(added)
    BY <1>5 DEF TD!requestMonitorListFails, TD!ExecuteFails
  <2>1. m_list' = leftover' /\ monitored' = monitored /\ tclReply'.value = {}
    BY <2>0, <1>1 DEF ListInv, TD!MonitorFails, TD!Reply
  <2>2. ListInv'
    BY <2>1, <1>1 DEF ListInv, TD!MonitorDataOwn
  <2> QED BY <2>1, <2>2, <1>1, <1>2, IndexKept, WordKept DEF TclInv
<1>6. ASSUME NEW fails \in BOOLEAN, TD!ProcessMonitorList(e, fails) PROVE TclInv'
  <2> DEFINE ops == m_list \o Scripts[e]
  <2>1. /\ m_list' = <<>> /\ leftover' = <<>> /\ tclReply'.value = {}
        /\ monitored' = [bytes |-> TD!toBytes(ops),
                         due |-> TD!toBytes(leftover \o Scripts[e])]
    BY <1>6 DEF TD!ProcessMonitorList, TD!monitorListAfter, TD!Reply
  <2>2. ops = leftover \o Scripts[e]
    BY <1>1 DEF ListInv
  <2> HIDE DEF ops
  <2>3. ListInv'
    BY <2>1, <2>2 DEF ListInv, TD!MonitorDataOwn
  <2> QED BY <2>1, <2>3, <1>1, <1>2, IndexKept, WordKept DEF TclInv
<1>7. CASE TD!EmptyMonitorList(e)
  <2>1. UNCHANGED tclListVars /\ tclReply'.value = {}
    BY <1>7 DEF TD!EmptyMonitorList, tclListVars, TD!Reply
  <2> QED BY <2>1, <1>1, <1>2, IndexKept, ListKept, WordKept DEF TclInv
<1> QED BY <1>4, <1>5, <1>6, <1>7

LEMMA TclStep == TclInv /\ [TD!TclNext]_tclVars => TclInv'
<1> SUFFICES ASSUME TclInv, [TD!TclNext]_tclVars PROVE TclInv'
  OBVIOUS
<1>1. ASSUME NEW n \in ModuleNames,
             \/ TD!create(n) \/ TD!cget(n) \/ TD!Unusable(n) \/ TD!getMonitor(n)
             \/ \E options \in TD!Options : TD!configure(n, options)
             \/ \E outcome \in TD!Outcomes : TD!Update(n, outcome)
             \/ \E value \in {-2}, outcome \in TD!Outcomes : TD!Set(n, value, outcome)
             \/ \E fails \in BOOLEAN : TD!Get(n, fails)
      PROVE  TclInv'
  BY <1>1, TclCreate, TclAnswers, TclMonitor, TclConfigure, TclUpdate, TclSet, TclGet
<1>2. CASE TD!list
  BY <1>2, TclAnswers
<1>3. CASE UNCHANGED tclVars
  <2>1. IndexInv /\ ListInv /\ WordInv
    BY DEF TclInv
  <2>2. UNCHANGED tclIndexVars /\ UNCHANGED tclListVars
    BY <1>3 DEF tclVars, tclIndexVars, tclListVars
  <2>3. WordInv'
    BY <2>1, <1>3 DEF tclVars, WordInv, TD!TclSetStands, TD!WordMod, TD!AsWord
  <2> QED BY <2>1, <2>2, <2>3, IndexKept, ListKept DEF TclInv
<1> QED BY <1>1, <1>2, <1>3, TclList DEF TD!TclNext

-----------------------------------------------------------------------------
(***************************************************************************)
(* The slow controls server                                                *)
(***************************************************************************)
SlowInv == RegInv /\ RcInv /\ HvInv /\ TclInv

LEMMA SlowStart == OutputsInit => SlowInv
BY RegInit, RcInit, HvStart, TclStart DEF OutputsInit, SlowInv

LEMMA SlowStep == SlowInv /\ [OutputsNext]_outputVars => SlowInv'
<1> SUFFICES ASSUME SlowInv, [OutputsNext]_outputVars PROVE SlowInv'
  OBVIOUS
<1>1. [SC!Next]_slowVars /\ [HV!HvNext]_hvVars /\ [TD!TclNext]_tclVars
  BY DEF OutputsNext, outputVars
<1> QED BY <1>1, RegStep, RcStep, HvStep, TclStep DEF SlowInv

LEMMA SlowFromInv == SlowInv => SlowControlsTrue
BY RegistersTold
   DEF SlowInv, RcInv, HvInv, TclInv, IndexInv, ListInv, WordInv, SlowControlsTrue

\* What an OK of the slow controls server says, for any set of modules, scripts and
\* files and any number of faults.  What a V812, a GDG or a script acknowledged stands
\* until a later write may have changed it; on the RC bus this holds only until a
\* write whose status CMxDCRCBus does not look at has failed.  A V6533 acknowledges
\* writes that failed; Get shows the last setting that reached it and fresh readings,
\* each command in its own scale.  Monitor data is that of what others left in the
\* shared list, followed by that of the script's own reads.  A script that was
\* configured with OK was initialised (CV812::Set, CMxDCRCBus::Set, CV6533::Get,
\* SlowControlsTclDriver::getMonitor, SlowControlsModuleCommand::configure).
THEOREM SlowControlsTheorem == OutputsSpec => []SlowControlsTrue
<1>1. OutputsInit => SlowInv
  BY SlowStart
<1>2. SlowInv /\ [OutputsNext]_outputVars => SlowInv'
  BY SlowStep
<1>3. SlowInv => SlowControlsTrue
  BY SlowFromInv
<1> QED BY <1>1, <1>2, <1>3, PTL DEF OutputsSpec

-----------------------------------------------------------------------------
(***************************************************************************)
(* Lists of VME operations for other programs                              *)
(***************************************************************************)
Texts == {"Set name", "list {", "}"}
Pieces == [text : Texts, ops : Seq(VL!Ops)]
Request(ops) == <<VL!Piece("Set name", <<>>), VL!Piece("list {", ops), VL!Piece("}", <<>>)>>

\* The client's indices count the reads before an operation.
Indexed(ops, indices, next) ==
    /\ indices \in Seq(Int) /\ Len(indices) = Len(ops)
    /\ next = VL!ReadsBefore(ops, Len(ops) + 1)
    /\ \A i \in DOMAIN ops : ops[i].op = "r" => indices[i] = VL!ReadsBefore(ops, i)

\* What a reply says of the operations that were done
Truth(ops, indices, trace, reply) ==
    /\ \A i \in DOMAIN trace : trace[i].op = ops[i]
    /\ reply.ok =>
         /\ Len(trace) = Len(ops)
         /\ \A i \in DOMAIN ops : ops[i].op = "r" =>
              /\ indices[i] < Len(reply.data)
              /\ reply.data[indices[i] + 1] = trace[i].value

\* A request that is still whole, in parts with the server and on its way, has
\* had no effect; once a part of it was taken for a command it never will.
ClientInv(ops, indices, next, pc, rest, command, lines, result, trace) ==
    /\ ops \in Seq(VL!Ops) /\ Indexed(ops, indices, next)
    /\ rest \in Seq(Pieces) /\ command \in Seq(Pieces) /\ (\E S : lines \in Seq(S))
    /\ pc \in {"build", "wait"}
    /\ Len(command) + Len(rest) <= 3
    /\ Len(command) + Len(rest) = 3 =>
         pc = "wait" /\ lines = <<>> /\ trace = <<>> /\ command \o rest = Request(ops)
    /\ pc = "wait" /\ lines = <<>> => Len(command) + Len(rest) = 3
    /\ pc = "wait" /\ lines # <<>> => Truth(ops, indices, trace, lines[1])
    /\ result # <<>> => pc = "build" /\ Truth(ops, indices, trace, result[1])
    /\ pc = "wait" /\ (\E i \in DOMAIN ops : ops[i].op = "bad") => trace = <<>>

OnClients(f) == f = [c \in VmeClients |-> f[c]]
ListTypes ==
    /\ OnClients(m_operations) /\ OnClients(m_readIndices) /\ OnClients(m_nextReadIndex)
    /\ OnClients(cpc) /\ OnClients(request) /\ OnClients(m_command) /\ OnClients(replies)
    /\ OnClients(answer) /\ OnClients(done)
Client(c) == ClientInv(m_operations[c], m_readIndices[c], m_nextReadIndex[c], cpc[c],
                       request[c], m_command[c], replies[c], answer[c], done[c])
VmeInv == ListTypes /\ \A c \in VmeClients : Client(c)

\* A function on an interval is a sequence.
LEMMA FcnSeq ==
    ASSUME NEW n \in Nat, NEW f, f = [i \in 1 .. n |-> f[i]]
    PROVE  (\E S : f \in Seq(S)) /\ Len(f) = n /\ DOMAIN f = 1 .. n
<1> DEFINE S == {f[i] : i \in 1 .. n}
<1>1. f \in [1 .. n -> S]
  OBVIOUS
<1> HIDE DEF S
<1>2. f \in Seq(S)
  BY <1>1
<1>3. DOMAIN f = 1 .. n
  OBVIOUS
<1>4. Len(f) = n
  BY <1>2, <1>3
<1> QED BY <1>2, <1>3, <1>4

\* Counting is the same in the instances.
LEMMA SameCount == \A S : VL!Cardinality(S) = Cardinality(S) /\ FR!Cardinality(S) = Cardinality(S)
BY DEF VL!Cardinality, FR!Cardinality, Cardinality

\* Counting reads
LEMMA ReadsAre ==
    ASSUME NEW ops, NEW i
    PROVE  VL!ReadsBefore(ops, i) = Cardinality({j \in 1 .. i - 1 : ops[j].op = "r"})
BY SameCount DEF VL!ReadsBefore

LEMMA ReadsFinite ==
    ASSUME NEW ops, NEW i \in Int
    PROVE  IsFiniteSet({j \in 1 .. i - 1 : ops[j].op = "r"})
<1> DEFINE R == {j \in 1 .. i - 1 : ops[j].op = "r"}
<1>1. IsFiniteSet(1 .. i - 1)
  BY FS_Interval
<1>2. R \subseteq 1 .. i - 1
  OBVIOUS
<1> HIDE DEF R
<1>3. IsFiniteSet(R)
  BY <1>1, <1>2, FS_Subset
<1> QED BY <1>3 DEF R

LEMMA ReadsNat == ASSUME NEW ops, NEW i \in Int PROVE VL!ReadsBefore(ops, i) \in Nat
<1> DEFINE R == {j \in 1 .. i - 1 : ops[j].op = "r"}
<1>1. IsFiniteSet(R) /\ VL!ReadsBefore(ops, i) = Cardinality(R)
  BY ReadsFinite, ReadsAre
<1> HIDE DEF R
<1> QED BY <1>1, FS_CardinalityType

LEMMA ReadCounted ==
    ASSUME NEW ops, NEW i \in Nat \ {0}
    PROVE  VL!ReadsBefore(ops, i + 1) =
             VL!ReadsBefore(ops, i) + (IF ops[i].op = "r" THEN 1 ELSE 0)
<1> DEFINE R == {j \in 1 .. i - 1 : ops[j].op = "r"}
           Q == {j \in 1 .. (i + 1) - 1 : ops[j].op = "r"}
<1>0. i \in Int
  OBVIOUS
<1>1. IsFiniteSet(R) /\ VL!ReadsBefore(ops, i) = Cardinality(R)
  BY <1>0, ReadsFinite, ReadsAre
<1>2. VL!ReadsBefore(ops, i + 1) = Cardinality(Q)
  BY ReadsAre
<1>3. i \notin R
  OBVIOUS
<1>4. Q = IF ops[i].op = "r" THEN R \cup {i} ELSE R
  OBVIOUS
<1> HIDE DEF R, Q
<1>5. Cardinality(R \cup {i}) = Cardinality(R) + 1
  BY <1>1, <1>3, FS_AddElement
<1>6. VL!ReadsBefore(ops, i) \in Nat
  BY <1>0, ReadsNat
<1> QED BY <1>1, <1>2, <1>4, <1>5, <1>6

LEMMA ReadsGrow ==
    ASSUME NEW ops, NEW i \in Nat \ {0}, NEW j \in Nat, i < j, ops[i].op = "r"
    PROVE  VL!ReadsBefore(ops, i) < VL!ReadsBefore(ops, j)
<1> DEFINE R == {k \in 1 .. (i + 1) - 1 : ops[k].op = "r"}
           Q == {k \in 1 .. j - 1 : ops[k].op = "r"}
<1>0. i \in Int /\ j \in Int
  OBVIOUS
<1>1. IsFiniteSet(Q) /\ VL!ReadsBefore(ops, j) = Cardinality(Q)
  BY <1>0, ReadsFinite, ReadsAre
<1>2. VL!ReadsBefore(ops, i + 1) = Cardinality(R)
  BY ReadsAre
<1>3. R \subseteq Q
  OBVIOUS
<1>4. VL!ReadsBefore(ops, i + 1) = VL!ReadsBefore(ops, i) + 1
  BY ReadCounted
<1>6. VL!ReadsBefore(ops, i) \in Nat /\ VL!ReadsBefore(ops, j) \in Nat
  BY <1>0, ReadsNat
<1> HIDE DEF R, Q
<1>5. Cardinality(R) <= Cardinality(Q)
  BY <1>1, <1>3, FS_Subset
<1> QED BY <1>1, <1>2, <1>4, <1>5, <1>6

\* Only what is before an operation counts.
LEMMA ReadsSame ==
    ASSUME NEW s, NEW t, NEW i \in Int, \A j \in 1 .. i - 1 : s[j] = t[j]
    PROVE  VL!ReadsBefore(s, i) = VL!ReadsBefore(t, i)
<1>1. {j \in 1 .. i - 1 : s[j].op = "r"} = {j \in 1 .. i - 1 : t[j].op = "r"}
  OBVIOUS
<1> QED BY <1>1, ReadsAre

\* The answer to a list that ran: the k-th value is that of the k-th read.
LEMMA RunTrue ==
    ASSUME NEW ops \in Seq(VL!Ops), NEW indices, NEW next, Indexed(ops, indices, next),
           NEW n \in 0 .. Len(ops)
    PROVE  Truth(ops, indices, VL!Run(ops, n).trace, VL!Run(ops, n).reply)
<1> DEFINE trace == [i \in 1 .. n |-> [op |-> ops[i],
                                       value |-> VL!Before(ops, mem, i)[ops[i].addr]]]
           Reads == {i \in 1 .. n : ops[i].op = "r"}
           Read(k) == CHOOSE i \in Reads : VL!ReadsBefore(ops, i) = k - 1
           data == [k \in 1 .. VL!ReadsBefore(ops, n + 1) |-> trace[Read(k)].value]
<1>1. VL!Run(ops, n).trace = trace
      /\ VL!Run(ops, n).reply = [ok |-> n = Len(ops), data |-> data]
  BY DEF VL!Run
<1>2. Len(ops) \in Nat /\ n \in Nat /\ n + 1 \in Int /\ DOMAIN ops = 1 .. Len(ops)
  OBVIOUS
<1>3. DOMAIN trace = 1 .. n /\ \A i \in 1 .. n : trace[i].op = ops[i]
  OBVIOUS
<1>4. VL!ReadsBefore(ops, n + 1) \in Nat
  BY <1>2, ReadsNat
<1>5. trace = [i \in 1 .. n |-> trace[i]]
  OBVIOUS
<1> HIDE DEF trace
<1>6. data = [k \in 1 .. VL!ReadsBefore(ops, n + 1) |-> data[k]]
      /\ \A k \in 1 .. VL!ReadsBefore(ops, n + 1) : data[k] = trace[Read(k)].value
  OBVIOUS
<1>7. \A k \in 1 .. VL!ReadsBefore(ops, n + 1) : data[k] = trace[Read(k)].value
  BY <1>6
<1> HIDE DEF data
<1>8. Len(trace) = n
  BY <1>2, <1>5, FcnSeq
<1>9. Len(data) = VL!ReadsBefore(ops, n + 1)
  BY <1>4, <1>6, FcnSeq
<1>10. ASSUME NEW i \in Reads PROVE Read(VL!ReadsBefore(ops, i) + 1) = i
                                   /\ VL!ReadsBefore(ops, i) < VL!ReadsBefore(ops, n + 1)
                                   /\ VL!ReadsBefore(ops, i) \in Nat
  <2>1. i \in Int /\ i \in Nat \ {0} /\ i < n + 1 /\ n + 1 \in Nat /\ ops[i].op = "r"
    BY <1>2
  <2>2. VL!ReadsBefore(ops, i) \in Nat /\ VL!ReadsBefore(ops, i) < VL!ReadsBefore(ops, n + 1)
    BY <2>1, ReadsNat, ReadsGrow
  <2>3. ASSUME NEW j \in Reads, VL!ReadsBefore(ops, j) = VL!ReadsBefore(ops, i) PROVE j = i
    <3>0. j \in Int /\ j \in Nat \ {0} /\ ops[j].op = "r"
      BY <1>2
    <3>1. j \in Nat \ {0} /\ ops[j].op = "r" /\ VL!ReadsBefore(ops, j) \in Nat
      BY <3>0, ReadsNat
    <3>2. i < j => VL!ReadsBefore(ops, i) < VL!ReadsBefore(ops, j)
      BY <2>1, <3>1, ReadsGrow
    <3>3. j < i => VL!ReadsBefore(ops, j) < VL!ReadsBefore(ops, i)
      BY <2>1, <3>1, ReadsGrow
    <3> QED BY <2>1, <2>2, <2>3, <3>1, <3>2, <3>3
  <2>4. (VL!ReadsBefore(ops, i) + 1) - 1 = VL!ReadsBefore(ops, i)
    BY <2>2
  <2> HIDE DEF Reads
  <2>5. (CHOOSE j \in Reads : VL!ReadsBefore(ops, j) = VL!ReadsBefore(ops, i)) = i
    BY <2>3
  <2> QED BY <2>2, <2>4, <2>5
<1> HIDE DEF Read
<1>11. ASSUME n = Len(ops), NEW i \in DOMAIN ops, ops[i].op = "r"
       PROVE  indices[i] < Len(data) /\ data[indices[i] + 1] = trace[i].value
  <2>1. i \in Reads /\ indices[i] = VL!ReadsBefore(ops, i)
    BY <1>2, <1>11 DEF Indexed
  <2>2. Read(indices[i] + 1) = i /\ indices[i] \in Nat /\ indices[i] < VL!ReadsBefore(ops, n + 1)
    BY <2>1, <1>10
  <2>3. indices[i] + 1 \in 1 .. VL!ReadsBefore(ops, n + 1)
    BY <2>2, <1>4
  <2> QED BY <2>2, <2>3, <1>7, <1>9
<1>12. Truth(ops, indices, trace, [ok |-> n = Len(ops), data |-> data])
  BY <1>3, <1>8, <1>11 DEF Truth
<1> QED BY <1>1, <1>12

\* A step of one client
Updated(g, f, c, e) == OnClients(g) /\ g[c] = e /\ \A d \in VmeClients : d # c => g[d] = f[d]

LEMMA UpdatedAt ==
    ASSUME NEW f, OnClients(f), NEW c \in VmeClients, NEW e
    PROVE  Updated([f EXCEPT ![c] = e], f, c, e) /\ Updated(f, f, c, f[c])
BY DEF OnClients, Updated

LEMMA OneClient ==
    ASSUME VmeInv, NEW c \in VmeClients, NEW ops, NEW indices, NEW next, NEW pc, NEW rest,
           NEW command, NEW lines, NEW result, NEW trace,
           Updated(m_operations', m_operations, c, ops),
           Updated(m_readIndices', m_readIndices, c, indices),
           Updated(m_nextReadIndex', m_nextReadIndex, c, next),
           Updated(cpc', cpc, c, pc), Updated(request', request, c, rest),
           Updated(m_command', m_command, c, command), Updated(replies', replies, c, lines),
           Updated(answer', answer, c, result), Updated(done', done, c, trace),
           ClientInv(ops, indices, next, pc, rest, command, lines, result, trace)
    PROVE  VmeInv'
<1>1. ListTypes'
  BY DEF Updated, ListTypes, OnClients
<1>2. ASSUME NEW d \in VmeClients PROVE Client(d)'
  <2>1. CASE d = c
    BY <2>1 DEF Updated, Client
  <2>2. CASE d # c
    BY <2>2 DEF Updated, Client, VmeInv
  <2> QED BY <2>1, <2>2
<1> QED BY <1>1, <1>2 DEF VmeInv

LEMMA NoReads == Indexed(<<>>, <<>>, 0)
<1>1. {j \in 1 .. 0 : <<>>[j].op = "r"} = {}
  OBVIOUS
<1>2. VL!ReadsBefore(<<>>, 1) = 0
  BY <1>1, ReadsAre, FS_EmptySet
<1>3. Len(<<>>) = 0 /\ <<>> \in Seq(Int) /\ DOMAIN <<>> = {} /\ Len(<<>>) + 1 = 1
  OBVIOUS
<1> QED BY <1>2, <1>3 DEF Indexed

LEMMA IndexAdded ==
    ASSUME NEW ops \in Seq(VL!Ops), NEW indices, NEW next, Indexed(ops, indices, next),
           NEW o \in VL!Ops
    PROVE  /\ Append(ops, o) \in Seq(VL!Ops)
           /\ Indexed(Append(ops, o), Append(indices, IF o.op = "r" THEN next ELSE -1),
                      IF o.op = "r" THEN next + 1 ELSE next)
<1> DEFINE n == Len(ops)
           ops2 == Append(ops, o)
           index == IF o.op = "r" THEN next ELSE -1
           indices2 == Append(indices, index)
<1>1. n \in Nat /\ ops2 \in Seq(VL!Ops) /\ Len(ops2) = n + 1 /\ ops2[n + 1] = o
      /\ (\A i \in 1 .. n : ops2[i] = ops[i]) /\ DOMAIN ops2 = 1 .. n + 1 /\ DOMAIN ops = 1 .. n
  OBVIOUS
<1>2. indices \in Seq(Int) /\ Len(indices) = n /\ next = VL!ReadsBefore(ops, n + 1)
  BY DEF Indexed
<1>3. n + 1 \in Int /\ (n + 1) - 1 = n /\ n + 1 \in Nat \ {0}
  BY <1>1
<1> HIDE DEF n, ops2
<1>4. next \in Nat
  BY <1>2, <1>3, ReadsNat
<1>5. index \in Int
  BY <1>4
<1> HIDE DEF index
<1>6. indices2 \in Seq(Int) /\ Len(indices2) = n + 1 /\ indices2[n + 1] = index
      /\ \A i \in 1 .. n : indices2[i] = indices[i]
  BY <1>2, <1>5
<1> HIDE DEF indices2
<1>7. VL!ReadsBefore(ops2, n + 1) = next
  BY <1>1, <1>2, <1>3, ReadsSame
<1>8. VL!ReadsBefore(ops2, (n + 1) + 1) = IF o.op = "r" THEN next + 1 ELSE next
  <2>1. VL!ReadsBefore(ops2, (n + 1) + 1) =
          VL!ReadsBefore(ops2, n + 1) + (IF ops2[n + 1].op = "r" THEN 1 ELSE 0)
    BY <1>3, ReadCounted
  <2> QED BY <2>1, <1>1, <1>4, <1>7
<1>9. ASSUME NEW i \in 1 .. n + 1, ops2[i].op = "r" PROVE indices2[i] = VL!ReadsBefore(ops2, i)
  <2>1. CASE i = n + 1
    BY <2>1, <1>1, <1>6, <1>7, <1>9 DEF index
  <2>2. CASE i # n + 1
    <3>1. i \in 1 .. n /\ i \in Int /\ \A j \in 1 .. i - 1 : j \in 1 .. n
      BY <2>2, <1>1
    <3>2. VL!ReadsBefore(ops2, i) = VL!ReadsBefore(ops, i)
      BY <3>1, <1>1, ReadsSame
    <3>3. indices[i] = VL!ReadsBefore(ops, i)
      BY <3>1, <1>1, <1>9 DEF Indexed
    <3> QED BY <3>1, <3>2, <3>3, <1>6
  <2> QED BY <2>1, <2>2
<1>10. Indexed(ops2, indices2, IF o.op = "r" THEN next + 1 ELSE next)
  BY <1>1, <1>6, <1>8, <1>9 DEF Indexed
<1> QED BY <1>1, <1>10 DEF ops2, indices2, index

LEMMA VmeStart == VL!Init => VmeInv
<1> SUFFICES ASSUME VL!Init PROVE VmeInv
  OBVIOUS
<1>1. ListTypes
  BY DEF VL!Init, ListTypes, OnClients
<1>2. <<>> \in Seq(VL!Ops) /\ <<>> \in Seq(Pieces) /\ <<>> \in Seq({}) /\ Len(<<>>) = 0
      /\ DOMAIN <<>> = {}
  OBVIOUS
<1>3. ASSUME NEW c \in VmeClients PROVE Client(c)
  <2>1. ClientInv(<<>>, <<>>, 0, "build", <<>>, <<>>, <<>>, <<>>, <<>>)
    BY <1>2, NoReads DEF ClientInv
  <2> QED BY <2>1 DEF VL!Init, Client
<1> QED BY <1>1, <1>3 DEF VmeInv

LEMMA VmeBuild ==
    ASSUME VmeInv, NEW c \in VmeClients, NEW o \in VL!Ops, VL!Build(c, o)
    PROVE  VmeInv'
<1> DEFINE ops == m_operations[c]
           next == m_nextReadIndex[c]
           ops2 == Append(ops, o)
           indices2 == Append(m_readIndices[c], IF o.op = "r" THEN next ELSE -1)
           next2 == IF o.op = "r" THEN next + 1 ELSE next
<1>1. ListTypes /\ Client(c)
  BY DEF VmeInv
<1>2. /\ m_operations' = [m_operations EXCEPT ![c] = ops2]
      /\ m_readIndices' = [m_readIndices EXCEPT ![c] = indices2]
      /\ m_nextReadIndex' = [m_nextReadIndex EXCEPT ![c] = next2]
      /\ answer' = [answer EXCEPT ![c] = <<>>] /\ done' = [done EXCEPT ![c] = <<>>]
      /\ UNCHANGED <<cpc, request, m_command, replies>> /\ cpc[c] = "build"
  BY DEF VL!Build, VL!add
<1>3. ops2 \in Seq(VL!Ops) /\ Indexed(ops2, indices2, next2)
  BY <1>1, IndexAdded DEF Client, ClientInv
<1> HIDE DEF ops2, indices2, next2
<1>4. ClientInv(ops2, indices2, next2, cpc[c], request[c], m_command[c], replies[c], <<>>, <<>>)
  BY <1>1, <1>2, <1>3 DEF Client, ClientInv
<1>5. /\ Updated(m_operations', m_operations, c, ops2)
      /\ Updated(m_readIndices', m_readIndices, c, indices2)
      /\ Updated(m_nextReadIndex', m_nextReadIndex, c, next2)
      /\ Updated(cpc', cpc, c, cpc[c]) /\ Updated(request', request, c, request[c])
      /\ Updated(m_command', m_command, c, m_command[c])
      /\ Updated(replies', replies, c, replies[c])
      /\ Updated(answer', answer, c, <<>>) /\ Updated(done', done, c, <<>>)
  BY <1>1, <1>2, UpdatedAt DEF ListTypes
<1> QED BY <1>4, <1>5, OneClient

LEMMA VmeReset == ASSUME VmeInv, NEW c \in VmeClients, VL!reset(c) PROVE VmeInv'
<1>1. ListTypes /\ Client(c)
  BY DEF VmeInv
<1>2. /\ m_operations' = [m_operations EXCEPT ![c] = <<>>]
      /\ m_readIndices' = [m_readIndices EXCEPT ![c] = <<>>]
      /\ m_nextReadIndex' = [m_nextReadIndex EXCEPT ![c] = 0]
      /\ answer' = [answer EXCEPT ![c] = <<>>] /\ done' = [done EXCEPT ![c] = <<>>]
      /\ UNCHANGED <<cpc, request, m_command, replies>> /\ cpc[c] = "build"
  BY DEF VL!reset
<1>3. <<>> \in Seq(VL!Ops)
  OBVIOUS
<1>4. ClientInv(<<>>, <<>>, 0, cpc[c], request[c], m_command[c], replies[c], <<>>, <<>>)
  BY <1>1, <1>2, <1>3, NoReads DEF Client, ClientInv
<1>5. /\ Updated(m_operations', m_operations, c, <<>>)
      /\ Updated(m_readIndices', m_readIndices, c, <<>>)
      /\ Updated(m_nextReadIndex', m_nextReadIndex, c, 0)
      /\ Updated(cpc', cpc, c, cpc[c]) /\ Updated(request', request, c, request[c])
      /\ Updated(m_command', m_command, c, m_command[c])
      /\ Updated(replies', replies, c, replies[c])
      /\ Updated(answer', answer, c, <<>>) /\ Updated(done', done, c, <<>>)
  BY <1>1, <1>2, UpdatedAt DEF ListTypes
<1> QED BY <1>4, <1>5, OneClient

LEMMA RequestPieces ==
    ASSUME NEW ops \in Seq(VL!Ops)
    PROVE  /\ Request(ops) \in Seq(Pieces) /\ Len(Request(ops)) = 3
           /\ <<>> \o Request(ops) = Request(ops)
<1> DEFINE first == VL!Piece("Set name", <<>>)
           second == VL!Piece("list {", ops)
           third == VL!Piece("}", <<>>)
<1>0. <<>> \in Seq(VL!Ops)
  OBVIOUS
<1>p. \A text \in Texts, o \in Seq(VL!Ops) : VL!Piece(text, o) \in Pieces
  BY DEF VL!Piece, Pieces
<1>s. "Set name" \in Texts /\ "list {" \in Texts /\ "}" \in Texts
  BY DEF Texts
<1>1. first \in Pieces /\ second \in Pieces /\ third \in Pieces
  BY <1>0, <1>p, <1>s
<1>2. Request(ops) = <<first, second, third>>
  BY DEF Request
<1> HIDE DEF first, second, third
<1>3. <<first, second, third>> \in Seq(Pieces) /\ Len(<<first, second, third>>) = 3
  BY <1>1
<1>4. \A s \in Seq(Pieces) : <<>> \o s = s
  OBVIOUS
<1> QED BY <1>2, <1>3, <1>4

LEMMA VmeExecute == ASSUME VmeInv, NEW c \in VmeClients, VL!execute(c) PROVE VmeInv'
<1> DEFINE ops == m_operations[c]
           req == Request(ops)
<1>1. ListTypes /\ Client(c)
  BY DEF VmeInv
<1>2. /\ request' = [request EXCEPT ![c] = req] /\ m_command' = [m_command EXCEPT ![c] = <<>>]
      /\ replies' = [replies EXCEPT ![c] = <<>>] /\ cpc' = [cpc EXCEPT ![c] = "wait"]
      /\ answer' = [answer EXCEPT ![c] = <<>>] /\ done' = [done EXCEPT ![c] = <<>>]
      /\ UNCHANGED <<m_operations, m_readIndices, m_nextReadIndex>>
  BY DEF VL!execute, VL!listVars, VL!buildRequest, Request
<1>3. ops \in Seq(VL!Ops) /\ Indexed(ops, m_readIndices[c], m_nextReadIndex[c])
  BY <1>1 DEF Client, ClientInv
<1>4. req \in Seq(Pieces) /\ Len(req) = 3 /\ <<>> \o req = req
  BY <1>3, RequestPieces
<1>5. <<>> \in Seq(Pieces) /\ Len(<<>>) = 0 /\ 0 + 3 = 3
  OBVIOUS
<1>6. ClientInv(ops, m_readIndices[c], m_nextReadIndex[c], "wait", req, <<>>, <<>>, <<>>, <<>>)
  BY <1>3, <1>4, <1>5 DEF ClientInv
<1> HIDE DEF req
<1>7. /\ Updated(m_operations', m_operations, c, ops)
      /\ Updated(m_readIndices', m_readIndices, c, m_readIndices[c])
      /\ Updated(m_nextReadIndex', m_nextReadIndex, c, m_nextReadIndex[c])
      /\ Updated(cpc', cpc, c, "wait") /\ Updated(request', request, c, req)
      /\ Updated(m_command', m_command, c, <<>>) /\ Updated(replies', replies, c, <<>>)
      /\ Updated(answer', answer, c, <<>>) /\ Updated(done', done, c, <<>>)
  BY <1>1, <1>2, UpdatedAt DEF ListTypes
<1> QED BY <1>6, <1>7, OneClient

LEMMA VmeReply == ASSUME VmeInv, NEW c \in VmeClients, VL!Reply(c) PROVE VmeInv'
<1> DEFINE lines == replies[c]
           result == <<Head(lines)>>
<1>1. ListTypes /\ Client(c)
  BY DEF VmeInv
<1>2. /\ answer' = [answer EXCEPT ![c] = result] /\ replies' = [replies EXCEPT ![c] = Tail(lines)]
      /\ cpc' = [cpc EXCEPT ![c] = "build"]
      /\ UNCHANGED <<m_operations, m_readIndices, m_nextReadIndex, request, m_command, done>>
      /\ cpc[c] = "wait" /\ lines # <<>>
  BY DEF VL!Reply, VL!listVars
<1>3. PICK S : lines \in Seq(S)
  BY <1>1 DEF Client, ClientInv
<1>4. Tail(lines) \in Seq(S) /\ result[1] = lines[1]
  BY <1>2, <1>3
<1> HIDE DEF result
<1>5. ClientInv(m_operations[c], m_readIndices[c], m_nextReadIndex[c], "build", request[c],
                m_command[c], Tail(lines), result, done[c])
  BY <1>1, <1>2, <1>4 DEF Client, ClientInv
<1>6. /\ Updated(m_operations', m_operations, c, m_operations[c])
      /\ Updated(m_readIndices', m_readIndices, c, m_readIndices[c])
      /\ Updated(m_nextReadIndex', m_nextReadIndex, c, m_nextReadIndex[c])
      /\ Updated(cpc', cpc, c, "build") /\ Updated(request', request, c, request[c])
      /\ Updated(m_command', m_command, c, m_command[c])
      /\ Updated(replies', replies, c, Tail(lines))
      /\ Updated(answer', answer, c, result) /\ Updated(done', done, c, done[c])
  BY <1>1, <1>2, UpdatedAt DEF ListTypes
<1> QED BY <1>5, <1>6, OneClient

\* The first n pieces of what is on its way join what has come.
Joined(P, a, b, n, come, left) ==
    /\ come \in Seq(P) /\ left \in Seq(P)
    /\ Len(come) = Len(a) + n /\ Len(left) = Len(b) - n
    /\ come \o left = a \o b
    /\ \A k \in 1 .. Len(a) + n : come[k] = (a \o b)[k]

LEMMA Arrives ==
    ASSUME NEW P, NEW a \in Seq(P), NEW b \in Seq(P), NEW n \in 1 .. Len(b)
    PROVE  Joined(P, a, b, n, a \o SubSeq(b, 1, n), SubSeq(b, n + 1, Len(b)))
<1> DEFINE x == SubSeq(b, 1, n)
           y == SubSeq(b, n + 1, Len(b))
<1>1. Len(b) \in Nat /\ n \in Nat /\ n <= Len(b)
  OBVIOUS
<1>2. x \in Seq(P) /\ Len(x) = n /\ \A k \in 1 .. n : x[k] = b[k]
  BY <1>1
<1>3. y \in Seq(P) /\ Len(y) = Len(b) - n /\ \A k \in 1 .. Len(b) - n : y[k] = b[n + k]
  BY <1>1
<1> HIDE DEF x, y
<1>4. x \o y \in Seq(P) /\ Len(x \o y) = Len(b)
  <2>0. x \in Seq(P) /\ y \in Seq(P)
    BY <1>2, <1>3
  <2>1. x \o y \in Seq(P) /\ Len(x \o y) = Len(x) + Len(y)
    BY <2>0
  <2>2. n + (Len(b) - n) = Len(b)
    BY <1>1
  <2> QED BY <2>1, <2>2, <1>2, <1>3
<1>e. ASSUME NEW k \in 1 .. Len(b) PROVE (x \o y)[k] = b[k]
  <2>1. CASE k <= n
    BY <2>1, <1>1, <1>2, <1>3
  <2>2. CASE k > n
    <3>1. k - n \in 1 .. Len(b) - n /\ n + (k - n) = k /\ k \in Nat
      BY <2>2, <1>1
    <3>2. (x \o y)[k] = y[k - n]
      BY <2>2, <3>1, <1>1, <1>2, <1>3
    <3>3. y[k - n] = b[n + (k - n)]
      BY <3>1, <1>3
    <3> QED BY <3>1, <3>2, <3>3
  <2>3. k <= n \/ k > n
    BY <1>1
  <2> QED BY <2>1, <2>2, <2>3
<1>5. x \o y = b
  BY <1>4, <1>e, SeqEqual
<1>6. (a \o x) \o y = a \o (x \o y)
  BY <1>2, <1>3, SMTT(30)
<1>7. a \o x \in Seq(P) /\ Len(a \o x) = Len(a) + n
  BY <1>1, <1>2
<1>8. \A k \in 1 .. Len(a) + n : (a \o x)[k] = (a \o b)[k]
  BY <1>1, <1>2
<1>9. Joined(P, a, b, n, a \o x, y)
  BY <1>3, <1>5, <1>6, <1>7, <1>8 DEF Joined
<1> QED BY <1>9 DEF x, y

LEMMA RequestTexts ==
    ASSUME NEW ops
    PROVE  /\ Request(ops)[1].text = "Set name" /\ Request(ops)[2].text = "list {"
           /\ Request(ops)[3].text = "}" /\ Request(ops)[2].ops = ops
BY DEF Request, VL!Piece

\* One more line of reply
LEMMA LineAdded ==
    ASSUME NEW lines, \E S : lines \in Seq(S), NEW line
    PROVE  /\ \E S : Append(lines, line) \in Seq(S)
           /\ Append(lines, line) # <<>>
           /\ Append(lines, line)[1] = IF lines = <<>> THEN line ELSE lines[1]
<1>1. PICK S : lines \in Seq(S)
  OBVIOUS
<1>2. lines \in Seq(S \cup {line})
  BY <1>1
<1>3. Append(lines, line) \in Seq(S \cup {line}) /\ Len(Append(lines, line)) = Len(lines) + 1
      /\ Len(lines) \in Nat
  BY <1>2
<1>4. CASE lines = <<>>
  <2>1. Len(lines) = 0 /\ Append(lines, line)[Len(lines) + 1] = line
    BY <1>2, <1>4
  <2>2. Append(lines, line)[1] = line /\ Len(Append(lines, line)) = 1
    BY <2>1, <1>3
  <2>e. Len(<<>>) = 0 /\ 0 # 1
    OBVIOUS
  <2>3. Append(lines, line) # <<>>
    BY <2>2, <2>e, Zenon
  <2> QED BY <2>2, <2>3, <1>3, <1>4
<1>5. CASE lines # <<>>
  <2>1. 1 \in 1 .. Len(lines)
    BY <1>2, <1>5
  <2> QED BY <2>1, <1>2, <1>3, <1>5
<1> QED BY <1>3, <1>4, <1>5

\* A whole request: the list is compiled and run, or refused.
LEMMA SetTrue ==
    ASSUME NEW c \in VmeClients, NEW ops \in Seq(VL!Ops), NEW indices, NEW next,
           Indexed(ops, indices, next), VL!Set(c, ops),
           OnClients(replies), OnClients(done), replies[c] = <<>>, done[c] = <<>>
    PROVE  \E line, trace :
             /\ Updated(replies', replies, c, Append(<<>>, line)) /\ Updated(done', done, c, trace)
             /\ Truth(ops, indices, trace, line)
             /\ (\E i \in DOMAIN ops : ops[i].op = "bad") => trace = <<>>
<1>1. CASE ~VL!CompileList(ops)
  <2>1. replies' = [replies EXCEPT ![c] = Append(<<>>, VL!Refused)] /\ done' = done
    BY <1>1 DEF VL!Set
  <2>2. Truth(ops, indices, <<>>, VL!Refused)
    BY DEF Truth, VL!Refused
  <2>3. Updated(replies', replies, c, Append(<<>>, VL!Refused)) /\ Updated(done', done, c, <<>>)
    BY <2>1, UpdatedAt
  <2> QED BY <2>2, <2>3
<1>2. CASE VL!CompileList(ops)
  <2>1. PICK n \in 0 .. Len(ops) :
          /\ replies' = [replies EXCEPT ![c] = Append(<<>>, VL!Run(ops, n).reply)]
          /\ done' = [done EXCEPT ![c] = VL!Run(ops, n).trace]
    BY <1>2 DEF VL!Set
  <2> DEFINE line == VL!Run(ops, n).reply
             trace == VL!Run(ops, n).trace
  <2>2. Truth(ops, indices, trace, line)
    BY RunTrue
  <2>3. Updated(replies', replies, c, Append(<<>>, line)) /\ Updated(done', done, c, trace)
    BY <2>1, UpdatedAt
  <2>4. ~\E i \in DOMAIN ops : ops[i].op = "bad"
    BY <1>2 DEF VL!CompileList
  <2> HIDE DEF line, trace
  <2> QED BY <2>2, <2>3, <2>4
<1> QED BY <1>1, <1>2

LEMMA VmeInput ==
    ASSUME VmeInv, NEW c \in VmeClients, NEW n \in 1 .. 3, VL!OnInput(c, n)
    PROVE  VmeInv'
<1> DEFINE ops == m_operations[c]
           indices == m_readIndices[c]
           next == m_nextReadIndex[c]
           pieces == m_command[c] \o SubSeq(request[c], 1, n)
           rest == SubSeq(request[c], n + 1, Len(request[c]))
           lines == replies[c]
<1>1. ListTypes /\ Client(c)
  BY DEF VmeInv
<1>2. /\ request' = [request EXCEPT ![c] = rest] /\ n <= Len(request[c])
      /\ UNCHANGED <<m_operations, m_readIndices, m_nextReadIndex, cpc, answer>>
      /\ IF VL!CommandComplete(pieces)
         THEN /\ VL!processClientRequest(c, pieces)
              /\ m_command' = [m_command EXCEPT ![c] = <<>>]
         ELSE /\ m_command' = [m_command EXCEPT ![c] = pieces]
              /\ UNCHANGED <<replies, done>>
  BY DEF VL!OnInput, VL!listVars
<1>3. /\ ops \in Seq(VL!Ops) /\ Indexed(ops, indices, next)
      /\ request[c] \in Seq(Pieces) /\ m_command[c] \in Seq(Pieces) /\ (\E S : lines \in Seq(S))
  BY <1>1 DEF Client, ClientInv
<1>4. /\ Len(m_command[c]) + Len(request[c]) <= 3
      /\ Len(m_command[c]) + Len(request[c]) = 3 =>
           cpc[c] = "wait" /\ lines = <<>> /\ done[c] = <<>>
           /\ m_command[c] \o request[c] = Request(ops)
      /\ cpc[c] = "wait" /\ lines = <<>> => Len(m_command[c]) + Len(request[c]) = 3
  BY <1>1 DEF Client, ClientInv
<1>5. n \in 1 .. Len(request[c]) /\ Len(request[c]) \in Nat /\ Len(m_command[c]) \in Nat
  BY <1>2, <1>3
<1>j. Joined(Pieces, m_command[c], request[c], n, pieces, rest)
  BY <1>3, <1>5, Arrives
<1>6. /\ pieces \in Seq(Pieces) /\ rest \in Seq(Pieces)
      /\ Len(pieces) = Len(m_command[c]) + n /\ Len(rest) = Len(request[c]) - n
      /\ pieces \o rest = m_command[c] \o request[c]
      /\ \A k \in 1 .. Len(m_command[c]) + n : pieces[k] = (m_command[c] \o request[c])[k]
  BY <1>j DEF Joined
<1> HIDE DEF pieces, rest
<1> DEFINE held == Len(m_command[c])
           coming == Len(request[c])
           come == Len(pieces)
           left == Len(rest)
<1>a. /\ held \in Nat /\ coming \in Nat /\ n \in 1 .. coming /\ held + coming <= 3
      /\ come = held + n /\ left = coming - n
  BY <1>4, <1>5, <1>6
<1>t. /\ Request(ops)[1].text = "Set name" /\ Request(ops)[2].text = "list {"
      /\ Request(ops)[3].text = "}" /\ Request(ops)[2].ops = ops
  BY RequestTexts
<1>b. held + coming = 3 => \A k \in 1 .. come : pieces[k] = Request(ops)[k]
  BY <1>4, <1>6
<1> HIDE DEF held, coming, come, left
<1>c. /\ come \in Nat /\ left \in Nat /\ left < 3 /\ come + left = held + coming
      /\ (come = 3 => held + coming = 3 /\ left = 0)
      /\ (held + coming = 3 /\ come # 3 => come \in {1, 2})
  BY <1>a
<1>7. /\ Updated(m_operations', m_operations, c, ops)
      /\ Updated(m_readIndices', m_readIndices, c, indices)
      /\ Updated(m_nextReadIndex', m_nextReadIndex, c, next)
      /\ Updated(cpc', cpc, c, cpc[c]) /\ Updated(request', request, c, rest)
      /\ Updated(answer', answer, c, answer[c])
  BY <1>1, <1>2, UpdatedAt DEF ListTypes
<1>8. Len(pieces) + Len(rest) = Len(m_command[c]) + Len(request[c])
  BY <1>c DEF held, coming, come, left
<1>9. CASE ~VL!CommandComplete(pieces)
  <2>1. /\ Updated(m_command', m_command, c, pieces) /\ Updated(replies', replies, c, lines)
        /\ Updated(done', done, c, done[c])
    BY <1>1, <1>2, <1>9, UpdatedAt DEF ListTypes
  <2>2. ClientInv(ops, indices, next, cpc[c], rest, pieces, lines, answer[c], done[c])
    BY <1>1, <1>6, <1>8 DEF Client, ClientInv
  <2> QED BY <2>1, <2>2, <1>7, OneClient
<1>10. CASE VL!CommandComplete(pieces)
  <2>1. VL!processClientRequest(c, pieces) /\ Updated(m_command', m_command, c, <<>>)
    BY <1>1, <1>2, <1>10, UpdatedAt DEF ListTypes
  <2>2. <<>> \in Seq(Pieces) /\ Len(<<>>) = 0
    OBVIOUS
  <2>3. CASE Len(pieces) = 3
    <3>1. Len(m_command[c]) + Len(request[c]) = 3 /\ Len(rest) = 0
      BY <2>3, <1>c DEF held, coming, come, left
    <3>2. cpc[c] = "wait" /\ lines = <<>> /\ done[c] = <<>> /\ pieces[2] = Request(ops)[2]
      <4>1. held + coming = 3 /\ come = 3
        BY <2>3, <3>1 DEF held, coming, come
      <4>2. pieces[2] = Request(ops)[2]
        BY <4>1, <1>b
      <4> QED BY <3>1, <4>2, <1>4
    <3>3. VL!Set(c, ops)
      BY <2>1, <2>3, <3>2, <1>t DEF VL!processClientRequest
    <3>4. PICK line, trace :
            /\ Updated(replies', replies, c, Append(<<>>, line)) /\ Updated(done', done, c, trace)
            /\ Truth(ops, indices, trace, line)
            /\ (\E i \in DOMAIN ops : ops[i].op = "bad") => trace = <<>>
      BY <3>2, <3>3, <1>1, <1>3, SetTrue DEF ListTypes
    <3>5. /\ \E S : Append(<<>>, line) \in Seq(S)
          /\ Append(<<>>, line) # <<>> /\ Append(<<>>, line)[1] = line
      BY <1>3, <3>2, LineAdded
    <3>6. answer[c] = <<>>
      BY <1>1, <3>2 DEF Client, ClientInv
    <3> DEFINE line1 == Append(<<>>, line)
    <3> HIDE DEF line1
    <3>7. ClientInv(ops, indices, next, cpc[c], rest, <<>>, line1, answer[c], trace)
      BY <2>2, <3>1, <3>2, <3>4, <3>5, <3>6, <1>3, <1>6 DEF ClientInv, line1
    <3> QED BY <2>1, <3>4, <3>7, <1>7, OneClient DEF line1
  <2>4. CASE Len(pieces) # 3
    <3> DEFINE line == [ok |-> VL!Has(pieces, "list {"), data |-> <<>>]
               lines2 == Append(lines, line)
    <3>1. replies' = [replies EXCEPT ![c] = lines2] /\ done' = done
      BY <2>1, <2>4 DEF VL!processClientRequest
    <3>2. Updated(replies', replies, c, lines2) /\ Updated(done', done, c, done[c])
      BY <3>1, <1>1, UpdatedAt DEF ListTypes
    <3>3. /\ \E S : lines2 \in Seq(S)
          /\ lines2 # <<>> /\ lines2[1] = IF lines = <<>> THEN line ELSE lines[1]
      BY <1>3, LineAdded
    <3>4. Len(rest) < 3 /\ Len(rest) \in Nat
      BY <1>c DEF left
    <3>5. cpc[c] = "wait" /\ lines = <<>> => Truth(ops, indices, done[c], line)
      <4> SUFFICES ASSUME cpc[c] = "wait", lines = <<>> PROVE Truth(ops, indices, done[c], line)
        OBVIOUS
      <4>1. Len(m_command[c]) + Len(request[c]) = 3 /\ done[c] = <<>>
            /\ \A k \in 1 .. Len(pieces) : pieces[k] = Request(ops)[k]
        BY <1>4, <1>b DEF held, coming, come
      <4>2. Len(pieces) \in {1, 2}
        BY <2>4, <4>1, <1>c DEF held, coming, come
      <4>3. DOMAIN pieces = 1 .. Len(pieces)
        BY <1>6
      <4>4. CASE Len(pieces) = 2
        <5>1. DOMAIN pieces = {1, 2} /\ pieces[1] = Request(ops)[1] /\ pieces[2] = Request(ops)[2]
          BY <4>1, <4>3, <4>4
        <5>2. VL!Has(pieces, "list {") /\ ~VL!Has(pieces, "}")
          BY <5>1, <1>t DEF VL!Has
        <5> QED BY <5>2, <1>10 DEF VL!CommandComplete
      <4>5. CASE Len(pieces) = 1
        <5>1. DOMAIN pieces = {1} /\ pieces[1] = Request(ops)[1]
          BY <4>1, <4>3, <4>5
        <5>2. ~VL!Has(pieces, "list {")
          BY <5>1, <1>t DEF VL!Has
        <5>3. ~line.ok
          BY <5>2
        <5>4. \A i \in DOMAIN done[c] : done[c][i].op = ops[i]
          BY <4>1
        <5> HIDE DEF line
        <5> QED BY <5>3, <5>4 DEF Truth
      <4> QED BY <4>2, <4>4, <4>5
    <3> HIDE DEF line, lines2
    <3>6. /\ cpc[c] \in {"build", "wait"}
          /\ cpc[c] = "wait" /\ lines # <<>> => Truth(ops, indices, done[c], lines[1])
          /\ answer[c] # <<>> => cpc[c] = "build" /\ Truth(ops, indices, done[c], answer[c][1])
          /\ cpc[c] = "wait" /\ (\E i \in DOMAIN ops : ops[i].op = "bad") => done[c] = <<>>
      BY <1>1 DEF Client, ClientInv
    <3>7. cpc[c] = "wait" => Truth(ops, indices, done[c], lines2[1])
      BY <3>3, <3>5, <3>6
    <3>8. Len(<<>>) + Len(rest) <= 3 /\ Len(<<>>) + Len(rest) # 3
      BY <2>2, <3>4
    <3>9. rest \in Seq(Pieces)
      BY <1>6
    <3>10. ClientInv(ops, indices, next, cpc[c], rest, <<>>, lines2, answer[c], done[c])
      BY <2>2, <3>3, <3>6, <3>7, <3>8, <3>9, <1>3 DEF ClientInv
    <3> QED BY <2>1, <3>2, <3>10, <1>7, OneClient
  <2> QED BY <2>3, <2>4
<1> QED BY <1>9, <1>10

LEMMA VmeStep == VmeInv /\ [VL!Next]_vmeVars => VmeInv'
<1> SUFFICES ASSUME VmeInv, [VL!Next]_vmeVars PROVE VmeInv'
  OBVIOUS
<1>1. CASE VL!Next
  <2>1. PICK c \in VmeClients :
          \/ \E o \in VL!Ops : VL!Build(c, o)
          \/ VL!reset(c) \/ VL!execute(c) \/ VL!Reply(c)
          \/ \E n \in 1 .. 3 : VL!OnInput(c, n)
    BY <1>1 DEF VL!Next
  <2> QED BY <2>1, VmeBuild, VmeReset, VmeExecute, VmeReply, VmeInput
<1>2. CASE UNCHANGED vmeVars
  BY <1>2 DEF vmeVars, VmeInv, ListTypes, OnClients, Client
<1> QED BY <1>1, <1>2

LEMMA ListsFromInv == VmeInv => ListsTrue
<1> SUFFICES ASSUME VmeInv, NEW c \in VmeClients
             PROVE  /\ answer[c] # <<>> =>
                        Truth(m_operations[c], m_readIndices[c], done[c], answer[c][1])
                    /\ cpc[c] = "wait"
                       /\ (\E i \in DOMAIN m_operations[c] : m_operations[c][i].op = "bad")
                         => done[c] = <<>>
  BY DEF ListsTrue, VL!ExecuteAnswersTruth, VL!NothingHalfCompiled, VL!readIndex, Truth
<1> QED BY DEF VmeInv, Client, ClientInv

\* What execute() answers a client is what was done with its list, for any clients,
\* lists and faults and in whatever pieces a request arrives: after OK every operation
\* was executed in order and readIndex() leads to the value of each read, after an error
\* a part was, from the first on, and a list that does not compile touches nothing
\* (CVMEClient::execute, TclServer OnInput, CVMEModule::Set).
THEOREM ListsTheorem == OutputsSpec => []ListsTrue
<1>1. OutputsInit => VmeInv
  BY VmeStart DEF OutputsInit
<1>2. VmeInv /\ [OutputsNext]_outputVars => VmeInv'
  BY VmeStep DEF OutputsNext, outputVars
<1>3. VmeInv => ListsTrue
  BY ListsFromInv
<1> QED BY <1>1, <1>2, <1>3, PTL DEF OutputsSpec

-----------------------------------------------------------------------------
(***************************************************************************)
(* Runs: the last item of a type, and what appending an item changes       *)
(***************************************************************************)
LastOf(r, i, types) ==
    LET before == {j \in 1 .. i - 1 : r[j].type \in types}
    IN  IF before = {} THEN 0 ELSE CHOOSE j \in before : \A k \in before : k <= j
IsLast(r, i, types, l) ==
    /\ l \in 0 .. i - 1
    /\ l = 0 => \A j \in 1 .. i - 1 : r[j].type \notin types
    /\ l # 0 => r[l].type \in types /\ \A j \in 1 .. i - 1 : r[j].type \in types => j <= l

LEMMA LastBeforeIs ==
    ASSUME NEW i, NEW types
    PROVE  FR!LastBefore(i, types) = LastOf(ring, i, types)
           /\ FR!LastBefore(i, types)' = LastOf(ring', i, types)
BY DEF FR!LastBefore, LastOf

\* Every bounded, non-empty set of numbers has a greatest element.
LEMMA GreatestElement ==
    ASSUME NEW n \in Nat, NEW T, T \subseteq 1 .. n, T # {}
    PROVE  \E x \in T : \A y \in T : y <= x
<1> DEFINE U == {n - x : x \in T}
<1>0. PICK z \in T : TRUE
  OBVIOUS
<1>1. U \subseteq Nat /\ U # {}
  <2>1. \A x \in T : n - x \in Nat
    OBVIOUS
  <2>2. n - z \in U
    BY <1>0
  <2> QED BY <2>1, <2>2
<1>2. PICK u \in U : \A y \in U : <<y, u>> \notin OpToRel(<, Nat)
  BY <1>1, NatLessThanWellFounded, WFMin
<1>3. \A y \in U : ~(y < u)
  BY <1>1, <1>2 DEF OpToRel
<1>4. PICK x \in T : u = n - x
  OBVIOUS
<1>5. ASSUME NEW y \in T PROVE y <= x
  <2>1. n - y \in U
    OBVIOUS
  <2>2. ~(n - y < n - x)
    BY <2>1, <1>3, <1>4
  <2> QED BY <2>2
<1> QED BY <1>5

LEMMA LastIs ==
    ASSUME NEW r, NEW i \in Nat \ {0}, NEW types
    PROVE  IsLast(r, i, types, LastOf(r, i, types))
<1> DEFINE T == {j \in 1 .. i - 1 : r[j].type \in types}
<1>1. CASE T = {}
  <2>1. LastOf(r, i, types) = 0
    BY <1>1 DEF LastOf
  <2> QED BY <2>1, <1>1 DEF IsLast
<1>2. CASE T # {}
  <2>1. LastOf(r, i, types) = CHOOSE j \in T : \A k \in T : k <= j
    BY <1>2 DEF LastOf
  <2>2. T \subseteq 1 .. i - 1 /\ i - 1 \in Nat
    OBVIOUS
  <2> HIDE DEF T
  <2>3. \E j \in T : \A k \in T : k <= j
    BY <2>2, <1>2, GreatestElement
  <2> DEFINE l == LastOf(r, i, types)
  <2>4. l \in T /\ \A k \in T : k <= l
    BY <2>1, <2>3
  <2> HIDE DEF l
  <2>5. IsLast(r, i, types, l)
    BY <2>2, <2>4 DEF IsLast, T
  <2> QED BY <2>5 DEF l
<1> QED BY <1>1, <1>2

LEMMA LastUnique ==
    ASSUME NEW r, NEW i \in Nat \ {0}, NEW types, NEW l, IsLast(r, i, types, l)
    PROVE  LastOf(r, i, types) = l
<1> DEFINE m == LastOf(r, i, types)
<1>1. IsLast(r, i, types, m)
  BY LastIs
<1> HIDE DEF m
<1>2. m \in Int /\ l \in Int /\ m \in 0 .. i - 1 /\ l \in 0 .. i - 1
  BY <1>1 DEF IsLast
<1>3. m = 0 => l = 0
  BY <1>1, <1>2 DEF IsLast
<1>4. l = 0 => m = 0
  BY <1>1, <1>2 DEF IsLast
<1>5. m # 0 /\ l # 0 => m <= l /\ l <= m
  BY <1>1, <1>2 DEF IsLast
<1>6. m = l
  BY <1>2, <1>3, <1>4, <1>5
<1> QED BY <1>6 DEF m

LEMMA LastSame ==
    ASSUME NEW r, NEW s, NEW i, NEW types, \A j \in 1 .. i - 1 : r[j] = s[j]
    PROVE  LastOf(r, i, types) = LastOf(s, i, types)
<1> DEFINE T == {j \in 1 .. i - 1 : r[j].type \in types}
           U == {j \in 1 .. i - 1 : s[j].type \in types}
<1>1. T = U
  OBVIOUS
<1>2. LastOf(r, i, types) = IF T = {} THEN 0 ELSE CHOOSE j \in T : \A k \in T : k <= j
  BY DEF LastOf
<1>3. LastOf(s, i, types) = IF U = {} THEN 0 ELSE CHOOSE j \in U : \A k \in U : k <= j
  BY DEF LastOf
<1> HIDE DEF T, U
<1> QED BY <1>1, <1>2, <1>3

LEMMA LastNext ==
    ASSUME NEW r, NEW i \in Nat \ {0}, NEW types
    PROVE  LastOf(r, i + 1, types) = IF r[i].type \in types THEN i ELSE LastOf(r, i, types)
<1> DEFINE m == LastOf(r, i, types)
           l == IF r[i].type \in types THEN i ELSE m
<1>1. IsLast(r, i, types, m)
  BY LastIs
<1> HIDE DEF m
<1>2. i + 1 \in Nat \ {0} /\ (i + 1) - 1 = i /\ \A j \in 1 .. i : j = i \/ j \in 1 .. i - 1
  OBVIOUS
<1>3. IsLast(r, i + 1, types, l)
  BY <1>1, <1>2 DEF IsLast
<1> HIDE DEF l
<1>4. LastOf(r, i + 1, types) = l
  BY <1>2, <1>3, LastUnique
<1> QED BY <1>4 DEF l, m

\* Items
IsSeq(s) == \E S : s \in Seq(S)
Extends(t, r, x) ==
    /\ IsSeq(t) /\ Len(r) \in Nat /\ Len(t) = Len(r) + 1 /\ t[Len(r) + 1] = x
    /\ DOMAIN r = 1 .. Len(r) /\ DOMAIN t = 1 .. Len(r) + 1
    /\ \A i \in 1 .. Len(r) : t[i] = r[i]

LEMMA AppendExtends == ASSUME NEW r, IsSeq(r), NEW x PROVE Extends(Append(r, x), r, x)
<1>1. PICK S : r \in Seq(S)
  BY DEF IsSeq
<1>2. r \in Seq(S \cup {x}) /\ x \in S \cup {x}
  BY <1>1
<1> DEFINE U == S \cup {x}
<1> HIDE DEF U
<1>3. r \in Seq(U) /\ x \in U
  BY <1>2 DEF U
<1>4. /\ Append(r, x) \in Seq(U) /\ Len(Append(r, x)) = Len(r) + 1 /\ Len(r) \in Nat
      /\ Append(r, x)[Len(r) + 1] = x /\ DOMAIN r = 1 .. Len(r)
      /\ DOMAIN Append(r, x) = 1 .. Len(r) + 1
      /\ \A i \in 1 .. Len(r) : Append(r, x)[i] = r[i]
  BY <1>3
<1> QED BY <1>4 DEF Extends, IsSeq

LEMMA CommitOne == ASSUME NEW r, IsSeq(r), NEW x PROVE r \o <<x>> = Append(r, x)
<1>1. PICK S : r \in Seq(S)
  BY DEF IsSeq
<1> DEFINE U == S \cup {x}
<1>2. r \in Seq(U) /\ x \in U
  BY <1>1
<1> HIDE DEF U
<1> QED BY <1>2, AppendIsConcat

LEMMA CommitTwo ==
    ASSUME NEW r, IsSeq(r), NEW x, NEW y
    PROVE  r \o Append(<<x>>, y) = Append(Append(r, x), y)
<1>1. PICK S : r \in Seq(S)
  BY DEF IsSeq
<1> DEFINE U == S \cup {x, y}
<1>2. r \in Seq(U) /\ x \in U /\ y \in U
  BY <1>1
<1> HIDE DEF U
<1>3. <<x>> \in Seq(U) /\ <<y>> \in Seq(U) /\ Append(<<x>>, y) = <<x>> \o <<y>>
  BY <1>2, AppendIsConcat
<1>4. r \o (<<x>> \o <<y>>) = (r \o <<x>>) \o <<y>>
  BY <1>2, <1>3, SMTT(30)
<1>5. r \o <<x>> = Append(r, x) /\ Append(r, x) \in Seq(U)
  BY <1>2, AppendIsConcat
<1>6. Append(r, x) \o <<y>> = Append(Append(r, x), y)
  BY <1>2, <1>5, AppendIsConcat
<1> QED BY <1>3, <1>4, <1>5, <1>6

\* Event counts
Count(r, a, b) == Cardinality({j \in a .. b : r[j].type = "PHYSICS_EVENT"})

LEMMA CountSame ==
    ASSUME NEW r, NEW s, NEW a, NEW b, \A j \in a .. b : r[j] = s[j]
    PROVE  Count(r, a, b) = Count(s, a, b)
<1>1. {j \in a .. b : r[j].type = "PHYSICS_EVENT"} = {j \in a .. b : s[j].type = "PHYSICS_EVENT"}
  OBVIOUS
<1> QED BY <1>1 DEF Count

LEMMA CountNone == ASSUME NEW r, NEW a \in Int, NEW b \in Int, b < a PROVE Count(r, a, b) = 0
<1>1. {j \in a .. b : r[j].type = "PHYSICS_EVENT"} = {}
  OBVIOUS
<1> QED BY <1>1, FS_EmptySet DEF Count

LEMMA CountNext ==
    ASSUME NEW r, NEW a \in Int, NEW b \in Int, a <= b + 1
    PROVE  Count(r, a, b) \in Nat
           /\ Count(r, a, b + 1) = IF r[b + 1].type = "PHYSICS_EVENT" THEN Count(r, a, b) + 1
                                   ELSE Count(r, a, b)
<1> DEFINE R == {j \in a .. b : r[j].type = "PHYSICS_EVENT"}
           Q == {j \in a .. b + 1 : r[j].type = "PHYSICS_EVENT"}
<1>1. IsFiniteSet(a .. b)
  BY FS_Interval
<1>2. R \subseteq a .. b
  OBVIOUS
<1>3. Q = IF r[b + 1].type = "PHYSICS_EVENT" THEN R \cup {b + 1} ELSE R
  OBVIOUS
<1>4. b + 1 \notin R
  OBVIOUS
<1>5. Count(r, a, b) = Cardinality(R) /\ Count(r, a, b + 1) = Cardinality(Q)
  BY DEF Count
<1> HIDE DEF R, Q
<1>6. IsFiniteSet(R)
  BY <1>1, <1>2, FS_Subset
<1>7. Cardinality(R) \in Nat /\ Cardinality(R \cup {b + 1}) = Cardinality(R) + 1
  BY <1>4, <1>6, FS_AddElement, FS_CardinalityType
<1> QED BY <1>3, <1>5, <1>7

Begins == {"BEGIN_RUN"}
Scalers == {"PERIODIC_SCALERS"}
Counts(r, events, all) ==
    /\ \A i \in DOMAIN r : r[i].type = "PHYSICS_EVENT_COUNT" =>
         r[i].events = Count(r, LastOf(r, i, Begins) + 1, i - 1)
    /\ events = Count(r, LastOf(r, Len(r) + 1, Begins) + 1, Len(r))
    /\ all = Count(r, 1, Len(r))

\* What is before the new item is what it was.
LEMMA LastKept ==
    ASSUME NEW r, NEW t, NEW x, Extends(t, r, x), NEW i \in 1 .. Len(r) + 1, NEW types
    PROVE  LastOf(t, i, types) = LastOf(r, i, types)
           /\ LastOf(r, i, types) \in 0 .. i - 1 /\ LastOf(r, i, types) \in Int
<1>1. i \in Nat \ {0} /\ \A j \in 1 .. i - 1 : t[j] = r[j]
  BY DEF Extends
<1>2. IsLast(r, i, types, LastOf(r, i, types))
  BY <1>1, LastIs
<1> QED BY <1>1, <1>2, LastSame DEF IsLast

LEMMA LastAfter ==
    ASSUME NEW r, NEW t, NEW x, Extends(t, r, x), NEW types
    PROVE  LastOf(t, Len(t) + 1, types) =
             IF x.type \in types THEN Len(r) + 1 ELSE LastOf(r, Len(r) + 1, types)
<1>1. Len(r) + 1 \in Nat \ {0} /\ Len(r) + 1 \in 1 .. Len(r) + 1 /\ Len(t) = Len(r) + 1
      /\ t[Len(r) + 1] = x
  BY DEF Extends
<1>2. LastOf(t, Len(r) + 1, types) = LastOf(r, Len(r) + 1, types)
  BY <1>1, LastKept
<1>3. LastOf(t, (Len(r) + 1) + 1, types) =
        IF t[Len(r) + 1].type \in types THEN Len(r) + 1 ELSE LastOf(t, Len(r) + 1, types)
  BY <1>1, LastNext
<1> QED BY <1>1, <1>2, <1>3

LEMMA CountsAppend ==
    ASSUME NEW r, NEW t, NEW x, Extends(t, r, x), NEW events, NEW all, Counts(r, events, all),
           x.type = "PHYSICS_EVENT_COUNT" => x.events = events
    PROVE  Counts(t, IF x.type = "BEGIN_RUN" THEN 0
                     ELSE IF x.type = "PHYSICS_EVENT" THEN events + 1 ELSE events,
                  IF x.type = "PHYSICS_EVENT" THEN all + 1 ELSE all)
<1> DEFINE n == Len(r)
           l == LastOf(r, n + 1, Begins)
<1>1. n \in Nat /\ Len(t) = n + 1 /\ t[n + 1] = x /\ DOMAIN r = 1 .. n /\ DOMAIN t = 1 .. n + 1
      /\ \A i \in 1 .. n : t[i] = r[i]
  BY DEF Extends
<1>2. n + 1 \in 1 .. n + 1 /\ (n + 1) - 1 = n /\ n \in Int /\ n + 1 \in Int
  BY <1>1
<1>3. l \in 0 .. n /\ l \in Int /\ LastOf(t, n + 1, Begins) = l
  BY <1>2, LastKept
<1>4. LastOf(t, Len(t) + 1, Begins) = IF x.type \in Begins THEN n + 1 ELSE l
  BY LastAfter
<1>5. events = Count(r, l + 1, n) /\ all = Count(r, 1, n)
  BY DEF Counts
<1> HIDE DEF n, l
<1>6. Count(t, l + 1, n) = events /\ Count(t, 1, n) = all
  <2>1. \A j \in l + 1 .. n : t[j] = r[j]
    BY <1>1, <1>3
  <2>2. \A j \in 1 .. n : t[j] = r[j]
    BY <1>1
  <2> QED BY <2>1, <2>2, <1>5, CountSame
<1>7. ASSUME NEW i \in 1 .. n, t[i].type = "PHYSICS_EVENT_COUNT"
      PROVE  t[i].events = Count(t, LastOf(t, i, Begins) + 1, i - 1)
  <2>1. i \in 1 .. Len(r) + 1
    BY <1>1 DEF n
  <2> DEFINE k == LastOf(r, i, Begins)
  <2>2. LastOf(t, i, Begins) = k /\ k \in 0 .. i - 1 /\ k \in Int
    BY <2>1, LastKept
  <2>3. t[i] = r[i] /\ r[i].events = Count(r, k + 1, i - 1)
    BY <1>1, <1>7 DEF Counts
  <2> HIDE DEF k
  <2>4. \A j \in k + 1 .. i - 1 : r[j] = t[j]
    BY <2>2, <1>1
  <2>5. Count(r, k + 1, i - 1) = Count(t, k + 1, i - 1)
    BY <2>4, CountSame
  <2> QED BY <2>2, <2>3, <2>5
<1>8. ASSUME NEW i \in 1 .. n + 1, t[i].type = "PHYSICS_EVENT_COUNT"
      PROVE  t[i].events = Count(t, LastOf(t, i, Begins) + 1, i - 1)
  <2>1. CASE i = n + 1
    BY <2>1, <1>1, <1>2, <1>3, <1>6, <1>8
  <2>2. CASE i # n + 1
    <3>1. i \in 1 .. n
      BY <2>2, <1>1
    <3> QED BY <3>1, <1>7, <1>8
  <2> QED BY <2>1, <2>2
<1>9. Count(t, 1, n + 1) = IF x.type = "PHYSICS_EVENT" THEN all + 1 ELSE all
  <2>1. 1 <= n + 1 /\ 1 \in Int
    BY <1>1
  <2>2. Count(t, 1, n + 1) = IF t[n + 1].type = "PHYSICS_EVENT" THEN Count(t, 1, n) + 1
                              ELSE Count(t, 1, n)
    BY <2>1, <1>2, CountNext
  <2> QED BY <2>2, <1>1, <1>6
<1>10. Count(t, l + 1, n + 1) = IF x.type = "PHYSICS_EVENT" THEN events + 1 ELSE events
  <2>1. l + 1 <= n + 1 /\ l + 1 \in Int
    BY <1>1, <1>3
  <2>2. Count(t, l + 1, n + 1) = IF t[n + 1].type = "PHYSICS_EVENT" THEN Count(t, l + 1, n) + 1
                                  ELSE Count(t, l + 1, n)
    BY <2>1, <1>2, CountNext
  <2> QED BY <2>2, <1>1, <1>6
<1>11. Count(t, (n + 1) + 1, n + 1) = 0
  <2>1. (n + 1) + 1 \in Int /\ n + 1 < (n + 1) + 1
    BY <1>1
  <2> QED BY <2>1, <1>2, CountNone
<1> DEFINE events2 == IF x.type = "BEGIN_RUN" THEN 0
                      ELSE IF x.type = "PHYSICS_EVENT" THEN events + 1 ELSE events
<1>12. events2 = Count(t, LastOf(t, Len(t) + 1, Begins) + 1, Len(t))
  <2>1. CASE x.type = "BEGIN_RUN"
    BY <2>1, <1>1, <1>4, <1>11 DEF Begins
  <2>2. CASE x.type # "BEGIN_RUN"
    BY <2>2, <1>1, <1>4, <1>10 DEF Begins
  <2> QED BY <2>1, <2>2
<1> HIDE DEF events2
<1>13. Counts(t, events2, IF x.type = "PHYSICS_EVENT" THEN all + 1 ELSE all)
  BY <1>1, <1>8, <1>9, <1>12 DEF Counts
<1> QED BY <1>13 DEF events2

\* Scaler intervals
Starts(r, i) ==
    IF LastOf(r, i, Scalers) > LastOf(r, i, Begins) THEN r[LastOf(r, i, Scalers)].to ELSE 0
Tiles(r, ended) ==
    /\ \A i \in DOMAIN r : r[i].type = "PERIODIC_SCALERS" =>
         r[i].from <= r[i].to /\ r[i].from = Starts(r, i)
    /\ ended = Starts(r, Len(r) + 1)

LEMMA TilesAppend ==
    ASSUME NEW r, NEW t, NEW x, Extends(t, r, x), NEW ended, Tiles(r, ended),
           x.type = "PERIODIC_SCALERS" => x.from = ended /\ x.from <= x.to
    PROVE  Tiles(t, IF x.type = "PERIODIC_SCALERS" THEN x.to
                    ELSE IF x.type = "BEGIN_RUN" THEN 0 ELSE ended)
<1> DEFINE n == Len(r)
<1>1. n \in Nat /\ Len(t) = n + 1 /\ t[n + 1] = x /\ DOMAIN r = 1 .. n /\ DOMAIN t = 1 .. n + 1
      /\ \A i \in 1 .. n : t[i] = r[i]
  BY DEF Extends
<1>2. ASSUME NEW i \in 1 .. n + 1 PROVE Starts(t, i) = Starts(r, i)
  <2> DEFINE s == LastOf(r, i, Scalers)
             b == LastOf(r, i, Begins)
  <2>1. LastOf(t, i, Scalers) = s /\ LastOf(t, i, Begins) = b
        /\ s \in 0 .. i - 1 /\ s \in Int /\ b \in 0 .. i - 1 /\ b \in Int
    BY LastKept
  <2> HIDE DEF s, b
  <2>2. s > b => t[s] = r[s]
    <3>1. s > b => s \in 1 .. n
      BY <2>1, <1>1
    <3> QED BY <3>1, <1>1
  <2> QED BY <2>1, <2>2 DEF Starts, s, b
<1>3. ended = Starts(r, n + 1) /\ n + 1 \in 1 .. n + 1
  BY <1>1 DEF Tiles
<1>4. ASSUME NEW i \in 1 .. n + 1, t[i].type = "PERIODIC_SCALERS"
      PROVE  t[i].from <= t[i].to /\ t[i].from = Starts(t, i)
  <2>1. CASE i = n + 1
    BY <2>1, <1>1, <1>2, <1>3, <1>4
  <2>2. CASE i # n + 1
    <3>1. i \in 1 .. n
      BY <2>2, <1>1
    <3> QED BY <3>1, <1>1, <1>2, <1>4 DEF Tiles
  <2> QED BY <2>1, <2>2
<1> DEFINE s == LastOf(r, n + 1, Scalers)
           b == LastOf(r, n + 1, Begins)
<1>5. s \in 0 .. n /\ s \in Int /\ b \in 0 .. n /\ b \in Int
  <2>1. (n + 1) - 1 = n
    BY <1>1
  <2> QED BY <2>1, <1>3, LastKept
<1>6. /\ LastOf(t, Len(t) + 1, Scalers) = IF x.type \in Scalers THEN n + 1 ELSE s
      /\ LastOf(t, Len(t) + 1, Begins) = IF x.type \in Begins THEN n + 1 ELSE b
  BY LastAfter
<1>7. s > b => t[s] = r[s]
  <2>1. s > b => s \in 1 .. n
    BY <1>5, <1>1
  <2> QED BY <2>1, <1>1
<1>8. Starts(r, n + 1) = IF s > b THEN r[s].to ELSE 0
  BY DEF Starts
<1> HIDE DEF n, s, b
<1> DEFINE stop2 == IF x.type = "PERIODIC_SCALERS" THEN x.to
                    ELSE IF x.type = "BEGIN_RUN" THEN 0 ELSE ended
<1>9. stop2 = Starts(t, Len(t) + 1)
  <2>1. CASE x.type = "PERIODIC_SCALERS"
    <3>1. LastOf(t, Len(t) + 1, Scalers) = n + 1 /\ LastOf(t, Len(t) + 1, Begins) = b
      BY <2>1, <1>6 DEF Scalers, Begins
    <3>2. n + 1 > b
      BY <1>1, <1>5
    <3> QED BY <2>1, <3>1, <3>2, <1>1 DEF Starts
  <2>2. CASE x.type = "BEGIN_RUN"
    <3>1. LastOf(t, Len(t) + 1, Scalers) = s /\ LastOf(t, Len(t) + 1, Begins) = n + 1
      BY <2>2, <1>6 DEF Scalers, Begins
    <3>2. ~(s > n + 1)
      BY <1>1, <1>5
    <3> QED BY <2>2, <3>1, <3>2 DEF Starts
  <2>3. CASE x.type # "PERIODIC_SCALERS" /\ x.type # "BEGIN_RUN"
    <3>1. LastOf(t, Len(t) + 1, Scalers) = s /\ LastOf(t, Len(t) + 1, Begins) = b
      BY <2>3, <1>6 DEF Scalers, Begins
    <3> QED BY <2>3, <3>1, <1>3, <1>7, <1>8 DEF Starts
  <2> QED BY <2>1, <2>2, <2>3
<1> HIDE DEF stop2
<1>10. Tiles(t, stop2)
  BY <1>1, <1>4, <1>9 DEF Tiles
<1> QED BY <1>10 DEF stop2

\* State changes: whether the items end in a run, a pause or between runs
Changes == FR!StateChanges
ClassOf(type) == IF type = "PAUSE_RUN" THEN "pause" ELSE IF type = "END_RUN" THEN "halt" ELSE "run"
EndClass(r) ==
    LET l == LastOf(r, Len(r) + 1, Changes) IN IF l = 0 THEN "halt" ELSE ClassOf(r[l].type)
May(q, type) ==
    CASE type = "BEGIN_RUN" -> q = "halt"
      [] type = "PAUSE_RUN" -> q = "run"
      [] type = "RESUME_RUN" -> q = "pause"
      [] type = "END_RUN" -> q \in {"run", "pause"}
      [] OTHER -> TRUE
Follows(r, l, type) == IF l = 0 THEN type = "BEGIN_RUN" ELSE <<r[l].type, type>> \in FR!MayFollow
Nested(r) ==
    \A i \in DOMAIN r : r[i].type \in Changes => Follows(r, LastOf(r, i, Changes), r[i].type)
Labels(r, num) ==
    /\ \A i \in DOMAIN r : r[i].type \in Changes \ {"BEGIN_RUN"} =>
         LET l == LastOf(r, i, Changes) IN l # 0 => r[l].run = r[i].run
    /\ EndClass(r) # "halt" => r[LastOf(r, Len(r) + 1, Changes)].run = num

LEMMA EndClassAppend ==
    ASSUME NEW r, NEW t, NEW x, Extends(t, r, x)
    PROVE  EndClass(t) = IF x.type \in Changes THEN ClassOf(x.type) ELSE EndClass(r)
<1> DEFINE n == Len(r)
           l == LastOf(r, n + 1, Changes)
<1>1. n \in Nat /\ Len(t) = n + 1 /\ t[n + 1] = x /\ \A i \in 1 .. n : t[i] = r[i]
  BY DEF Extends
<1>2. n + 1 \in 1 .. n + 1 /\ (n + 1) - 1 = n
  BY <1>1
<1>3. l \in 0 .. n /\ l \in Int
  BY <1>2, LastKept
<1>4. LastOf(t, Len(t) + 1, Changes) = IF x.type \in Changes THEN n + 1 ELSE l
  BY LastAfter
<1>5. EndClass(r) = IF l = 0 THEN "halt" ELSE ClassOf(r[l].type)
  BY DEF EndClass
<1> HIDE DEF n, l
<1>6. n + 1 # 0 /\ (l # 0 => l \in 1 .. n)
  BY <1>1, <1>3
<1>7. CASE x.type \in Changes
  BY <1>7, <1>4, <1>6, <1>1 DEF EndClass
<1>8. CASE x.type \notin Changes
  <2>1. LastOf(t, Len(t) + 1, Changes) = l
    BY <1>8, <1>4
  <2>2. l # 0 => t[l] = r[l]
    BY <1>1, <1>6
  <2> QED BY <1>8, <2>1, <2>2, <1>5 DEF EndClass
<1> QED BY <1>7, <1>8

\* A last state change that is there is one, before the end.
LEMMA LastThere ==
    ASSUME NEW r, NEW n \in Nat, NEW l, l = LastOf(r, n + 1, Changes)
    PROVE  l \in 0 .. n /\ l \in Int /\ (l # 0 => l \in 1 .. n /\ r[l].type \in Changes)
<1>1. n + 1 \in Nat \ {0} /\ (n + 1) - 1 = n
  OBVIOUS
<1>2. IsLast(r, n + 1, Changes, l)
  BY <1>1, LastIs
<1> QED BY <1>1, <1>2 DEF IsLast

LEMMA NestedAppend ==
    ASSUME NEW r, NEW t, NEW x, Extends(t, r, x), Nested(r), May(EndClass(r), x.type)
    PROVE  Nested(t)
<1> DEFINE n == Len(r)
           l == LastOf(r, n + 1, Changes)
<1>1. n \in Nat /\ Len(t) = n + 1 /\ t[n + 1] = x /\ DOMAIN r = 1 .. n /\ DOMAIN t = 1 .. n + 1
      /\ \A i \in 1 .. n : t[i] = r[i]
  BY DEF Extends
<1>2. n + 1 \in 1 .. n + 1
  BY <1>1
<1>3. LastOf(t, n + 1, Changes) = l
  BY <1>2, LastKept
<1>4. l \in Int /\ (l # 0 => l \in 1 .. n /\ r[l].type \in Changes)
  BY <1>1, LastThere
<1>5. EndClass(r) = IF l = 0 THEN "halt" ELSE ClassOf(r[l].type)
  BY DEF EndClass
<1> HIDE DEF n, l
<1>6. x.type \in Changes => Follows(r, l, x.type)
  <2>1. CASE l = 0
    BY <2>1, <1>5 DEF May, Follows, Changes, FR!StateChanges
  <2>2. CASE l # 0
    BY <2>2, <1>4, <1>5 DEF May, Follows, Changes, FR!StateChanges, FR!MayFollow, ClassOf
  <2> QED BY <2>1, <2>2
<1>7. l # 0 => t[l] = r[l]
  BY <1>1, <1>4
<1>8. x.type \in Changes => Follows(t, l, x.type)
  BY <1>6, <1>7 DEF Follows
<1>9. ASSUME NEW i \in 1 .. n, t[i].type \in Changes
      PROVE  Follows(t, LastOf(t, i, Changes), t[i].type)
  <2>1. i \in 1 .. Len(r) + 1
    BY <1>1 DEF n
  <2> DEFINE k == LastOf(r, i, Changes)
  <2>2. LastOf(t, i, Changes) = k /\ k \in 0 .. i - 1 /\ k \in Int
    BY <2>1, LastKept
  <2>3. t[i] = r[i] /\ Follows(r, k, r[i].type)
    BY <1>1, <1>9 DEF Nested
  <2> HIDE DEF k
  <2>4. k # 0 => t[k] = r[k]
    BY <2>2, <1>1
  <2> QED BY <2>2, <2>3, <2>4 DEF Follows
<1>10. \A i \in 1 .. n + 1 : i = n + 1 \/ i \in 1 .. n
  BY <1>1
<1> QED BY <1>1, <1>3, <1>8, <1>9, <1>10 DEF Nested

LEMMA LabelsAppend ==
    ASSUME NEW r, NEW t, NEW x, Extends(t, r, x), NEW num, Labels(r, num),
           May(EndClass(r), x.type), x.type \in Changes => x.run = num
    PROVE  Labels(t, num)
<1> DEFINE n == Len(r)
           l == LastOf(r, n + 1, Changes)
<1>1. n \in Nat /\ Len(t) = n + 1 /\ t[n + 1] = x /\ DOMAIN r = 1 .. n /\ DOMAIN t = 1 .. n + 1
      /\ \A i \in 1 .. n : t[i] = r[i]
  BY DEF Extends
<1>2. n + 1 \in 1 .. n + 1
  BY <1>1
<1>3. LastOf(t, n + 1, Changes) = l
  BY <1>2, LastKept
<1>4. l \in Int /\ (l # 0 => l \in 1 .. n /\ r[l].type \in Changes)
  BY <1>1, LastThere
<1>5. EndClass(r) # "halt" => r[l].run = num
  BY DEF Labels
<1>6. LastOf(t, Len(t) + 1, Changes) = IF x.type \in Changes THEN n + 1 ELSE l
  BY LastAfter
<1>7. EndClass(t) = IF x.type \in Changes THEN ClassOf(x.type) ELSE EndClass(r)
  BY EndClassAppend
<1>8. EndClass(r) = IF l = 0 THEN "halt" ELSE ClassOf(r[l].type)
  BY DEF EndClass
<1> HIDE DEF n, l
<1>9. l # 0 => t[l] = r[l]
  BY <1>1, <1>4
<1>10. x.type \in Changes \ {"BEGIN_RUN"} => EndClass(r) # "halt"
  BY DEF May, Changes, FR!StateChanges
<1>11. x.type \in Changes \ {"BEGIN_RUN"} /\ l # 0 => t[l].run = x.run
  BY <1>10, <1>5, <1>9
<1>12. ASSUME NEW i \in 1 .. n, t[i].type \in Changes \ {"BEGIN_RUN"}, LastOf(t, i, Changes) # 0
       PROVE  t[LastOf(t, i, Changes)].run = t[i].run
  <2>1. i \in 1 .. Len(r) + 1
    BY <1>1 DEF n
  <2> DEFINE k == LastOf(r, i, Changes)
  <2>2. LastOf(t, i, Changes) = k /\ k \in 0 .. i - 1 /\ k \in Int
    BY <2>1, LastKept
  <2>3. t[i] = r[i] /\ (k # 0 => r[k].run = r[i].run)
    BY <1>1, <1>12 DEF Labels
  <2> HIDE DEF k
  <2>4. k # 0 => t[k] = r[k]
    BY <2>2, <1>1
  <2> QED BY <2>2, <2>3, <2>4, <1>12
<1>13. \A i \in 1 .. n + 1 : i = n + 1 \/ i \in 1 .. n
  BY <1>1
<1>14. \A i \in DOMAIN t : t[i].type \in Changes \ {"BEGIN_RUN"} /\ LastOf(t, i, Changes) # 0
          => t[LastOf(t, i, Changes)].run = t[i].run
  BY <1>1, <1>3, <1>11, <1>12, <1>13
<1>15. EndClass(t) # "halt" => t[LastOf(t, Len(t) + 1, Changes)].run = num
  <2>1. CASE x.type \in Changes
    BY <2>1, <1>6, <1>1
  <2>2. CASE x.type \notin Changes
    <3>1. EndClass(r) # "halt" => l # 0
      BY <1>8
    <3> QED BY <2>2, <3>1, <1>5, <1>6, <1>7, <1>9
  <2> QED BY <2>1, <2>2
<1> QED BY <1>14, <1>15 DEF Labels

-----------------------------------------------------------------------------
(* Walks: a sequence of letters that leads from one class to another       *)
Walk(R, b, p, q) ==
    \E g : /\ g[0] = p /\ g[Len(b)] = q
           /\ \A i \in 1 .. Len(b) : <<g[i - 1], b[i], g[i]>> \in R

LEMMA WalkEmpty == ASSUME NEW R, NEW p, NEW q PROVE Walk(R, <<>>, p, q) <=> p = q
<1>1. Len(<<>>) = 0 /\ 1 .. 0 = {}
  OBVIOUS
<1>2. ASSUME p = q PROVE Walk(R, <<>>, p, q)
  <2> DEFINE g == [i \in {0} |-> p]
  <2>1. g[0] = p
    OBVIOUS
  <2> HIDE DEF g
  <2> QED BY <2>1, <1>1, <1>2 DEF Walk
<1>3. ASSUME Walk(R, <<>>, p, q) PROVE p = q
  BY <1>1, <1>3 DEF Walk
<1> QED BY <1>2, <1>3

LEMMA WalkAppend ==
    ASSUME NEW R, NEW S, NEW b \in Seq(S), NEW x \in S, NEW p, NEW q, NEW q2,
           Walk(R, b, p, q), <<q, x, q2>> \in R
    PROVE  Walk(R, Append(b, x), p, q2)
<1>1. PICK g : /\ g[0] = p /\ g[Len(b)] = q
               /\ \A i \in 1 .. Len(b) : <<g[i - 1], b[i], g[i]>> \in R
  BY DEF Walk
<1> DEFINE n == Len(b)
           c == Append(b, x)
           h == [i \in 0 .. n + 1 |-> IF i = n + 1 THEN q2 ELSE g[i]]
<1>2. n \in Nat /\ Len(c) = n + 1 /\ c[n + 1] = x /\ \A i \in 1 .. n : c[i] = b[i]
  OBVIOUS
<1> HIDE DEF n, c
<1>3. h[n + 1] = q2 /\ \A i \in 0 .. n : h[i] = g[i]
  BY <1>2
<1> HIDE DEF h
<1>4. h[0] = p /\ h[n] = q
  BY <1>1, <1>2, <1>3 DEF n
<1>5. ASSUME NEW i \in 1 .. n + 1 PROVE <<h[i - 1], c[i], h[i]>> \in R
  <2>1. CASE i = n + 1
    <3>1. i - 1 = n
      BY <2>1, <1>2
    <3> QED BY <3>1, <2>1, <1>2, <1>3, <1>4
  <2>2. CASE i # n + 1
    <3>1. i \in 1 .. n /\ i - 1 \in 0 .. n /\ i \in 0 .. n
      BY <2>2, <1>2
    <3> QED BY <3>1, <1>1, <1>2, <1>3 DEF n
  <2> QED BY <2>1, <2>2
<1>6. Walk(R, c, p, q2)
  BY <1>2, <1>3, <1>4, <1>5 DEF Walk
<1> QED BY <1>6 DEF c

LEMMA WalkTail ==
    ASSUME NEW R, NEW S, NEW b \in Seq(S), b # <<>>, NEW p, NEW q, Walk(R, b, p, q)
    PROVE  \E p2 : <<p, Head(b), p2>> \in R /\ Walk(R, Tail(b), p2, q)
<1>1. PICK g : /\ g[0] = p /\ g[Len(b)] = q
               /\ \A i \in 1 .. Len(b) : <<g[i - 1], b[i], g[i]>> \in R
  BY DEF Walk
<1> DEFINE n == Len(b)
           c == Tail(b)
           h == [i \in 0 .. n - 1 |-> g[i + 1]]
<1>2. n \in Nat \ {0} /\ Len(c) = n - 1 /\ b[1] = Head(b) /\ \A i \in 1 .. n - 1 : c[i] = b[i + 1]
  OBVIOUS
<1> HIDE DEF n, c
<1>3. \A i \in 0 .. n - 1 : h[i] = g[i + 1]
  OBVIOUS
<1> HIDE DEF h
<1>4. h[0] = g[1] /\ h[n - 1] = q
  <2>1. 0 \in 0 .. n - 1 /\ n - 1 \in 0 .. n - 1 /\ (n - 1) + 1 = n /\ 0 + 1 = 1
    BY <1>2
  <2>2. h[0] = g[0 + 1] /\ h[n - 1] = g[(n - 1) + 1]
    BY <2>1, <1>3
  <2> QED BY <2>1, <2>2, <1>1 DEF n
<1>5. ASSUME NEW i \in 1 .. n - 1 PROVE <<h[i - 1], c[i], h[i]>> \in R
  <2>1. i + 1 \in 1 .. n /\ (i + 1) - 1 = i /\ (i - 1) + 1 = i /\ i - 1 \in 0 .. n - 1 /\ i \in 0 .. n - 1
    BY <1>2
  <2>2. <<g[(i + 1) - 1], b[i + 1], g[i + 1]>> \in R
    BY <2>1, <1>1 DEF n
  <2>3. h[i - 1] = g[(i - 1) + 1] /\ h[i] = g[i + 1] /\ c[i] = b[i + 1]
    BY <2>1, <1>2, <1>3
  <2> QED BY <2>1, <2>2, <2>3
<1>6. Walk(R, c, g[1], q)
  BY <1>2, <1>4, <1>5 DEF Walk
<1>7. <<p, Head(b), g[1]>> \in R
  <2>1. 1 \in 1 .. n /\ 1 - 1 = 0
    BY <1>2
  <2>2. <<g[1 - 1], b[1], g[1]>> \in R
    BY <2>1, <1>1 DEF n
  <2> QED BY <2>1, <2>2, <1>1, <1>2
<1> QED BY <1>6, <1>7 DEF c

Sections == {"BeginRun", "EndRun", "Pause", "Resume", "event", "scaler"}
Classes == {"halt", "run", "pause"}
Moves == {<<"halt", "BeginRun", "run">>, <<"run", "Pause", "pause">>, <<"pause", "Resume", "run">>,
          <<"run", "EndRun", "halt">>, <<"pause", "EndRun", "halt">>}
         \cup {<<q, s, q>> : q \in Classes, s \in {"event", "scaler"}}
Buffers == {b \in Classes \X Seq(Sections) \X Classes : Walk(Moves, b[2], b[1], b[3])}

LEMMA MoveMeans ==
    ASSUME NEW p, NEW s, NEW q, <<p, s, q>> \in Moves
    PROVE  /\ p \in Classes /\ q \in Classes /\ s \in Sections
           /\ s = "BeginRun" => p = "halt" /\ q = "run"
           /\ s = "Pause" => p = "run" /\ q = "pause"
           /\ s = "Resume" => p = "pause" /\ q = "run"
           /\ s = "EndRun" => p \in {"run", "pause"} /\ q = "halt"
           /\ s \in {"event", "scaler"} => p = q
BY DEF Moves, Classes, Sections

LEMMA BufferMeans ==
    ASSUME NEW p, NEW b, NEW q
    PROVE  <<p, b, q>> \in Buffers <=>
             p \in Classes /\ b \in Seq(Sections) /\ q \in Classes /\ Walk(Moves, b, p, q)
<1> DEFINE S == Seq(Sections)
           P(x) == Walk(Moves, x[2], x[1], x[3])
<1>1. <<p, b, q>> \in {x \in Classes \X S \X Classes : P(x)} <=>
        p \in Classes /\ b \in S /\ q \in Classes /\ P(<<p, b, q>>)
  <2> HIDE DEF S, P
  <2> QED OBVIOUS
<1>2. P(<<p, b, q>>) <=> Walk(Moves, b, p, q)
  <2>1. <<p, b, q>>[1] = p /\ <<p, b, q>>[2] = b /\ <<p, b, q>>[3] = q
    OBVIOUS
  <2> QED BY <2>1
<1> QED BY <1>1, <1>2 DEF Buffers

\* Where the worker stands when its last section is written
WorkerAt(q) ==
    CASE worker \in {"Idle", "Starting"} -> q = "halt"
      [] worker = "Running" -> q = IF changing THEN "pause" ELSE "run"
      [] worker = "Paused" -> q = IF changing THEN "run" ELSE "pause"
      [] OTHER -> q \in {"run", "pause"}

RunTypes ==
    /\ IsSeq(ring) /\ parsing \in Seq(Sections) /\ outBuf \in Seq(Sections)
    /\ snoopFilled \in Seq(Seq(Sections))
    /\ lostForParser \in BOOLEAN /\ outSnoop \in BOOLEAN /\ changing \in BOOLEAN
    /\ early \in BOOLEAN /\ parserHolds \in BOOLEAN
    /\ worker \in {"Idle", "Starting", "Running", "Paused", "Stopping"}
    /\ parsing # <<>> => parserHolds
    /\ worker \in {"Idle", "Starting"} => outBuf = <<>>
    /\ changing => worker \in {"Running", "Paused"}
StatsInv ==
    /\ Counts(ring, s_events, s_cumulative_events)
    /\ Tiles(ring, s_lastScalerStopTime)
    /\ s_lastScalerStopTime \in Int /\ s_timing \in Int /\ clock \in Int
    /\ s_lastScalerStopTime <= clock - s_timing
OrderInv ==
    /\ ~lostForParser => Nested(ring)
    /\ ~lostForParser /\ ~early => Labels(ring, s_runNumber)
FlowAt(q1, q2, q3) ==
    /\ Walk(Moves, parsing, EndClass(ring), q1)
    /\ Walk(Buffers, snoopFilled, q1, q2)
    /\ Walk(Moves, outBuf, q2, q3)
    /\ WorkerAt(q3)
FlowInv == ~lostForParser => \E q1, q2, q3 \in Classes : FlowAt(q1, q2, q3)
QuietInv ==
    /\ worker \in {"Running", "Paused"} =>
         s_runState # "Halted" \/ (cmd = "begin" /\ future = "ok")
    /\ worker = "Starting" => cmd = "begin" /\ future = "none"
RunInv == RunTypes /\ StatsInv /\ OrderInv /\ FlowInv /\ QuietInv

LEMMA RunStart == FR!Init => RunInv
<1> SUFFICES ASSUME FR!Init PROVE RunInv
  OBVIOUS
<1>1. /\ ring = <<>> /\ parsing = <<>> /\ outBuf = <<>> /\ snoopFilled = <<>>
      /\ lostForParser = FALSE /\ outSnoop = FALSE /\ changing = FALSE /\ early = FALSE
      /\ parserHolds = FALSE /\ worker = "Idle" /\ s_events = 0 /\ s_cumulative_events = 0
      /\ s_lastScalerStopTime = 0 /\ s_timing = 0 /\ clock = 0
  BY DEF FR!Init
<1>2. \A S : <<>> \in Seq(S)
  OBVIOUS
<1>3. Len(ring) = 0 /\ DOMAIN ring = {} /\ 0 + 1 = 1
  BY <1>1
<1>4. \A types : LastOf(ring, 1, types) = 0
  BY DEF LastOf
<1>5. RunTypes
  BY <1>1, <1>2 DEF RunTypes, IsSeq
<1>6. Count(ring, 1, 0) = 0
  BY CountNone
<1>7. Counts(ring, 0, 0)
  BY <1>3, <1>4, <1>6 DEF Counts
<1>8. Tiles(ring, 0)
  <2>1. Starts(ring, 1) = 0
    BY <1>4 DEF Starts
  <2> QED BY <2>1, <1>3 DEF Tiles
<1>9. StatsInv
  BY <1>1, <1>7, <1>8 DEF StatsInv
<1>10. EndClass(ring) = "halt"
  BY <1>3, <1>4 DEF EndClass
<1>11. OrderInv
  BY <1>3, <1>10 DEF OrderInv, Nested, Labels
<1>12. FlowAt("halt", "halt", "halt")
  BY <1>1, <1>10, WalkEmpty DEF FlowAt, WorkerAt
<1>13. FlowInv
  BY <1>12 DEF FlowInv, Classes
<1> QED BY <1>1, <1>5, <1>9, <1>11, <1>13 DEF RunInv, QuietInv

-----------------------------------------------------------------------------
(* What a step leaves alone                                                *)
LEMMA StatsSame ==
    ASSUME StatsInv, UNCHANGED <<ring, s_events, s_cumulative_events, s_lastScalerStopTime, s_timing>>,
           clock' = clock \/ clock' = clock + 1
    PROVE  StatsInv'
BY DEF StatsInv

LEMMA OrderSame ==
    ASSUME OrderInv, UNCHANGED <<ring, s_runNumber>>, ~lostForParser' => ~lostForParser,
           ~early' => ~early
    PROVE  OrderInv'
BY DEF OrderInv

LEMMA FlowSame ==
    ASSUME FlowInv, UNCHANGED <<ring, parsing, snoopFilled, outBuf>>,
           ~lostForParser' => ~lostForParser, \A q \in Classes : WorkerAt(q) => WorkerAt(q)'
    PROVE  FlowInv'
<1> SUFFICES ASSUME ~lostForParser' PROVE \E q1, q2, q3 \in Classes : FlowAt(q1, q2, q3)'
  BY DEF FlowInv
<1>1. PICK q1 \in Classes, q2 \in Classes, q3 \in Classes : FlowAt(q1, q2, q3)
  BY DEF FlowInv
<1>2. FlowAt(q1, q2, q3)'
  BY <1>1 DEF FlowAt
<1> QED BY <1>2

LEMMA FlowWrites ==
    ASSUME RunTypes, FlowInv, NEW s \in Sections, FR!WriteSection(s), UNCHANGED <<ring, parsing>>,
           \A q \in Classes : WorkerAt(q) =>
             \E q2 \in Classes : <<q, s, q2>> \in Moves /\ WorkerAt(q2)'
    PROVE  FlowInv' /\ lostForParser' = lostForParser /\ outBuf' \in Seq(Sections)
           /\ snoopFilled' = snoopFilled /\ outSnoop' \in BOOLEAN
<1>1. outBuf' = Append(outBuf, s) /\ UNCHANGED <<snoopFilled, lostForParser>> /\ outSnoop' \in BOOLEAN
  BY DEF FR!WriteSection, RunTypes
<1>2. outBuf \in Seq(Sections) /\ Append(outBuf, s) \in Seq(Sections)
  BY DEF RunTypes
<1>3. ASSUME ~lostForParser PROVE \E q1, q2, q3 \in Classes : FlowAt(q1, q2, q3)'
  <2>1. PICK q1 \in Classes, q2 \in Classes, q3 \in Classes : FlowAt(q1, q2, q3)
    BY <1>3 DEF FlowInv
  <2>2. PICK q4 \in Classes : <<q3, s, q4>> \in Moves /\ WorkerAt(q4)'
    BY <2>1 DEF FlowAt
  <2>3. Walk(Moves, Append(outBuf, s), q2, q4)
    BY <2>1, <2>2, <1>2, WalkAppend DEF FlowAt
  <2>4. FlowAt(q1, q2, q4)'
    BY <2>1, <2>2, <2>3, <1>1 DEF FlowAt
  <2> QED BY <2>4
<1> QED BY <1>1, <1>2, <1>3 DEF FlowInv

\* A buffer that is flushed is queued as a whole, or lost
LEMMA FlowFlushes ==
    ASSUME RunTypes, FlowInv, NEW b \in Seq(Sections), NEW snoop \in BOOLEAN,
           outBuf' = <<>>,
           snoopFilled' = IF snoop THEN Append(snoopFilled, b) ELSE snoopFilled,
           lostForParser' = (lostForParser \/ ~snoop), UNCHANGED <<ring, parsing>>,
           \A q1 \in Classes, q2 \in Classes : Walk(Moves, outBuf, q1, q2) /\ WorkerAt(q2) =>
             \E q3 \in Classes : Walk(Moves, b, q1, q3) /\ WorkerAt(q3)'
    PROVE  FlowInv' /\ lostForParser' \in BOOLEAN /\ (~lostForParser' => ~lostForParser)
           /\ snoopFilled' \in Seq(Seq(Sections))
<1> DEFINE S == Seq(Sections)
<1>1. snoopFilled \in Seq(S) /\ b \in S /\ lostForParser \in BOOLEAN
  BY DEF RunTypes
<1> HIDE DEF S
<1>2. Append(snoopFilled, b) \in Seq(S)
  BY <1>1
<1>3. ASSUME ~lostForParser' PROVE \E q1, q2, q3 \in Classes : FlowAt(q1, q2, q3)'
  <2>1. ~lostForParser /\ snoop /\ snoopFilled' = Append(snoopFilled, b)
    BY <1>3
  <2>2. PICK q1 \in Classes, q2 \in Classes, q3 \in Classes : FlowAt(q1, q2, q3)
    BY <2>1 DEF FlowInv
  <2>3. PICK q4 \in Classes : Walk(Moves, b, q2, q4) /\ WorkerAt(q4)'
    BY <2>2 DEF FlowAt
  <2>4. <<q2, b, q4>> \in Buffers
    BY <2>3, BufferMeans
  <2>5. Walk(Buffers, Append(snoopFilled, b), q1, q4)
    BY <2>2, <2>4, <1>1, WalkAppend DEF FlowAt
  <2>6. Walk(Moves, <<>>, q4, q4)
    BY WalkEmpty
  <2>7. FlowAt(q1, q4, q4)'
    BY <2>1, <2>2, <2>3, <2>5, <2>6 DEF FlowAt
  <2> QED BY <2>7
<1>4. snoopFilled' \in Seq(S)
  BY <1>1, <1>2
<1> QED BY <1>1, <1>3, <1>4 DEF FlowInv, S

LEMMA FlowWritesAndFlushes ==
    ASSUME RunTypes, FlowInv, NEW s \in Sections, FR!WriteAndFlush(s), UNCHANGED <<ring, parsing>>,
           \A q \in Classes : WorkerAt(q) =>
             \E q2 \in Classes : <<q, s, q2>> \in Moves /\ WorkerAt(q2)'
    PROVE  FlowInv' /\ lostForParser' \in BOOLEAN /\ (~lostForParser' => ~lostForParser)
           /\ snoopFilled' \in Seq(Seq(Sections)) /\ outBuf' = <<>> /\ outSnoop' = FALSE
<1> DEFINE snoop == outSnoop \/ (outBuf = <<>> /\ FR!FreeSnoopBuffers > 0)
           b == Append(outBuf, s)
<1>1. /\ outBuf' = <<>> /\ outSnoop' = FALSE
      /\ snoopFilled' = IF snoop THEN Append(snoopFilled, b) ELSE snoopFilled
      /\ lostForParser' = (lostForParser \/ ~snoop)
  BY DEF FR!WriteAndFlush
<1>2. snoop \in BOOLEAN /\ outBuf \in Seq(Sections) /\ b \in Seq(Sections)
  BY DEF RunTypes
<1>3. ASSUME NEW q1 \in Classes, NEW q2 \in Classes, Walk(Moves, outBuf, q1, q2), WorkerAt(q2)
      PROVE  \E q3 \in Classes : Walk(Moves, b, q1, q3) /\ WorkerAt(q3)'
  <2>1. PICK q3 \in Classes : <<q2, s, q3>> \in Moves /\ WorkerAt(q3)'
    BY <1>3
  <2>2. Walk(Moves, b, q1, q3)
    BY <2>1, <1>2, <1>3, WalkAppend
  <2> QED BY <2>1, <2>2
<1> HIDE DEF snoop, b
<1>4. FlowInv' /\ lostForParser' \in BOOLEAN /\ (~lostForParser' => ~lostForParser)
      /\ snoopFilled' \in Seq(Seq(Sections))
  BY <1>1, <1>2, <1>3, FlowFlushes
<1> QED BY <1>1, <1>4

-----------------------------------------------------------------------------
(* The readout worker and the commands keep RunInv                         *)
LEMMA RunWorkerStarts == ASSUME RunInv, FR!WorkerStarts PROVE RunInv'
<1>1. /\ worker = "Starting" /\ FR!WriteSection("BeginRun")
      /\ worker' \in {"Running", "Stopping"} /\ (worker' = "Running" => future' = "ok")
      /\ UNCHANGED <<changing, s_events, s_cumulative_events, s_lastScalerStopTime, s_timing,
                     parsing, parserHolds, s_runState, s_runNumber, cmd, commands, early,
                     ring, clock, triggers>>
  BY DEF FR!WorkerStarts, FR!stats, FR!parserVars, FR!tclVars
<1>2. RunTypes /\ StatsInv /\ OrderInv /\ FlowInv /\ QuietInv
  BY DEF RunInv
<1>3. ASSUME NEW q \in Classes, WorkerAt(q)
      PROVE  \E q2 \in Classes : <<q, "BeginRun", q2>> \in Moves /\ WorkerAt(q2)'
  <2>1. ~changing /\ ~changing'
    BY <1>1, <1>2 DEF RunTypes
  <2>2. q = "halt" /\ WorkerAt("run")'
    BY <1>1, <1>3, <2>1 DEF WorkerAt
  <2> QED BY <2>2 DEF Moves, Classes
<1>4. FlowInv' /\ lostForParser' = lostForParser /\ outBuf' \in Seq(Sections)
      /\ snoopFilled' = snoopFilled /\ outSnoop' \in BOOLEAN
  BY <1>1, <1>2, <1>3, FlowWrites DEF Sections
<1>5. RunTypes'
  BY <1>1, <1>2, <1>4 DEF RunTypes
<1>6. StatsInv' /\ OrderInv'
  BY <1>1, <1>2, <1>4, StatsSame, OrderSame
<1>7. QuietInv'
  BY <1>1, <1>2 DEF QuietInv
<1> QED BY <1>4, <1>5, <1>6, <1>7 DEF RunInv

LEMMA RunWorkerCannotStart == ASSUME RunInv, FR!WorkerCannotStart PROVE RunInv'
<1>1. /\ worker = "Starting" /\ worker' = "Idle"
      /\ UNCHANGED <<changing, s_events, s_cumulative_events, s_lastScalerStopTime, s_timing,
                     parsing, parserHolds, s_runState, s_runNumber, cmd, commands, early,
                     ring, clock, triggers, outBuf, outSnoop, snoopFilled, lostForParser>>
  BY DEF FR!WorkerCannotStart, FR!stats, FR!parserVars, FR!tclVars, FR!bufVars
<1>2. RunTypes /\ StatsInv /\ OrderInv /\ FlowInv /\ QuietInv
  BY DEF RunInv
<1>3. \A q \in Classes : WorkerAt(q) => WorkerAt(q)'
  BY <1>1 DEF WorkerAt
<1>4. FlowInv' /\ StatsInv' /\ OrderInv'
  BY <1>1, <1>2, <1>3, StatsSame, OrderSame, FlowSame
<1>5. RunTypes' /\ QuietInv'
  BY <1>1, <1>2 DEF RunTypes, QuietInv
<1> QED BY <1>4, <1>5 DEF RunInv

LEMMA RunTrigger == ASSUME RunInv, NEW s \in {"event", "scaler"}, FR!Trigger(s) PROVE RunInv'
<1>1. /\ worker = "Running" /\ ~changing /\ FR!WriteSection(s)
      /\ UNCHANGED <<worker, desired, changing, future,
                     s_events, s_cumulative_events, s_lastScalerStopTime, s_timing,
                     parsing, parserHolds, s_runState, s_runNumber, cmd, commands, early,
                     ring, clock>>
  BY DEF FR!Trigger, FR!stats, FR!parserVars, FR!tclVars, FR!workerVars
<1>2. RunTypes /\ StatsInv /\ OrderInv /\ FlowInv /\ QuietInv
  BY DEF RunInv
<1>3. ASSUME NEW q \in Classes, WorkerAt(q)
      PROVE  \E q2 \in Classes : <<q, s, q2>> \in Moves /\ WorkerAt(q2)'
  <2>1. WorkerAt(q)'
    BY <1>1, <1>3 DEF WorkerAt
  <2>2. <<q, s, q>> \in Moves
    BY DEF Moves
  <2> QED BY <2>1, <2>2
<1>4. FlowInv' /\ lostForParser' = lostForParser /\ outBuf' \in Seq(Sections)
      /\ snoopFilled' = snoopFilled /\ outSnoop' \in BOOLEAN
  <2>1. s \in Sections
    BY DEF Sections
  <2> QED BY <2>1, <1>1, <1>2, <1>3, FlowWrites
<1>5. RunTypes'
  BY <1>1, <1>2, <1>4 DEF RunTypes
<1>6. StatsInv' /\ OrderInv'
  BY <1>1, <1>2, <1>4, StatsSame, OrderSame
<1>7. QuietInv'
  BY <1>1, <1>2 DEF QuietInv
<1> QED BY <1>4, <1>5, <1>6, <1>7 DEF RunInv

LEMMA RunFlushTimeout == ASSUME RunInv, FR!FlushTimeout PROVE RunInv'
<1>1. /\ outBuf' = <<>> /\ outSnoop' = FALSE
      /\ snoopFilled' = IF outSnoop THEN Append(snoopFilled, outBuf) ELSE snoopFilled
      /\ lostForParser' = (lostForParser \/ ~outSnoop)
      /\ UNCHANGED <<worker, desired, changing, future,
                     s_events, s_cumulative_events, s_lastScalerStopTime, s_timing,
                     parsing, parserHolds, s_runState, s_runNumber, cmd, commands, early,
                     ring, clock, triggers>>
  BY DEF FR!FlushTimeout, FR!stats, FR!parserVars, FR!tclVars, FR!workerVars
<1>2. RunTypes /\ StatsInv /\ OrderInv /\ FlowInv /\ QuietInv
  BY DEF RunInv
<1>3. \A q1 \in Classes, q2 \in Classes : Walk(Moves, outBuf, q1, q2) /\ WorkerAt(q2) =>
        \E q3 \in Classes : Walk(Moves, outBuf, q1, q3) /\ WorkerAt(q3)'
  BY <1>1 DEF WorkerAt
<1>4. outBuf \in Seq(Sections) /\ outSnoop \in BOOLEAN
  BY <1>2 DEF RunTypes
<1>5. FlowInv' /\ lostForParser' \in BOOLEAN /\ (~lostForParser' => ~lostForParser)
      /\ snoopFilled' \in Seq(Seq(Sections))
  BY <1>1, <1>2, <1>3, <1>4, FlowFlushes
<1>6. RunTypes'
  <2>1. <<>> \in Seq(Sections)
    OBVIOUS
  <2> QED BY <1>1, <1>2, <1>5, <2>1 DEF RunTypes
<1>7. StatsInv' /\ OrderInv'
  BY <1>1, <1>2, <1>5, StatsSame, OrderSame
<1>8. QuietInv'
  BY <1>1, <1>2 DEF QuietInv
<1> QED BY <1>5, <1>6, <1>7, <1>8 DEF RunInv

\* The pause and the resume branch, and the end of the loop
LEMMA RunWriteAndFlush ==
    ASSUME RunInv, NEW s \in Sections, FR!WriteAndFlush(s),
           \A q \in Classes : WorkerAt(q) =>
             \E q2 \in Classes : <<q, s, q2>> \in Moves /\ WorkerAt(q2)',
           worker' \in {"Idle", "Running", "Paused"}, changing' \in BOOLEAN,
           changing' => worker' # "Idle", worker' = "Idle" \/ worker' = worker,
           UNCHANGED <<future, s_events, s_cumulative_events, s_lastScalerStopTime, s_timing,
                       parsing, parserHolds, s_runState, s_runNumber, cmd, commands, early,
                       ring, clock, triggers>>
    PROVE  RunInv'
<1>1. RunTypes /\ StatsInv /\ OrderInv /\ FlowInv /\ QuietInv
  BY DEF RunInv
<1>2. FlowInv' /\ lostForParser' \in BOOLEAN /\ (~lostForParser' => ~lostForParser)
      /\ snoopFilled' \in Seq(Seq(Sections)) /\ outBuf' = <<>> /\ outSnoop' = FALSE
  BY <1>1, FlowWritesAndFlushes
<1>3. RunTypes'
  <2>1. <<>> \in Seq(Sections)
    OBVIOUS
  <2> QED BY <1>1, <1>2, <2>1 DEF RunTypes
<1>4. StatsInv' /\ OrderInv'
  BY <1>1, <1>2, StatsSame, OrderSame
<1>5. QuietInv'
  BY <1>1 DEF QuietInv
<1> QED BY <1>2, <1>3, <1>4, <1>5 DEF RunInv

LEMMA RunWorkerChanges ==
    ASSUME RunInv,
           FR!WorkerChanges("Running", "Paused", "Pause") \/ FR!WorkerChanges("Paused", "Running", "Resume")
    PROVE  RunInv'
<1>1. PICK from, to, s :
        /\ <<from, to, s>> \in {<<"Running", "Paused", "Pause">>, <<"Paused", "Running", "Resume">>}
        /\ FR!WorkerChanges(from, to, s)
  <2>1. CASE FR!WorkerChanges("Running", "Paused", "Pause")
    BY <2>1
  <2>2. CASE FR!WorkerChanges("Paused", "Running", "Resume")
    BY <2>2
  <2> QED BY <2>1, <2>2
<1>2. (from = "Running" /\ s = "Pause") \/ (from = "Paused" /\ s = "Resume")
  BY <1>1
<1>3. /\ worker = from /\ ~changing /\ FR!WriteAndFlush(s) /\ changing' = TRUE
      /\ UNCHANGED <<worker, desired, future, s_events, s_cumulative_events,
                     s_lastScalerStopTime, s_timing,
                     parsing, parserHolds, s_runState, s_runNumber, cmd, commands, early,
                     ring, clock, triggers>>
  BY <1>1 DEF FR!WorkerChanges, FR!stats, FR!parserVars, FR!tclVars
<1>4. ASSUME NEW q \in Classes, WorkerAt(q)
      PROVE  \E q2 \in Classes : <<q, s, q2>> \in Moves /\ WorkerAt(q2)'
  <2>1. CASE s = "Pause"
    <3>1. q = "run" /\ WorkerAt("pause")'
      BY <2>1, <1>2, <1>3, <1>4 DEF WorkerAt
    <3> QED BY <2>1, <3>1 DEF Moves, Classes
  <2>2. CASE s = "Resume"
    <3>1. q = "pause" /\ WorkerAt("run")'
      BY <2>2, <1>2, <1>3, <1>4 DEF WorkerAt
    <3> QED BY <2>2, <3>1 DEF Moves, Classes
  <2> QED BY <2>1, <2>2, <1>2
<1>5. s \in Sections
  BY <1>2 DEF Sections
<1>6. worker' \in {"Running", "Paused"}
  BY <1>2, <1>3
<1> QED BY <1>3, <1>4, <1>5, <1>6, RunWriteAndFlush

LEMMA RunWorkerEnds == ASSUME RunInv, FR!WorkerEnds PROVE RunInv'
<1>1. /\ worker = "Stopping" /\ FR!WriteAndFlush("EndRun") /\ worker' = "Idle"
      /\ UNCHANGED <<changing, future, s_events, s_cumulative_events, s_lastScalerStopTime,
                     s_timing, parsing, parserHolds, s_runState, s_runNumber, cmd, commands,
                     early, ring, clock, triggers>>
  BY DEF FR!WorkerEnds, FR!stats, FR!parserVars, FR!tclVars
<1>2. ~changing /\ changing' \in BOOLEAN
  BY <1>1 DEF RunInv, RunTypes
<1>3. ASSUME NEW q \in Classes, WorkerAt(q)
      PROVE  \E q2 \in Classes : <<q, "EndRun", q2>> \in Moves /\ WorkerAt(q2)'
  <2>1. q \in {"run", "pause"} /\ WorkerAt("halt")'
    BY <1>1, <1>3 DEF WorkerAt
  <2>2. <<q, "EndRun", "halt">> \in Moves
    BY <2>1 DEF Moves
  <2> QED BY <2>1, <2>2 DEF Classes
<1>4. "EndRun" \in Sections
  BY DEF Sections
<1> QED BY <1>1, <1>2, <1>3, <1>4, RunWriteAndFlush

\* Steps of the worker and of the commands that write nothing
LEMMA RunQuietStep ==
    ASSUME RunInv, QuietInv',
           UNCHANGED <<s_events, s_cumulative_events, s_lastScalerStopTime, s_timing, s_runNumber,
                       parsing, early, ring, outBuf, outSnoop, snoopFilled, lostForParser>>,
           clock' = clock \/ clock' = clock + 1,
           changing' \in BOOLEAN, changing' => worker' \in {"Running", "Paused"},
           parserHolds' \in BOOLEAN, parsing # <<>> => parserHolds',
           worker' \in {"Idle", "Starting", "Running", "Paused", "Stopping"},
           worker' \in {"Idle", "Starting"} => worker \in {"Idle", "Starting"},
           \A q \in Classes : WorkerAt(q) => WorkerAt(q)'
    PROVE  RunInv'
<1>1. RunTypes /\ StatsInv /\ OrderInv /\ FlowInv
  BY DEF RunInv
<1>2. FlowInv' /\ StatsInv' /\ OrderInv'
  BY <1>1, StatsSame, OrderSame, FlowSame
<1>3. RunTypes'
  BY <1>1 DEF RunTypes
<1> QED BY <1>2, <1>3 DEF RunInv

LEMMA RunWorkerChanged == ASSUME RunInv, FR!WorkerChanged PROVE RunInv'
<1>1. /\ changing /\ changing' = FALSE
      /\ worker' = IF worker = "Running" THEN "Paused" ELSE "Running"
      /\ UNCHANGED <<future, s_events, s_cumulative_events, s_lastScalerStopTime, s_timing,
                     parsing, parserHolds, s_runState, s_runNumber, cmd, commands, early,
                     ring, clock, triggers, outBuf, outSnoop, snoopFilled, lostForParser>>
  BY DEF FR!WorkerChanged, FR!stats, FR!parserVars, FR!tclVars, FR!bufVars
<1>2. RunTypes /\ QuietInv /\ worker \in {"Running", "Paused"}
  BY <1>1 DEF RunInv, RunTypes
<1>3. \A q \in Classes : WorkerAt(q) => WorkerAt(q)'
  BY <1>1, <1>2 DEF WorkerAt
<1>4. QuietInv'
  BY <1>1, <1>2 DEF QuietInv
<1>5. parserHolds' \in BOOLEAN /\ (parsing # <<>> => parserHolds')
  BY <1>1, <1>2 DEF RunTypes
<1> QED BY <1>1, <1>2, <1>3, <1>4, <1>5, RunQuietStep

LEMMA RunWorkerStops == ASSUME RunInv, FR!WorkerStops PROVE RunInv'
<1>1. /\ worker \in {"Running", "Paused"} /\ ~changing /\ worker' = "Stopping"
      /\ UNCHANGED <<changing, future, s_events, s_cumulative_events, s_lastScalerStopTime, s_timing,
                     parsing, parserHolds, s_runState, s_runNumber, cmd, commands, early,
                     ring, clock, triggers, outBuf, outSnoop, snoopFilled, lostForParser>>
  BY DEF FR!WorkerStops, FR!stats, FR!parserVars, FR!tclVars, FR!bufVars
<1>2. RunTypes /\ QuietInv
  BY DEF RunInv
<1>3. \A q \in Classes : WorkerAt(q) => WorkerAt(q)'
  BY <1>1 DEF WorkerAt
<1>4. QuietInv'
  BY <1>1, <1>2 DEF QuietInv
<1>5. parserHolds' \in BOOLEAN /\ (parsing # <<>> => parserHolds') /\ changing' = FALSE
  BY <1>1, <1>2 DEF RunTypes
<1> QED BY <1>1, <1>3, <1>4, <1>5, RunQuietStep

\* Commands that leave the worker where it is, the clock, the return of a buffer
LEMMA RunCommands ==
    ASSUME RunInv,
           FR!BeginReturns \/ FR!EndCommand \/ FR!EndReturns \/ FR!PauseCommand
             \/ FR!ResumeCommand \/ FR!Tick \/ FR!ParserReturnsBuffer
    PROVE  RunInv'
<1>1. /\ UNCHANGED <<worker, changing, future, s_events, s_cumulative_events,
                     s_lastScalerStopTime, s_timing, parsing, s_runNumber, early,
                     ring, outBuf, outSnoop, snoopFilled, lostForParser>>
      /\ clock' = clock \/ clock' = clock + 1
  BY DEF FR!BeginReturns, FR!EndCommand, FR!EndReturns, FR!PauseCommand, FR!ResumeCommand,
         FR!Tick, FR!ParserReturnsBuffer, FR!stats, FR!parserVars, FR!tclVars, FR!bufVars, FR!workerVars
<1>2. parserHolds' = parserHolds \/ (parserHolds' = FALSE /\ parsing = <<>>)
  BY DEF FR!BeginReturns, FR!EndCommand, FR!EndReturns, FR!PauseCommand, FR!ResumeCommand,
         FR!Tick, FR!ParserReturnsBuffer, FR!parserVars
<1>3. RunTypes /\ QuietInv
  BY DEF RunInv
<1>4. QuietInv'
  <2>1. CASE FR!BeginReturns
    BY <2>1, <1>1, <1>3 DEF FR!BeginReturns, QuietInv
  <2>2. CASE FR!EndCommand
    BY <2>2, <1>1, <1>3 DEF FR!EndCommand, QuietInv
  <2>3. CASE FR!EndReturns
    BY <2>3, <1>1, <1>3 DEF FR!EndReturns, QuietInv
  <2>4. CASE FR!PauseCommand \/ FR!ResumeCommand
    BY <2>4, <1>1, <1>3 DEF FR!PauseCommand, FR!ResumeCommand, QuietInv
  <2>5. CASE FR!Tick \/ FR!ParserReturnsBuffer
    BY <2>5, <1>1, <1>3 DEF FR!Tick, FR!ParserReturnsBuffer, FR!tclVars, QuietInv
  <2> QED BY <2>1, <2>2, <2>3, <2>4, <2>5
<1>5. \A q \in Classes : WorkerAt(q) => WorkerAt(q)'
  BY <1>1 DEF WorkerAt
<1>6. parserHolds' \in BOOLEAN /\ (parsing # <<>> => parserHolds')
      /\ changing' \in BOOLEAN /\ (changing' => worker' \in {"Running", "Paused"})
      /\ worker' \in {"Idle", "Starting", "Running", "Paused", "Stopping"}
  BY <1>1, <1>2, <1>3 DEF RunTypes
<1> QED BY <1>1, <1>4, <1>5, <1>6, RunQuietStep

\* begin is accepted when nothing is in the buffers: the number is that of no run yet.
LEMMA RunBegin == ASSUME RunInv, FR!BeginCommand PROVE RunInv'
<1>1. /\ worker = "Idle" /\ snoopFilled = <<>> /\ cmd = "idle"
      /\ \/ UNCHANGED <<worker, cmd, future>>
         \/ worker' = "Starting" /\ cmd' = "begin" /\ future' = "none"
      /\ early' = (early \/ parserHolds)
      /\ UNCHANGED <<changing, s_runState, s_events, s_cumulative_events, s_lastScalerStopTime,
                     s_timing, parsing, parserHolds, ring, clock, outBuf, outSnoop, snoopFilled,
                     lostForParser>>
  BY DEF FR!BeginCommand, FR!canBegin, FR!finished, FR!stats, FR!parserVars, FR!bufVars
<1>2. RunTypes /\ StatsInv /\ OrderInv /\ FlowInv /\ QuietInv
  BY DEF RunInv
<1>3. outBuf = <<>> /\ ~changing
  BY <1>1, <1>2 DEF RunTypes
<1>4. ASSUME ~lostForParser, ~early' PROVE Labels(ring, s_runNumber')
  <2>1. ~early /\ parsing = <<>>
    BY <1>1, <1>2, <1>4 DEF RunTypes
  <2>2. PICK q1 \in Classes, q2 \in Classes, q3 \in Classes : FlowAt(q1, q2, q3)
    BY <1>2, <1>4 DEF FlowInv
  <2>3. EndClass(ring) = q1 /\ q1 = q2 /\ q2 = q3
    BY <2>1, <2>2, <1>1, <1>3, WalkEmpty DEF FlowAt
  <2>4. q3 = "halt"
    BY <2>2, <1>1 DEF FlowAt, WorkerAt
  <2>5. Labels(ring, s_runNumber)
    BY <2>1, <1>2, <1>4 DEF OrderInv
  <2> QED BY <2>3, <2>4, <2>5 DEF Labels
<1>5. OrderInv'
  BY <1>1, <1>2, <1>4 DEF OrderInv
<1>6. \A q \in Classes : WorkerAt(q) => WorkerAt(q)'
  BY <1>1 DEF WorkerAt
<1>7. FlowInv' /\ StatsInv'
  BY <1>1, <1>2, <1>6, StatsSame, FlowSame
<1>8. RunTypes' /\ QuietInv'
  BY <1>1, <1>2, <1>3 DEF RunTypes, QuietInv
<1> QED BY <1>5, <1>7, <1>8 DEF RunInv

LEMMA RunParserTakes == ASSUME RunInv, FR!ParserTakes PROVE RunInv'
<1>1. /\ ~parserHolds /\ snoopFilled # <<>> /\ parserHolds' = TRUE
      /\ parsing' = Head(snoopFilled) /\ snoopFilled' = Tail(snoopFilled)
      /\ UNCHANGED <<worker, desired, changing, future, s_events, s_cumulative_events,
                     s_lastScalerStopTime, s_timing, s_runState, s_runNumber, cmd, commands,
                     early, ring, clock, triggers, outBuf, outSnoop, lostForParser>>
  BY DEF FR!ParserTakes, FR!stats, FR!workerVars, FR!tclVars
<1>2. RunTypes /\ StatsInv /\ OrderInv /\ FlowInv /\ QuietInv
  BY DEF RunInv
<1>3. parsing = <<>>
  BY <1>1, <1>2 DEF RunTypes
<1> DEFINE S == Seq(Sections)
<1>4. snoopFilled \in Seq(S)
  BY <1>2 DEF RunTypes
<1>5. Head(snoopFilled) \in S /\ Tail(snoopFilled) \in Seq(S)
  <2> HIDE DEF S
  <2> QED BY <1>1, <1>4
<1>6. ASSUME ~lostForParser PROVE \E q1, q2, q3 \in Classes : FlowAt(q1, q2, q3)'
  <2>1. PICK q1 \in Classes, q2 \in Classes, q3 \in Classes : FlowAt(q1, q2, q3)
    BY <1>2, <1>6 DEF FlowInv
  <2>2. EndClass(ring) = q1
    BY <2>1, <1>3, WalkEmpty DEF FlowAt
  <2>3. PICK q4 : <<q1, Head(snoopFilled), q4>> \in Buffers /\ Walk(Buffers, Tail(snoopFilled), q4, q2)
    <3> HIDE DEF S
    <3> QED BY <2>1, <1>1, <1>4, WalkTail DEF FlowAt
  <2>4. q4 \in Classes /\ Walk(Moves, Head(snoopFilled), q1, q4)
    BY <2>3, BufferMeans
  <2>5. WorkerAt(q3)'
    BY <2>1, <1>1 DEF FlowAt, WorkerAt
  <2>6. FlowAt(q4, q2, q3)'
    BY <2>1, <2>2, <2>3, <2>4, <2>5, <1>1 DEF FlowAt
  <2> QED BY <2>4, <2>6
<1>7. FlowInv'
  BY <1>1, <1>6 DEF FlowInv
<1>8. StatsInv' /\ OrderInv'
  BY <1>1, <1>2, StatsSame, OrderSame
<1>9. RunTypes' /\ QuietInv'
  BY <1>1, <1>2, <1>5 DEF RunTypes, QuietInv
<1> QED BY <1>7, <1>8, <1>9 DEF RunInv

-----------------------------------------------------------------------------
(* The parser callbacks keep RunInv                                        *)
Ordered(r) ==
    /\ ~lostForParser => Nested(r)
    /\ ~lostForParser /\ ~early => Labels(r, s_runNumber)

LEMMA OrderedAppend ==
    ASSUME NEW r, NEW t, NEW x, Extends(t, r, x), Ordered(r),
           ~lostForParser => May(EndClass(r), x.type), x.type \in Changes => x.run = s_runNumber
    PROVE  Ordered(t)
BY NestedAppend, LabelsAppend DEF Ordered

\* A section that is parsed is the next move of the items; the callback has to
\* bring them to its class.
LEMMA RunParses ==
    ASSUME RunInv, NEW s, FR!Parses(s), IsSeq(ring'), StatsInv', Ordered(ring'),
           ASSUME NEW q, ~lostForParser, <<EndClass(ring), s, q>> \in Moves
           PROVE  EndClass(ring') = q
    PROVE  RunInv'
<1>1. /\ parsing # <<>> /\ Head(parsing) = s /\ parsing' = Tail(parsing)
      /\ UNCHANGED <<parserHolds, worker, desired, changing, future, s_runState, s_runNumber, cmd,
                     commands, early, clock, triggers, outBuf, outSnoop, snoopFilled, lostForParser>>
  BY DEF FR!Parses, FR!bufVars, FR!workerVars, FR!tclVars
<1>2. RunTypes /\ FlowInv /\ QuietInv
  BY DEF RunInv
<1>3. parsing \in Seq(Sections) /\ Tail(parsing) \in Seq(Sections)
  BY <1>1, <1>2 DEF RunTypes
<1>4. ASSUME ~lostForParser PROVE \E q1, q2, q3 \in Classes : FlowAt(q1, q2, q3)'
  <2>1. PICK q1 \in Classes, q2 \in Classes, q3 \in Classes : FlowAt(q1, q2, q3)
    BY <1>2, <1>4 DEF FlowInv
  <2>2. PICK q : <<EndClass(ring), s, q>> \in Moves /\ Walk(Moves, Tail(parsing), q, q1)
    BY <2>1, <1>1, <1>3, WalkTail DEF FlowAt
  <2>3. EndClass(ring') = q
    BY <2>2, <1>4
  <2>4. WorkerAt(q3)'
    BY <2>1, <1>1 DEF FlowAt, WorkerAt
  <2>5. FlowAt(q1, q2, q3)'
    BY <2>1, <2>2, <2>3, <2>4, <1>1 DEF FlowAt
  <2> QED BY <2>5
<1>5. FlowInv'
  BY <1>1, <1>4 DEF FlowInv
<1>6. OrderInv'
  BY <1>1 DEF OrderInv, Ordered
<1>7. RunTypes' /\ QuietInv'
  BY <1>1, <1>2, <1>3 DEF RunTypes, QuietInv
<1> QED BY <1>5, <1>6, <1>7 DEF RunInv

\* The class before a section that is parsed
LEMMA NextMove ==
    ASSUME RunInv, NEW s, FR!Parses(s), ~lostForParser
    PROVE  \E q : <<EndClass(ring), s, q>> \in Moves
<1>1. parsing # <<>> /\ Head(parsing) = s
  BY DEF FR!Parses
<1>2. PICK q1 \in Classes, q2 \in Classes, q3 \in Classes : FlowAt(q1, q2, q3)
  BY DEF RunInv, FlowInv
<1>3. parsing \in Seq(Sections)
  BY DEF RunInv, RunTypes
<1> QED BY <1>1, <1>2, <1>3, WalkTail DEF FlowAt

LEMMA OneItem == ASSUME RunInv, NEW x, FR!Commit(<<x>>) PROVE Extends(ring', ring, x)
<1>1. ring' = ring \o <<x>> /\ IsSeq(ring)
  BY DEF FR!Commit, RunInv, RunTypes
<1>2. ring' = Append(ring, x)
  BY <1>1, CommitOne
<1> QED BY <1>1, <1>2, AppendExtends

LEMMA TwoItems ==
    ASSUME RunInv, NEW x, NEW y, FR!Commit(Append(<<x>>, y))
    PROVE  \E t : Extends(t, ring, x) /\ Extends(ring', t, y)
<1>1. ring' = ring \o Append(<<x>>, y) /\ IsSeq(ring)
  BY DEF FR!Commit, RunInv, RunTypes
<1>2. ring' = Append(Append(ring, x), y)
  BY <1>1, CommitTwo
<1>3. Extends(Append(ring, x), ring, x)
  BY <1>1, AppendExtends
<1>4. IsSeq(Append(ring, x))
  BY <1>3 DEF Extends
<1>5. Extends(ring', Append(ring, x), y)
  BY <1>2, <1>4, AppendExtends
<1> QED BY <1>3, <1>5

LEMMA ItemTypes ==
    ASSUME NEW type
    PROVE  FR!Item(type).type = type /\ FR!StateChange(type).type = type
           /\ FR!StateChange(type).run = s_runNumber
BY DEF FR!Item, FR!StateChange

EventCount == [FR!Item("PHYSICS_EVENT_COUNT") EXCEPT !.events = s_events]
LEMMA EventCountIs ==
    EventCount.type = "PHYSICS_EVENT_COUNT" /\ EventCount.events = s_events
    /\ FR!emit_statistics = <<EventCount>>
BY DEF EventCount, FR!Item, FR!emit_statistics

LEMMA Run_submit_event == ASSUME RunInv, FR!submit_event PROVE RunInv'
<1> DEFINE x == FR!Item("PHYSICS_EVENT")
<1>1. /\ FR!Parses("event") /\ FR!Commit(<<x>>)
      /\ s_events' = s_events + 1 /\ s_cumulative_events' = s_cumulative_events + 1
      /\ UNCHANGED <<s_lastScalerStopTime, s_timing>>
  BY DEF FR!submit_event
<1>2. Extends(ring', ring, x)
  BY <1>1, OneItem
<1>3. x.type = "PHYSICS_EVENT"
  BY ItemTypes
<1> HIDE DEF x
<1>4. StatsInv /\ OrderInv /\ IsSeq(ring') /\ clock' = clock
  BY <1>1, <1>2 DEF RunInv, Extends, FR!Parses
<1>5. Counts(ring', s_events', s_cumulative_events')
  <2>1. Counts(ring, s_events, s_cumulative_events)
    BY <1>4 DEF StatsInv
  <2>2. Counts(ring', s_events + 1, s_cumulative_events + 1)
    BY <2>1, <1>2, <1>3, CountsAppend
  <2> QED BY <2>2, <1>1
<1>6. Tiles(ring', s_lastScalerStopTime')
  <2>1. Tiles(ring, s_lastScalerStopTime)
    BY <1>4 DEF StatsInv
  <2>2. Tiles(ring', s_lastScalerStopTime)
    BY <2>1, <1>2, <1>3, TilesAppend
  <2> QED BY <2>2, <1>1
<1>7. StatsInv'
  BY <1>1, <1>4, <1>5, <1>6 DEF StatsInv
<1>8. x.type \notin Changes /\ \A q : May(q, x.type)
  BY <1>3 DEF Changes, FR!StateChanges, May
<1>9. Ordered(ring')
  <2>1. Ordered(ring)
    BY <1>4 DEF OrderInv, Ordered
  <2> QED BY <2>1, <1>2, <1>8, OrderedAppend
<1>10. EndClass(ring') = EndClass(ring)
  BY <1>2, <1>8, EndClassAppend
<1>11. ASSUME NEW q, ~lostForParser, <<EndClass(ring), "event", q>> \in Moves
       PROVE  EndClass(ring') = q
  BY <1>10, <1>11, MoveMeans
<1> QED BY <1>1, <1>4, <1>7, <1>9, <1>11, RunParses

LEMMA Run_submit_scaler == ASSUME RunInv, FR!submit_scaler PROVE RunInv'
<1> DEFINE y == [FR!Item("PERIODIC_SCALERS") EXCEPT !.from = s_lastScalerStopTime,
                                                    !.to = FR!get_milliseconds]
<1>1. /\ FR!Parses("scaler") /\ FR!Commit(Append(<<EventCount>>, y))
      /\ s_lastScalerStopTime' = FR!get_milliseconds
      /\ UNCHANGED <<s_events, s_cumulative_events, s_timing>>
  BY EventCountIs DEF FR!submit_scaler
<1>2. PICK t : Extends(t, ring, EventCount) /\ Extends(ring', t, y)
  BY <1>1, TwoItems
<1>3. y.type = "PERIODIC_SCALERS" /\ y.from = s_lastScalerStopTime /\ y.to = clock - s_timing
  BY DEF FR!Item, FR!get_milliseconds
<1> HIDE DEF y
<1>4. StatsInv /\ OrderInv /\ IsSeq(ring') /\ clock' = clock
      /\ s_lastScalerStopTime' = clock - s_timing
  BY <1>1, <1>2 DEF RunInv, Extends, FR!Parses, FR!get_milliseconds
<1>5. Counts(ring', s_events', s_cumulative_events')
  <2>1. Counts(ring, s_events, s_cumulative_events)
    BY <1>4 DEF StatsInv
  <2>2. Counts(t, s_events, s_cumulative_events)
    BY <2>1, <1>2, EventCountIs, CountsAppend
  <2>3. Counts(ring', s_events, s_cumulative_events)
    BY <2>2, <1>2, <1>3, CountsAppend
  <2> QED BY <2>3, <1>1
<1>6. Tiles(ring', s_lastScalerStopTime')
  <2>1. Tiles(ring, s_lastScalerStopTime) /\ s_lastScalerStopTime <= clock - s_timing
    BY <1>4 DEF StatsInv
  <2>2. Tiles(t, s_lastScalerStopTime)
    BY <2>1, <1>2, EventCountIs, TilesAppend
  <2>3. Tiles(ring', y.to)
    BY <2>1, <2>2, <1>2, <1>3, TilesAppend
  <2> QED BY <2>3, <1>3, <1>4
<1>7. StatsInv'
  BY <1>1, <1>4, <1>5, <1>6 DEF StatsInv
<1>8. y.type \notin Changes /\ (\A q : May(q, y.type))
      /\ EventCount.type \notin Changes /\ (\A q : May(q, EventCount.type))
  BY <1>3, EventCountIs DEF Changes, FR!StateChanges, May
<1>9. Ordered(ring')
  <2>1. Ordered(ring)
    BY <1>4 DEF OrderInv, Ordered
  <2>2. Ordered(t)
    BY <2>1, <1>2, <1>8, OrderedAppend
  <2> QED BY <2>2, <1>2, <1>8, OrderedAppend
<1>10. EndClass(ring') = EndClass(ring)
  <2>1. EndClass(t) = EndClass(ring)
    BY <1>2, <1>8, EndClassAppend
  <2> QED BY <2>1, <1>2, <1>8, EndClassAppend
<1>11. ASSUME NEW q, ~lostForParser, <<EndClass(ring), "scaler", q>> \in Moves
       PROVE  EndClass(ring') = q
  BY <1>10, <1>11, MoveMeans
<1> QED BY <1>1, <1>4, <1>7, <1>9, <1>11, RunParses

LEMMA RunBeginRun == ASSUME RunInv, FR!BeginRun PROVE RunInv'
<1> DEFINE x == FR!StateChange("BEGIN_RUN")
<1>1. /\ FR!Parses("BeginRun") /\ FR!Commit(<<x>>)
      /\ s_events' = 0 /\ s_lastScalerStopTime' = 0 /\ s_timing' = clock
      /\ UNCHANGED s_cumulative_events
  BY DEF FR!BeginRun, FR!reset_statistics
<1>2. Extends(ring', ring, x)
  BY <1>1, OneItem
<1>3. x.type = "BEGIN_RUN" /\ x.run = s_runNumber
  BY ItemTypes
<1> HIDE DEF x
<1>4. StatsInv /\ OrderInv /\ IsSeq(ring') /\ clock' = clock
  BY <1>1, <1>2 DEF RunInv, Extends, FR!Parses
<1>5. Counts(ring', s_events', s_cumulative_events')
  <2>1. Counts(ring, s_events, s_cumulative_events)
    BY <1>4 DEF StatsInv
  <2>2. Counts(ring', 0, s_cumulative_events)
    BY <2>1, <1>2, <1>3, CountsAppend
  <2> QED BY <2>2, <1>1
<1>6. Tiles(ring', s_lastScalerStopTime')
  <2>1. Tiles(ring, s_lastScalerStopTime)
    BY <1>4 DEF StatsInv
  <2>2. Tiles(ring', 0)
    BY <2>1, <1>2, <1>3, TilesAppend
  <2> QED BY <2>2, <1>1
<1>7. StatsInv'
  <2>1. clock \in Int /\ 0 <= clock - clock
    BY <1>4 DEF StatsInv
  <2> QED BY <2>1, <1>1, <1>4, <1>5, <1>6 DEF StatsInv
<1>8. x.type \in Changes /\ ClassOf(x.type) = "run"
  BY <1>3 DEF Changes, FR!StateChanges, ClassOf
<1>9. Ordered(ring')
  <2>1. Ordered(ring)
    BY <1>4 DEF OrderInv, Ordered
  <2>2. ASSUME ~lostForParser PROVE EndClass(ring) = "halt"
    <3>1. PICK q : <<EndClass(ring), "BeginRun", q>> \in Moves
      BY <2>2, <1>1, NextMove
    <3> QED BY <3>1, MoveMeans
  <2>3. ~lostForParser => May(EndClass(ring), x.type)
    BY <2>2, <1>3 DEF May
  <2> QED BY <2>1, <2>3, <1>2, <1>3, OrderedAppend
<1>10. EndClass(ring') = "run"
  BY <1>2, <1>8, EndClassAppend
<1>11. ASSUME NEW q, ~lostForParser, <<EndClass(ring), "BeginRun", q>> \in Moves
       PROVE  EndClass(ring') = q
  BY <1>10, <1>11, MoveMeans
<1> QED BY <1>1, <1>4, <1>7, <1>9, <1>11, RunParses

LEMMA RunResumes == ASSUME RunInv, FR!Transition("Resume", <<>>, "RESUME_RUN") PROVE RunInv'
<1> DEFINE x == FR!StateChange("RESUME_RUN")
<1>1. /\ FR!Parses("Resume") /\ FR!Commit(<<x>>)
      /\ UNCHANGED <<s_events, s_cumulative_events, s_lastScalerStopTime, s_timing>>
  <2>1. Append(<<>>, x) = <<x>>
    OBVIOUS
  <2> QED BY <2>1 DEF FR!Transition, FR!stats
<1>2. Extends(ring', ring, x)
  BY <1>1, OneItem
<1>3. x.type = "RESUME_RUN" /\ x.run = s_runNumber
  BY ItemTypes
<1> HIDE DEF x
<1>4. StatsInv /\ OrderInv /\ IsSeq(ring') /\ clock' = clock
  BY <1>1, <1>2 DEF RunInv, Extends, FR!Parses
<1>5. Counts(ring', s_events, s_cumulative_events) /\ Tiles(ring', s_lastScalerStopTime)
  <2>1. Counts(ring, s_events, s_cumulative_events) /\ Tiles(ring, s_lastScalerStopTime)
    BY <1>4 DEF StatsInv
  <2>2. Counts(ring', s_events, s_cumulative_events)
    BY <2>1, <1>2, <1>3, CountsAppend
  <2>3. Tiles(ring', s_lastScalerStopTime)
    BY <2>1, <1>2, <1>3, TilesAppend
  <2> QED BY <2>2, <2>3
<1>7. StatsInv'
  BY <1>1, <1>4, <1>5 DEF StatsInv
<1>8. x.type \in Changes /\ ClassOf(x.type) = "run"
  BY <1>3 DEF Changes, FR!StateChanges, ClassOf
<1>9. Ordered(ring')
  <2>1. Ordered(ring)
    BY <1>4 DEF OrderInv, Ordered
  <2>2. ASSUME ~lostForParser PROVE EndClass(ring) = "pause"
    <3>1. PICK q : <<EndClass(ring), "Resume", q>> \in Moves
      BY <2>2, <1>1, NextMove
    <3> QED BY <3>1, MoveMeans
  <2>3. ~lostForParser => May(EndClass(ring), x.type)
    BY <2>2, <1>3 DEF May
  <2> QED BY <2>1, <2>3, <1>2, <1>3, OrderedAppend
<1>10. EndClass(ring') = "run"
  BY <1>2, <1>8, EndClassAppend
<1>11. ASSUME NEW q, ~lostForParser, <<EndClass(ring), "Resume", q>> \in Moves
       PROVE  EndClass(ring') = q
  BY <1>10, <1>11, MoveMeans
<1> QED BY <1>1, <1>4, <1>7, <1>9, <1>11, RunParses

\* The end of a run and a pause emit the statistics first.
LEMMA RunEndsOrPauses ==
    ASSUME RunInv, NEW s, NEW type,
           (s = "EndRun" /\ type = "END_RUN") \/ (s = "Pause" /\ type = "PAUSE_RUN"),
           FR!Transition(s, FR!emit_statistics, type)
    PROVE  RunInv'
<1> DEFINE y == FR!StateChange(type)
<1>1. /\ FR!Parses(s) /\ FR!Commit(Append(<<EventCount>>, y))
      /\ UNCHANGED <<s_events, s_cumulative_events, s_lastScalerStopTime, s_timing>>
  BY EventCountIs DEF FR!Transition, FR!stats
<1>2. PICK t : Extends(t, ring, EventCount) /\ Extends(ring', t, y)
  BY <1>1, TwoItems
<1>3. y.type = type /\ y.run = s_runNumber /\ type \in {"END_RUN", "PAUSE_RUN"}
  BY ItemTypes
<1> HIDE DEF y
<1>4. StatsInv /\ OrderInv /\ IsSeq(ring') /\ clock' = clock
  BY <1>1, <1>2 DEF RunInv, Extends, FR!Parses
<1>5. Counts(ring', s_events, s_cumulative_events)
  <2>1. Counts(ring, s_events, s_cumulative_events)
    BY <1>4 DEF StatsInv
  <2>2. Counts(t, s_events, s_cumulative_events)
    BY <2>1, <1>2, EventCountIs, CountsAppend
  <2> QED BY <2>2, <1>2, <1>3, CountsAppend
<1>6. Tiles(ring', s_lastScalerStopTime)
  <2>1. Tiles(ring, s_lastScalerStopTime)
    BY <1>4 DEF StatsInv
  <2>2. Tiles(t, s_lastScalerStopTime)
    BY <2>1, <1>2, EventCountIs, TilesAppend
  <2> QED BY <2>2, <1>2, <1>3, TilesAppend
<1>7. StatsInv'
  BY <1>1, <1>4, <1>5, <1>6 DEF StatsInv
<1>8. /\ EventCount.type \notin Changes /\ (\A q : May(q, EventCount.type))
      /\ y.type \in Changes
      /\ ClassOf(y.type) = IF s = "Pause" THEN "pause" ELSE "halt"
  BY <1>3, EventCountIs DEF Changes, FR!StateChanges, May, ClassOf
<1>9. EndClass(t) = EndClass(ring)
  BY <1>2, <1>8, EndClassAppend
<1>10. Ordered(ring')
  <2>1. Ordered(ring)
    BY <1>4 DEF OrderInv, Ordered
  <2>2. Ordered(t)
    BY <2>1, <1>2, <1>8, OrderedAppend
  <2>3. ASSUME ~lostForParser
        PROVE  EndClass(ring) \in IF s = "Pause" THEN {"run"} ELSE {"run", "pause"}
    <3>1. PICK q : <<EndClass(ring), s, q>> \in Moves
      BY <2>3, <1>1, NextMove
    <3>2. s = "Pause" => EndClass(ring) = "run"
      BY <3>1, MoveMeans
    <3>3. s = "EndRun" => EndClass(ring) \in {"run", "pause"}
      BY <3>1, MoveMeans
    <3> QED BY <3>2, <3>3
  <2>4. ~lostForParser => May(EndClass(t), y.type)
    BY <2>3, <1>3, <1>9 DEF May
  <2> QED BY <2>2, <2>4, <1>2, <1>3, OrderedAppend
<1>11. EndClass(ring') = IF s = "Pause" THEN "pause" ELSE "halt"
  BY <1>2, <1>8, EndClassAppend
<1>12. ASSUME NEW q, ~lostForParser, <<EndClass(ring), s, q>> \in Moves
       PROVE  EndClass(ring') = q
  BY <1>11, <1>12, MoveMeans
<1> QED BY <1>1, <1>4, <1>7, <1>10, <1>12, RunParses

\* The timer puts its items between those of the parser.
LEMMA Run_dumpVariables == ASSUME RunInv, FR!dumpVariables PROVE RunInv'
<1> DEFINE x == FR!Item("MONITORED_VARIABLES")
<1>1. /\ FR!Commit(<<x>>)
      /\ UNCHANGED <<s_runState, s_runNumber, cmd, early, worker, desired, changing, future,
                     outBuf, outSnoop, snoopFilled, lostForParser, parsing, parserHolds, clock,
                     s_events, s_cumulative_events, s_lastScalerStopTime, s_timing>>
  BY DEF FR!dumpVariables, FR!stats, FR!bufVars, FR!parserVars, FR!workerVars
<1>2. Extends(ring', ring, x)
  BY <1>1, OneItem
<1>3. x.type = "MONITORED_VARIABLES"
  BY ItemTypes
<1> HIDE DEF x
<1>4. RunTypes /\ StatsInv /\ OrderInv /\ FlowInv /\ QuietInv /\ IsSeq(ring')
  BY <1>2 DEF RunInv, Extends
<1>5. Counts(ring', s_events, s_cumulative_events) /\ Tiles(ring', s_lastScalerStopTime)
  <2>1. Counts(ring, s_events, s_cumulative_events) /\ Tiles(ring, s_lastScalerStopTime)
    BY <1>4 DEF StatsInv
  <2>2. Counts(ring', s_events, s_cumulative_events)
    BY <2>1, <1>2, <1>3, CountsAppend
  <2>3. Tiles(ring', s_lastScalerStopTime)
    BY <2>1, <1>2, <1>3, TilesAppend
  <2> QED BY <2>2, <2>3
<1>6. StatsInv'
  BY <1>1, <1>4, <1>5 DEF StatsInv
<1>7. x.type \notin Changes /\ \A q : May(q, x.type)
  BY <1>3 DEF Changes, FR!StateChanges, May
<1>8. Ordered(ring')
  <2>1. Ordered(ring)
    BY <1>4 DEF OrderInv, Ordered
  <2> QED BY <2>1, <1>2, <1>7, OrderedAppend
<1>9. OrderInv'
  BY <1>1, <1>8 DEF OrderInv, Ordered
<1>10. EndClass(ring') = EndClass(ring)
  BY <1>2, <1>7, EndClassAppend
<1>11. FlowInv'
  <2>1. \A q1, q2, q3 : FlowAt(q1, q2, q3) => FlowAt(q1, q2, q3)'
    BY <1>1, <1>10 DEF FlowAt, WorkerAt
  <2> QED BY <2>1, <1>1, <1>4 DEF FlowInv
<1>12. RunTypes' /\ QuietInv'
  BY <1>1, <1>4 DEF RunTypes, QuietInv
<1> QED BY <1>6, <1>9, <1>11, <1>12 DEF RunInv

LEMMA RunStep == RunInv /\ [FR!Next]_fribVars => RunInv'
<1> SUFFICES ASSUME RunInv, [FR!Next]_fribVars PROVE RunInv'
  OBVIOUS
<1>1. CASE FR!Next
  <2>1. CASE FR!BeginReturns \/ FR!EndCommand \/ FR!EndReturns \/ FR!PauseCommand
             \/ FR!ResumeCommand \/ FR!Tick \/ FR!ParserReturnsBuffer
    BY <2>1, RunCommands
  <2>2. CASE FR!BeginCommand \/ FR!dumpVariables
    BY <2>2, RunBegin, Run_dumpVariables
  <2>3. CASE FR!WorkerStarts \/ FR!WorkerCannotStart \/ FR!FlushTimeout
             \/ \E s \in {"event", "scaler"} : FR!Trigger(s)
    BY <2>3, RunWorkerStarts, RunWorkerCannotStart, RunFlushTimeout, RunTrigger
  <2>4. CASE FR!WorkerChanged \/ FR!WorkerStops \/ FR!WorkerEnds
             \/ FR!WorkerChanges("Running", "Paused", "Pause")
             \/ FR!WorkerChanges("Paused", "Running", "Resume")
    BY <2>4, RunWorkerChanged, RunWorkerStops, RunWorkerEnds, RunWorkerChanges
  <2>5. CASE FR!ParserTakes \/ FR!submit_event \/ FR!submit_scaler \/ FR!BeginRun
             \/ FR!Transition("Resume", <<>>, "RESUME_RUN")
    BY <2>5, RunParserTakes, Run_submit_event, Run_submit_scaler, RunBeginRun, RunResumes
  <2>6. CASE FR!Transition("EndRun", FR!emit_statistics, "END_RUN")
             \/ FR!Transition("Pause", FR!emit_statistics, "PAUSE_RUN")
    BY <2>6, RunEndsOrPauses
  <2> QED BY <1>1, <2>1, <2>2, <2>3, <2>4, <2>5, <2>6 DEF FR!Next
<1>2. CASE UNCHANGED fribVars
  <2>1. UNCHANGED <<s_runState, s_runNumber, s_events, s_cumulative_events, s_lastScalerStopTime,
                    s_timing, cmd, future, worker, changing, outBuf, outSnoop, snoopFilled,
                    parsing, parserHolds, ring, clock, lostForParser, early>>
    BY <1>2 DEF fribVars
  <2>2. RunTypes' /\ QuietInv'
    BY <2>1 DEF RunInv, RunTypes, QuietInv
  <2>3. \A q \in Classes : WorkerAt(q) => WorkerAt(q)'
    BY <2>1 DEF WorkerAt
  <2>4. StatsInv' /\ OrderInv' /\ FlowInv'
    BY <2>1, <2>3, StatsSame, OrderSame, FlowSame DEF RunInv
  <2> QED BY <2>2, <2>4 DEF RunInv
<1> QED BY <1>1, <1>2

LEMMA RunsFromInv == RunInv => RunsReported
<1> SUFFICES ASSUME RunInv PROVE RunsReported
  OBVIOUS
<1>1. RunTypes /\ StatsInv /\ OrderInv /\ QuietInv
  BY DEF RunInv
<1>2. \A i, types : FR!LastBefore(i, types) = LastOf(ring, i, types)
  BY LastBeforeIs
<1>3. DOMAIN ring = 1 .. Len(ring)
  <2>1. PICK S : ring \in Seq(S)
    BY <1>1 DEF RunTypes, IsSeq
  <2> QED BY <2>1
<1>4. FR!EventCountsTrue
  <2>1. \A a, b : Count(ring, a, b) =
          FR!Cardinality({j \in a .. b : ring[j].type = "PHYSICS_EVENT"})
    BY SameCount DEF Count
  <2>2. Counts(ring, s_events, s_cumulative_events)
    BY <1>1 DEF StatsInv
  <2>3. ASSUME NEW i \in DOMAIN ring, ring[i].type = "PHYSICS_EVENT_COUNT"
        PROVE  ring[i].events =
                 FR!Cardinality({j \in FR!LastBefore(i, {"BEGIN_RUN"}) + 1 .. i - 1 :
                                   ring[j].type = "PHYSICS_EVENT"})
    <3>1. ring[i].events = Count(ring, LastOf(ring, i, Begins) + 1, i - 1)
      BY <2>2, <2>3 DEF Counts
    <3>2. FR!LastBefore(i, {"BEGIN_RUN"}) = LastOf(ring, i, Begins)
      BY <1>2 DEF Begins
    <3> QED BY <3>1, <3>2, <2>1
  <2>4. s_cumulative_events =
          FR!Cardinality({i \in DOMAIN ring : ring[i].type = "PHYSICS_EVENT"})
    BY <2>1, <2>2, <1>3 DEF Counts
  <2> QED BY <2>3, <2>4 DEF FR!EventCountsTrue
<1>5. FR!ScalersTile
  BY <1>1, <1>2 DEF FR!ScalersTile, StatsInv, Tiles, Starts, Begins, Scalers
<1>6. FR!RunsNested
  BY <1>1, <1>2 DEF FR!RunsNested, OrderInv, Nested, Follows, Changes
<1>7. FR!RunLabels
  BY <1>1, <1>2 DEF FR!RunLabels, OrderInv, Labels, Changes
<1>8. FR!HaltedIsQuiet
  BY <1>1 DEF FR!HaltedIsQuiet, QuietInv, RunTypes
<1> QED BY <1>4, <1>5, <1>6, <1>7, <1>8 DEF RunsReported

\* The ring items describe the runs, for any number of snoop buffers, commands and
\* triggers: every event count is that of the events since the begin of its run, the
\* scaler intervals of a run leave no gap, and as long as the parser saw every buffer the
\* state changes are those of whole runs, under the number of their run unless begin was
\* accepted early; a run that was told to be halted takes no data (system_event_callback,
\* submit_event, submit_scaler, BeginCommand, EndCommand).
THEOREM RunsTheorem == OutputsSpec => []RunsReported
<1>1. OutputsInit => RunInv
  BY RunStart DEF OutputsInit
<1>2. RunInv /\ [OutputsNext]_outputVars => RunInv'
  BY RunStep DEF OutputsNext, outputVars
<1>3. RunInv => RunsReported
  BY RunsFromInv
<1> QED BY <1>1, <1>2, <1>3, PTL DEF OutputsSpec
-----------------------------------------------------------------------------
(***************************************************************************)
(* The stream server, for any set of clients, any number of broadcasts and *)
(* any number of stops and starts.                                         *)
(*                                                                         *)
(* The accept loop is in one place at most (LoopInv); the handlers stop()  *)
(* waits for are queued, after every accept that could still add a client  *)
(* (StopInv); the sockets go with the list of clients (SockInv); every     *)
(* write is accounted for (WriteInv); and how far each client has read     *)
(* depends on where the sender is (ReadInv).                               *)
(***************************************************************************)
HandlerKinds == {"accept", "written", "closeAcceptors", "closeClients"}
Handlers == [kind : HandlerKinds, client : Clients \cup {NoClient}, acceptor : Nat,
             ok : BOOLEAN]
Sockets == {"away", "backlog", "taken", "open", "closed"}

ServerTypes ==
  /\ acceptors \in SUBSET Nat /\ listens \in Nat /\ armed \in Nat
  /\ handlers \in Seq(Handlers)
  /\ ioClient \in Clients \cup {NoClient} /\ ioAcceptor \in Nat
  /\ opc \in {"idle", "acceptors", "clients", "join"}
ClientTypes ==
  /\ link \in [Clients -> BOOLEAN]
  /\ sock \in [Clients -> Sockets] /\ clients \in SUBSET Clients
  /\ read \in [Clients -> Seq(Nat)]
SenderTypes ==
  /\ broadcasts \in Seq({"data", "preamble"})
  /\ spc \in {"idle", "check", "start", "wait"}
  /\ writing \in SUBSET Clients

\* The positions of the handlers of a kind in a queue
Places(queue, hk) == {i \in DOMAIN queue : queue[i].kind = hk}
At(hk) == Places(handlers, hk)

\* The accept loop waits for a client, or its handler is queued, or is run, or the
\* loop has ended; while the server accepts its acceptor is open.
LoopInv ==
  /\ \A i, j \in At("accept") : i = j
  /\ armed # 0 => At("accept") = {} /\ ioClient = NoClient /\ armed \in acceptors
  /\ ioClient # NoClient => At("accept") = {} /\ (accepting => ioAcceptor \in acceptors)
  /\ \A i \in At("accept") : handlers[i].ok =>
       handlers[i].client \in Clients /\ (accepting => handlers[i].acceptor \in acceptors)
  /\ ~misuse

\* The handler that stop() waits for is queued once; the one that closes the
\* clients comes after any accept; and then there is nothing left.
StopInv ==
  /\ At("closeAcceptors") # {} <=> opc = "acceptors"
  /\ At("closeClients") # {} <=> opc = "clients"
  /\ \A i, j \in At("closeAcceptors") : i = j
  /\ \A i, j \in At("closeClients") : i = j
  /\ \A i \in At("accept"), j \in At("closeClients") : i < j
  /\ opc # "idle" => ioThread = "run" /\ ~accepting
  /\ opc \in {"clients", "join"} => acceptors = {}
  /\ acceptors = {} /\ opc \in {"idle", "join"} =>
       At("accept") = {} /\ ioClient = NoClient /\ clients = {}

\* The accept loop has taken client c from the backlog.
Taken(c) ==
  \/ ioClient = c
  \/ \E h \in Range(handlers) : h.kind = "accept" /\ h.ok /\ h.client = c

\* The clients in the list are the open ones; those taken from the backlog are with
\* the accept loop; nobody reads before it is in the list.
SockInv ==
  /\ \A c \in Clients : sock[c] = "open" <=> c \in clients
  /\ \A c \in Clients : sock[c] = "taken" <=> Taken(c)
  /\ acceptors = {} => \A c \in Clients : sock[c] # "backlog"
  /\ \A c \in Clients : sock[c] \in {"away", "backlog", "taken"} =>
       read[c] = <<>> /\ c \notin failedClients /\ c \notin Written

\* Outside a broadcast nothing is written, and only clients in the list are written to.
WriteInv ==
  /\ spc # "wait" => writing = {} /\ At("written") = {}
  /\ writing \subseteq clients
  /\ WritesAccounted

\* What client c has read ends with broadcast n.
ReadTo(c, n) == read[c] = <<>> \/ read[c][Len(read[c])] = n
\* The failure of the write to c is known or about to be.
Failed(c) ==
  \/ c \in failedClients
  \/ \E h \in Range(handlers) : h.kind = "written" /\ ~h.ok /\ h.client = c

\* A client in the list has read all up to the broadcast under way, or to the one
\* before it, or its write has failed.
ReadInv ==
  /\ spc = "idle" /\ accepting => \A c \in clients : ReadTo(c, Len(broadcasts))
  /\ (spc = "check" /\ accepting) \/ spc = "start" =>
       \A c \in clients : ReadTo(c, Len(broadcasts) - 1)
  /\ spc = "wait" => \A c \in clients :
       IF c \in writing THEN ReadTo(c, Len(broadcasts) - 1)
       ELSE ReadTo(c, Len(broadcasts)) \/ Failed(c)
  /\ NoGapInStream

StreamInv ==
  /\ ServerTypes /\ ClientTypes /\ SenderTypes
  /\ LoopInv /\ StopInv /\ SockInv /\ WriteInv /\ ReadInv

-----------------------------------------------------------------------------
(* The queue of handlers                                                   *)

\* r is q with h appended.
Appended(q, h, r) ==
  /\ r \in Seq(Handlers) /\ Len(q) \in Nat /\ Len(r) = Len(q) + 1
  /\ \A i \in 1 .. Len(q) : r[i] = q[i]
  /\ r[Len(q) + 1] = h
  /\ \A k : Places(q, k) \subseteq 1 .. Len(q)
  /\ \A k : h.kind # k => Places(r, k) = Places(q, k)
  /\ Places(r, h.kind) = Places(q, h.kind) \cup {Len(q) + 1}

LEMMA Queued ==
  ASSUME NEW q \in Seq(Handlers), NEW h \in Handlers, NEW r, r = Append(q, h)
  PROVE  Appended(q, h, r)
<1>1. /\ r \in Seq(Handlers) /\ Len(q) \in Nat /\ Len(r) = Len(q) + 1
      /\ \A i \in 1 .. Len(q) : r[i] = q[i]
      /\ r[Len(q) + 1] = h
  OBVIOUS
<1>2. DOMAIN q = 1 .. Len(q) /\ DOMAIN r = 1 .. (Len(q) + 1)
  BY <1>1
<1>3. \A k : Places(q, k) \subseteq 1 .. Len(q)
  BY <1>2 DEF Places
<1>4. ASSUME NEW k, h.kind # k PROVE Places(r, k) = Places(q, k)
  BY <1>1, <1>2, <1>4 DEF Places
<1>5. Places(r, h.kind) = Places(q, h.kind) \cup {Len(q) + 1}
  BY <1>1, <1>2 DEF Places
<1> QED BY <1>1, <1>3, <1>4, <1>5 DEF Appended

\* r is q without its first handler.
Shortened(q, r) ==
  /\ r \in Seq(Handlers) /\ Len(q) \in Nat /\ Len(r) = Len(q) - 1
  /\ Head(q) = q[1] /\ q[1] \in Handlers
  /\ \A i \in 1 .. Len(r) : r[i] = q[i + 1]
  /\ \A k : Places(q, k) \subseteq 1 .. Len(q)
  /\ \A k : Places(r, k) = {i \in 1 .. Len(r) : i + 1 \in Places(q, k)}
  /\ 1 \in Places(q, q[1].kind)

LEMMA Popped ==
  ASSUME NEW q \in Seq(Handlers), q # <<>>, NEW r, r = Tail(q)
  PROVE  Shortened(q, r)
<1>1. /\ r \in Seq(Handlers) /\ Len(q) \in Nat /\ Len(r) = Len(q) - 1
      /\ Head(q) = q[1] /\ q[1] \in Handlers /\ Len(q) > 0
      /\ \A i \in 1 .. Len(r) : r[i] = q[i + 1]
  OBVIOUS
<1>2. DOMAIN q = 1 .. Len(q) /\ DOMAIN r = 1 .. Len(r)
  BY <1>1
<1>3. \A k : Places(q, k) \subseteq 1 .. Len(q)
  BY <1>2 DEF Places
<1>4. ASSUME NEW k PROVE Places(r, k) = {i \in 1 .. Len(r) : i + 1 \in Places(q, k)}
  BY <1>1, <1>2 DEF Places
<1>5. 1 \in Places(q, q[1].kind)
  BY <1>1, <1>2 DEF Places
<1> QED BY <1>1, <1>3, <1>4, <1>5 DEF Shortened

\* r is q followed by p, which has handlers of kind k only.
HandlersJoined(q, p, k, r) ==
  /\ r \in Seq(Handlers) /\ Len(q) \in Nat /\ Len(p) \in Nat
  /\ Len(r) = Len(q) + Len(p)
  /\ \A i \in 1 .. Len(q) : r[i] = q[i]
  /\ \A i \in 1 .. Len(p) : r[Len(q) + i] = p[i]
  /\ \A m : Places(q, m) \subseteq 1 .. Len(q)
  /\ \A m : m # k => Places(r, m) = Places(q, m)
  /\ Places(r, k) = Places(q, k) \cup {Len(q) + i : i \in 1 .. Len(p)}

LEMMA Concatenated ==
  ASSUME NEW q \in Seq(Handlers), NEW p \in Seq(Handlers), NEW k,
         \A i \in 1 .. Len(p) : p[i].kind = k, NEW r, r = q \o p
  PROVE  HandlersJoined(q, p, k, r)
<1>1. /\ r \in Seq(Handlers) /\ Len(q) \in Nat /\ Len(p) \in Nat
      /\ Len(r) = Len(q) + Len(p)
      /\ \A i \in 1 .. Len(q) : r[i] = q[i]
      /\ \A i \in (Len(q) + 1) .. Len(r) : r[i] = p[i - Len(q)]
  OBVIOUS
<1>2. \A i \in 1 .. Len(p) : r[Len(q) + i] = p[i]
  <2> SUFFICES ASSUME NEW i \in 1 .. Len(p) PROVE r[Len(q) + i] = p[i]
    OBVIOUS
  <2>1. Len(q) + i \in (Len(q) + 1) .. Len(r) /\ (Len(q) + i) - Len(q) = i
    BY <1>1
  <2> QED BY <1>1, <2>1
<1>3. DOMAIN q = 1 .. Len(q) /\ DOMAIN r = 1 .. Len(r)
  BY <1>1
<1>4. \A m : Places(q, m) \subseteq 1 .. Len(q)
  BY <1>3 DEF Places
<1>5. \A i \in (Len(q) + 1) .. Len(r) : r[i].kind = k
  BY <1>1
<1>6. ASSUME NEW m, m # k PROVE Places(r, m) = Places(q, m)
  BY <1>1, <1>3, <1>5, <1>6 DEF Places
<1>7. Places(r, k) = Places(q, k) \cup {Len(q) + i : i \in 1 .. Len(p)}
  <2>1. ASSUME NEW i \in Places(r, k) PROVE i \in Places(q, k) \/ i \in {Len(q) + j : j \in 1 .. Len(p)}
    <3>1. i \in 1 .. Len(r) /\ r[i].kind = k
      BY <1>3 DEF Places
    <3>2. CASE i <= Len(q)
      BY <1>1, <1>3, <3>1, <3>2 DEF Places
    <3>3. CASE i > Len(q)
      <4>1. i - Len(q) \in 1 .. Len(p) /\ i = Len(q) + (i - Len(q))
        BY <1>1, <3>1, <3>3
      <4> QED BY <4>1
    <3> QED BY <1>1, <3>1, <3>2, <3>3
  <2>2. Places(q, k) \subseteq Places(r, k)
    BY <1>1, <1>3 DEF Places
  <2>3. ASSUME NEW j \in 1 .. Len(p) PROVE Len(q) + j \in Places(r, k)
    BY <1>1, <1>3, <1>5 DEF Places
  <2> QED BY <2>1, <2>2, <2>3
<1> QED BY <1>1, <1>2, <1>4, <1>6, <1>7 DEF HandlersJoined

\* CloseClients queues a handler for every write that it aborts.
LEMMA AbortedWrites ==
  ASSUME ServerTypes, ClientTypes, SenderTypes, CloseClients
  PROVE  \E p \in Seq(Handlers) :
           /\ handlers' = Tail(handlers) \o p
           /\ \A i \in 1 .. Len(p) : /\ p[i].kind = "written" /\ ~p[i].ok
                                     /\ p[i].client \in writing \cap clients
           /\ \A i, j \in 1 .. Len(p) : p[i].client = p[j].client => i = j
           /\ \A c \in writing \cap clients : \E i \in 1 .. Len(p) : p[i].client = c
<1> DEFINE aborted == writing \cap clients
<1>1. IsFiniteSet(aborted) /\ aborted \subseteq Clients
  BY ClientsAssumption, FS_Subset DEF SenderTypes
<1>2. Cardinality(aborted) \in Nat
  BY <1>1, FS_CardinalityType
<1> DEFINE n == Cardinality(aborted)
<1>3. PICK order \in Bijection(1 .. n, aborted) :
        handlers' = Tail(handlers) \o
             [i \in DOMAIN order |-> Handler("written", order[i], 0, FALSE)]
  BY DEF CloseClients
<1>4. /\ order \in [1 .. n -> aborted]
      /\ \A i, j \in 1 .. n : order[i] = order[j] => i = j
      /\ \A c \in aborted : \E i \in 1 .. n : order[i] = c
  BY DEF Bijection, Injection, Surjection, IsInjective
<1> DEFINE p == [i \in 1 .. n |-> Handler("written", order[i], 0, FALSE)]
<1>9. n \in Nat
  BY <1>2
<1> HIDE DEF n, aborted
<1>5. \A i \in 1 .. n : /\ p[i] \in Handlers /\ p[i].kind = "written" /\ ~p[i].ok
                        /\ p[i].client = order[i] /\ p[i].client \in aborted
  BY <1>1, <1>4 DEF Handler, Handlers, HandlerKinds
<1>6. p \in Seq(Handlers) /\ Len(p) = n
  <2>1. p \in [1 .. n -> Handlers]
    BY <1>5
  <2> HIDE DEF p
  <2> QED BY <1>9, <2>1
<1>7. handlers' = Tail(handlers) \o p
  BY <1>3, <1>4
<1> HIDE DEF p
<1>8. /\ \A i \in 1 .. Len(p) : /\ p[i].kind = "written" /\ ~p[i].ok
                                /\ p[i].client \in writing \cap clients
      /\ \A i, j \in 1 .. Len(p) : p[i].client = p[j].client => i = j
      /\ \A c \in writing \cap clients : \E i \in 1 .. Len(p) : p[i].client = c
  BY <1>4, <1>5, <1>6 DEF aborted
<1> QED BY <1>6, <1>7, <1>8

\* CloseAcceptors queues the aborted accept, if one was pending, and the closing of
\* the clients.
LEMMA AbortedAccept ==
  ASSUME ServerTypes, CloseAcceptors
  PROVE  \E u \in Seq(Handlers) :
           /\ \/ armed = 0 /\ u = Tail(handlers)
              \/ armed # 0 /\ u = Append(Tail(handlers), Handler("accept", NoClient, armed, FALSE))
           /\ handlers' = Append(u, Handler("closeClients", NoClient, 0, TRUE))
<1>1. handlers \in Seq(Handlers) /\ handlers # <<>> /\ Tail(handlers) \in Seq(Handlers)
  BY DEF CloseAcceptors, IsNext, Idle, ServerTypes
<1>2. /\ Handler("accept", NoClient, armed, FALSE) \in Handlers
      /\ Handler("closeClients", NoClient, 0, TRUE) \in Handlers
  BY DEF ServerTypes, Handler, Handlers, HandlerKinds
<1>3. CASE armed = 0
  BY <1>1, <1>3 DEF CloseAcceptors, AbortAccept
<1>4. CASE armed # 0
  <2>1. Append(Tail(handlers), Handler("accept", NoClient, armed, FALSE)) \in Seq(Handlers)
    BY <1>1, <1>2, AppendProperties
  <2> QED BY <1>4, <2>1 DEF CloseAcceptors, AbortAccept
<1> QED BY <1>3, <1>4

-----------------------------------------------------------------------------
(* Types                                                                   *)

\* The steps that leave the queue of handlers alone.
Quiet == /\ UNCHANGED handlers
         /\ \/ listen \/ StopJoin \/ setPreamble \/ write \/ Sender \/ HandleAcceptEnd
            \/ \E c \in Clients : Connect(c) \/ Drop(c)
            \/ UNCHANGED streamVars

\* Every step is one of these.
LEMMA StepKinds ==
  ASSUME [Next]_streamVars
  PROVE  \/ Quiet \/ stop \/ handleAccept \/ handleWritten \/ CloseAcceptors \/ CloseClients
         \/ \E c \in Clients : AcceptReady(c) \/ WriteDone(c)
<1>1. CASE UNCHANGED streamVars
  BY <1>1 DEF Quiet, streamVars
<1>2. CASE listen \/ StopJoin \/ setPreamble \/ write
  BY <1>2 DEF Quiet, listen, StopJoin, setPreamble, write
<1>3. CASE Sender
  BY <1>3 DEF Quiet, Sender, SendCheck, SendStart, SendEnd
<1>4. CASE IoThread
  <2>1. CASE HandleAcceptEnd
    BY <2>1 DEF Quiet, HandleAcceptEnd
  <2> QED BY <1>4, <2>1 DEF IoThread
<1>5. ASSUME NEW c \in Clients, Connect(c) \/ Drop(c) PROVE Quiet
  BY <1>5 DEF Quiet, Connect, Drop
<1> QED BY <1>1, <1>2, <1>3, <1>4, <1>5 DEF Next

AllTypes == ServerTypes /\ ClientTypes /\ SenderTypes

LEMMA TypesStep == ASSUME AllTypes, [Next]_streamVars PROVE AllTypes'
<1> USE DEF AllTypes
<1>1. CASE Quiet
  <2>h. handlers' = handlers
    BY <1>1 DEF Quiet
  <2>1. CASE UNCHANGED streamVars
    BY <2>1 DEF streamVars, ServerTypes, ClientTypes, SenderTypes
  <2>2. CASE listen
    BY <2>2, <2>h DEF listen, startAccept, ServerTypes, ClientTypes, SenderTypes
  <2>3. CASE StopJoin
    BY <2>3 DEF StopJoin, ServerTypes, ClientTypes, SenderTypes
  <2>4. CASE setPreamble \/ write
    <3>1. \E k \in {"data", "preamble"} : broadcasts' = Append(broadcasts, k)
      BY <2>4 DEF setPreamble, write, Send
    <3>2. broadcasts' \in Seq({"data", "preamble"})
      BY <3>1, AppendProperties DEF SenderTypes
    <3> QED BY <2>4, <3>2 DEF setPreamble, write, ServerTypes, ClientTypes, SenderTypes
  <2>5. CASE Sender
    BY <2>5 DEF Sender, SendCheck, SendStart, SendEnd, ServerTypes, ClientTypes, SenderTypes, Sockets
  <2>6. CASE HandleAcceptEnd
    <3>1. ioClient \in Clients /\ ioClient' = NoClient /\ ioAcceptor' = 0
      BY <2>6 DEF HandleAcceptEnd, ServerTypes
    <3>2. armed' \in {armed, ioAcceptor}
      BY <2>6 DEF HandleAcceptEnd, startAccept
    <3>3. sock' \in [Clients -> Sockets] /\ clients' \in SUBSET Clients
      BY <2>6, <3>1 DEF HandleAcceptEnd, ClientTypes, Sockets
    <3> QED BY <2>6, <3>1, <3>2, <3>3 DEF HandleAcceptEnd, ServerTypes, ClientTypes, SenderTypes
  <2>7. ASSUME NEW c \in Clients, Connect(c) \/ Drop(c) PROVE AllTypes'
    BY <2>7 DEF Connect, Drop, ServerTypes, ClientTypes, SenderTypes, Sockets
  <2> QED BY <1>1, <2>1, <2>2, <2>3, <2>4, <2>5, <2>6, <2>7 DEF Quiet
<1>2. CASE stop
  <2>1. Handler("closeAcceptors", NoClient, 0, TRUE) \in Handlers
    BY DEF Handler, Handlers, HandlerKinds
  <2>2. handlers' \in Seq(Handlers)
    BY <1>2, <2>1, AppendProperties DEF stop, ServerTypes
  <2> QED BY <1>2, <2>2 DEF stop, ServerTypes, ClientTypes, SenderTypes
<1>3. CASE handleAccept
  <2>1. handlers \in Seq(Handlers) /\ handlers # <<>> /\ handlers' = Tail(handlers)
    BY <1>3 DEF handleAccept, IsNext, Idle, ServerTypes
  <2>2. handlers' \in Seq(Handlers) /\ Head(handlers) \in Handlers
    BY <2>1
  <2> QED BY <1>3, <2>2 DEF handleAccept, ServerTypes, ClientTypes, SenderTypes, Handlers
<1>4. CASE handleWritten
  <2>1. handlers \in Seq(Handlers) /\ handlers # <<>> /\ handlers' = Tail(handlers)
    BY <1>4 DEF handleWritten, IsNext, Idle, ServerTypes
  <2>2. handlers' \in Seq(Handlers) /\ Head(handlers) \in Handlers
    BY <2>1
  <2> QED BY <1>4, <2>2 DEF handleWritten, ServerTypes, ClientTypes, SenderTypes
<1>5. CASE CloseAcceptors
  <2>1. handlers' \in Seq(Handlers)
    <3>1. PICK u \in Seq(Handlers) : handlers' = Append(u, Handler("closeClients", NoClient, 0, TRUE))
      BY <1>5, AbortedAccept
    <3>2. Handler("closeClients", NoClient, 0, TRUE) \in Handlers
      BY DEF Handler, Handlers, HandlerKinds
    <3> QED BY <3>1, <3>2, AppendProperties
  <2> QED BY <1>5, <2>1 DEF CloseAcceptors, ServerTypes, ClientTypes, SenderTypes, Sockets
<1>6. CASE CloseClients
  <2>1. handlers \in Seq(Handlers) /\ handlers # <<>>
    BY <1>6 DEF CloseClients, IsNext, Idle, ServerTypes
  <2>2. PICK p \in Seq(Handlers) : handlers' = Tail(handlers) \o p
    BY <1>6, AbortedWrites
  <2>3. handlers' \in Seq(Handlers)
    BY <2>1, <2>2
  <2> QED BY <1>6, <2>3 DEF CloseClients, ServerTypes, ClientTypes, SenderTypes, Sockets
<1>7. ASSUME NEW c \in Clients, AcceptReady(c) PROVE AllTypes'
  <2>1. Handler("accept", c, armed, TRUE) \in Handlers
    BY DEF Handler, Handlers, HandlerKinds, ServerTypes
  <2>2. handlers' \in Seq(Handlers)
    BY <1>7, <2>1, AppendProperties DEF AcceptReady, ServerTypes
  <2> QED BY <1>7, <2>2 DEF AcceptReady, ServerTypes, ClientTypes, SenderTypes, Sockets
<1>8. ASSUME NEW c \in Clients, WriteDone(c), link[c] \in BOOLEAN PROVE AllTypes'
  <2>1. Handler("written", c, 0, link[c]) \in Handlers
    BY <1>8 DEF Handler, Handlers, HandlerKinds
  <2>2. handlers' \in Seq(Handlers)
    BY <1>8, <2>1, AppendProperties DEF WriteDone, ServerTypes
  <2>3. Len(broadcasts) \in Nat
    BY DEF SenderTypes
  <2>4. Append(read[c], Len(broadcasts)) \in Seq(Nat)
    BY <2>3, AppendProperties DEF ClientTypes
  <2>5. read' \in [Clients -> Seq(Nat)]
    BY <1>8, <2>4 DEF WriteDone, ClientTypes
  <2> QED BY <1>8, <2>2, <2>5 DEF WriteDone, ServerTypes, ClientTypes, SenderTypes
<1> QED BY <1>1, <1>2, <1>3, <1>4, <1>5, <1>6, <1>7, <1>8, StepKinds DEF ClientTypes

-----------------------------------------------------------------------------
(* The accept loop                                                         *)

\* A handler that is not an accept is appended, or taken off: nothing changes for
\* the accepts that are queued.
SameAccepts(r) ==
  /\ (\A i, j \in Places(handlers, "accept") : i = j)
       => \A i, j \in Places(r, "accept") : i = j
  /\ Places(handlers, "accept") = {} => Places(r, "accept") = {}
  /\ \A i \in Places(r, "accept") : \E j \in Places(handlers, "accept") : r[i] = handlers[j]

LEMMA TailAccepts ==
  ASSUME handlers \in Seq(Handlers), handlers # <<>>
  PROVE  SameAccepts(Tail(handlers))
<1> DEFINE r == Tail(handlers)
<1>1. Shortened(handlers, r)
  BY Popped
<1> HIDE DEF r
<1>2. \A i, j \in Places(r, "accept") : i + 1 = j + 1 => i = j
  BY <1>1 DEF Shortened
<1>3. SameAccepts(r)
  BY <1>1, <1>2 DEF SameAccepts, Shortened
<1> QED BY <1>3 DEF r

LEMMA AppendAccepts ==
  ASSUME handlers \in Seq(Handlers), NEW h \in Handlers, h.kind # "accept"
  PROVE  SameAccepts(Append(handlers, h))
<1> DEFINE r == Append(handlers, h)
<1>1. Appended(handlers, h, r)
  BY Queued
<1> HIDE DEF r
<1>2. SameAccepts(r)
  BY <1>1 DEF SameAccepts, Appended
<1> QED BY <1>2 DEF r

LEMMA LoopKept ==
  ASSUME LoopInv, SameAccepts(handlers'), ioClient' \in {ioClient, NoClient},
         armed' = armed, ioAcceptor' = ioAcceptor, misuse' = misuse,
         acceptors' = acceptors, accepting' => accepting
  PROVE  LoopInv'
<1>1. (\A i, j \in At("accept") : i = j)'
  BY DEF LoopInv, At, SameAccepts
<1>2. (\A i \in At("accept") : handlers[i].ok =>
       handlers[i].client \in Clients /\ (accepting => handlers[i].acceptor \in acceptors))'
  BY DEF LoopInv, At, SameAccepts
<1>3. (At("accept") = {} => At("accept")' = {})
  BY DEF At, SameAccepts
<1> QED BY <1>1, <1>2, <1>3 DEF LoopInv

LEMMA LoopStep == ASSUME AllTypes, LoopInv, StopInv, [Next]_streamVars PROVE LoopInv'
<1>t. handlers \in Seq(Handlers)
  BY DEF AllTypes, ServerTypes
<1>1. CASE Quiet
  <2>h. handlers' = handlers /\ At("accept")' = At("accept")
    BY <1>1 DEF Quiet, At
  <2>1. CASE listen
    <3>1. At("accept") = {} /\ ioClient = NoClient
      BY <2>1 DEF listen, StopInv
    <3>2. /\ acceptors' = {listens + 1} /\ armed' = listens + 1 /\ ioClient' = ioClient
          /\ ~misuse'
      BY <2>1 DEF listen, startAccept, LoopInv
    <3> QED BY <2>h, <3>1, <3>2 DEF LoopInv
  <2>2. CASE HandleAcceptEnd
    <3>1. ioClient # NoClient /\ ioClient' = NoClient /\ acceptors' = acceptors /\ accepting' = accepting
      BY <2>2 DEF HandleAcceptEnd
    <3>2. At("accept") = {} /\ (accepting => ioAcceptor \in acceptors)
      BY <3>1 DEF LoopInv
    <3>3. ~misuse' /\ (armed' = armed \/ armed' \in acceptors)
      <4>1. startAccept(ioAcceptor) /\ ~misuse
        BY <2>2 DEF HandleAcceptEnd, LoopInv
      <4>2. CASE accepting'
        <5>1. ioAcceptor \in acceptors
          BY <3>1, <3>2, <4>2
        <5>2. armed' = ioAcceptor /\ misuse' = (misuse \/ ioAcceptor \notin acceptors')
          BY <4>1, <4>2 DEF startAccept
        <5> QED BY <3>1, <4>1, <5>1, <5>2
      <4>3. CASE ~accepting'
        BY <4>1, <4>3 DEF startAccept
      <4> QED BY <4>2, <4>3
    <3> QED BY <2>h, <3>1, <3>2, <3>3 DEF LoopInv
  <2>3. CASE /\ ioClient' = ioClient /\ armed' = armed /\ ioAcceptor' = ioAcceptor
             /\ misuse' = misuse /\ acceptors' = acceptors /\ accepting' = accepting
    BY <2>h, <2>3 DEF LoopInv
  <2>4. CASE StopJoin \/ setPreamble \/ write
    BY <2>3, <2>4 DEF StopJoin, setPreamble, write
  <2>5. CASE Sender
    BY <2>3, <2>5 DEF Sender, SendCheck, SendStart, SendEnd
  <2>6. CASE (\E c \in Clients : Connect(c) \/ Drop(c)) \/ UNCHANGED streamVars
    BY <2>3, <2>6 DEF Connect, Drop, streamVars
  <2> QED BY <1>1, <2>1, <2>2, <2>4, <2>5, <2>6 DEF Quiet
<1>2. CASE stop
  <2> DEFINE h == Handler("closeAcceptors", NoClient, 0, TRUE)
  <2>1. h \in Handlers /\ h.kind # "accept" /\ handlers' = Append(handlers, h)
    BY <1>2 DEF stop, Handler, Handlers, HandlerKinds
  <2>2. SameAccepts(handlers')
    BY <1>t, <2>1, AppendAccepts
  <2> QED BY <1>2, <2>2, LoopKept DEF stop
<1>3. CASE handleAccept
  <2>1. handlers # <<>> /\ Head(handlers).kind = "accept" /\ handlers' = Tail(handlers)
    BY <1>3 DEF handleAccept, IsNext, Idle
  <2>0. Shortened(handlers, handlers')
    BY <1>t, <2>1, Popped
  <2>2. /\ Head(handlers) = handlers[1] /\ 1 \in Places(handlers, "accept")
        /\ Places(handlers', "accept") =
             {i \in 1 .. Len(handlers') : i + 1 \in Places(handlers, "accept")}
    BY <2>0, <2>1 DEF Shortened
  <2>3. \A i \in Places(handlers, "accept") : i = 1
    BY <2>2 DEF LoopInv, At
  <2>4. Places(handlers', "accept") = {}
    BY <2>0, <2>2, <2>3 DEF Shortened
  <2>5. armed = 0
    BY <2>2 DEF LoopInv, At
  <2>6. handlers[1].ok => /\ handlers[1].client \in Clients
                          /\ accepting => handlers[1].acceptor \in acceptors
    BY <2>2 DEF LoopInv, At
  <2>7. /\ armed' = armed /\ acceptors' = acceptors /\ accepting' = accepting /\ misuse' = misuse
        /\ handlers[1].ok => ioClient' = handlers[1].client /\ ioAcceptor' = handlers[1].acceptor
        /\ ~handlers[1].ok => ioClient' = ioClient /\ ioAcceptor' = ioAcceptor
    BY <1>3, <2>2 DEF handleAccept
  <2>8. ioClient = NoClient
    BY <1>3 DEF handleAccept, IsNext, Idle
  <2> QED BY <2>4, <2>5, <2>6, <2>7, <2>8 DEF LoopInv, At
<1>4. CASE handleWritten
  <2>1. SameAccepts(handlers')
    BY <1>4, <1>t, TailAccepts DEF handleWritten, IsNext, Idle
  <2> QED BY <1>4, <2>1, LoopKept DEF handleWritten
<1>5. CASE CloseAcceptors
  <2>1. handlers # <<>> /\ Head(handlers).kind = "closeAcceptors" /\ ioClient = NoClient
    BY <1>5 DEF CloseAcceptors, IsNext, Idle
  <2>2. SameAccepts(Tail(handlers)) /\ Tail(handlers) \in Seq(Handlers)
    BY <1>t, <2>1, TailAccepts
  <2>3. ~accepting
    <3>1. Shortened(handlers, Tail(handlers))
      BY <1>t, <2>1, Popped
    <3>2. 1 \in Places(handlers, "closeAcceptors")
      BY <2>1, <3>1 DEF Shortened
    <3> QED BY <3>2 DEF StopInv, At
  <2>4. PICK u \in Seq(Handlers) :
           /\ \/ armed = 0 /\ u = Tail(handlers)
              \/ armed # 0 /\ u = Append(Tail(handlers), Handler("accept", NoClient, armed, FALSE))
           /\ handlers' = Append(u, Handler("closeClients", NoClient, 0, TRUE))
    BY <1>5, AbortedAccept DEF AllTypes
  <2>5. /\ \A i, j \in Places(u, "accept") : i = j
        /\ \A i \in Places(u, "accept") : u[i].ok => u[i].client \in Clients
    <3>1. CASE armed = 0
      BY <2>2, <2>4, <3>1 DEF LoopInv, At, SameAccepts
    <3>2. CASE armed # 0
      <4> DEFINE h == Handler("accept", NoClient, armed, FALSE)
                 t == Tail(handlers)
      <4>1. h \in Handlers /\ h.kind = "accept" /\ h.ok = FALSE
        BY DEF AllTypes, ServerTypes, Handler, Handlers, HandlerKinds
      <4>2. Places(t, "accept") = {}
        BY <2>2, <3>2 DEF LoopInv, At, SameAccepts
      <4>3. u = Append(t, h) /\ t \in Seq(Handlers)
        BY <2>2, <2>4, <3>2
      <4> HIDE DEF t, h
      <4>4. Appended(t, h, u)
        BY <4>1, <4>3, Queued
      <4> QED BY <4>1, <4>2, <4>4 DEF Appended
    <3> QED BY <3>1, <3>2
  <2>6. /\ Places(handlers', "accept") = Places(u, "accept")
        /\ \A i \in Places(u, "accept") : handlers'[i] = u[i]
    <3> DEFINE h == Handler("closeClients", NoClient, 0, TRUE)
    <3>1. h \in Handlers /\ h.kind # "accept"
      BY DEF Handler, Handlers, HandlerKinds
    <3>2. handlers' = Append(u, h)
      BY <2>4
    <3> HIDE DEF h
    <3>3. Appended(u, h, handlers')
      BY <3>1, <3>2, Queued
    <3> QED BY <3>1, <3>3 DEF Appended
  <2>7. armed' = 0 /\ ioClient' = NoClient /\ misuse' = misuse /\ accepting' = accepting
    BY <1>5, <2>1 DEF CloseAcceptors
  <2> QED BY <2>3, <2>5, <2>6, <2>7 DEF LoopInv, At
<1>6. CASE CloseClients
  <2>1. handlers # <<>>
    BY <1>6 DEF CloseClients, IsNext, Idle
  <2> DEFINE t == Tail(handlers)
  <2>2. SameAccepts(t) /\ t \in Seq(Handlers)
    BY <1>t, <2>1, TailAccepts
  <2>3. PICK p \in Seq(Handlers) : /\ handlers' = Tail(handlers) \o p
                                   /\ \A i \in 1 .. Len(p) : p[i].kind = "written"
    BY <1>6, AbortedWrites DEF AllTypes
  <2>4. handlers' = t \o p
    BY <2>3
  <2> HIDE DEF t
  <2>5. HandlersJoined(t, p, "written", handlers')
    BY <2>2, <2>3, <2>4, Concatenated
  <2>6. SameAccepts(handlers')
    BY <2>2, <2>5 DEF SameAccepts, HandlersJoined
  <2> QED BY <1>6, <2>6, LoopKept DEF CloseClients
<1>7. ASSUME NEW c \in Clients, AcceptReady(c) PROVE LoopInv'
  <2> DEFINE h == Handler("accept", c, armed, TRUE)
  <2>1. h \in Handlers /\ h.kind = "accept" /\ h.client = c /\ h.acceptor = armed
    BY DEF AllTypes, ServerTypes, Handler, Handlers, HandlerKinds
  <2>2. handlers' = Append(handlers, h) /\ armed # 0
    BY <1>7 DEF AcceptReady
  <2> HIDE DEF h
  <2>0. Appended(handlers, h, handlers')
    BY <1>t, <2>1, <2>2, Queued
  <2>3. /\ Places(handlers', "accept") = Places(handlers, "accept") \cup {Len(handlers) + 1}
        /\ handlers'[Len(handlers) + 1] = h
    BY <2>0, <2>1 DEF Appended
  <2>4. Places(handlers, "accept") = {} /\ ioClient = NoClient /\ armed \in acceptors
    BY <2>2 DEF LoopInv, At
  <2>5. armed' = 0 /\ ioClient' = ioClient /\ acceptors' = acceptors /\ misuse' = misuse
    BY <1>7 DEF AcceptReady
  <2> QED BY <1>7, <2>1, <2>3, <2>4, <2>5 DEF LoopInv, At
<1>8. ASSUME NEW c \in Clients, WriteDone(c) PROVE LoopInv'
  <2> DEFINE h == Handler("written", c, 0, link[c])
  <2>1. h \in Handlers /\ h.kind # "accept" /\ handlers' = Append(handlers, h)
    BY <1>8 DEF WriteDone, Handler, Handlers, HandlerKinds, AllTypes, ClientTypes
  <2>2. SameAccepts(handlers')
    BY <1>t, <2>1, AppendAccepts
  <2> QED BY <1>8, <2>2, LoopKept DEF WriteDone
<1> QED BY <1>1, <1>2, <1>3, <1>4, <1>5, <1>6, <1>7, <1>8, StepKinds

-----------------------------------------------------------------------------
(* What each step does to the queue                                        *)

\* Taking a handler off keeps what is queued once, in order, or not at all.
Drained(q, r) ==
  /\ \A k : (\A i, j \in Places(q, k) : i = j) => \A i, j \in Places(r, k) : i = j
  /\ \A k : Places(q, k) = {} => Places(r, k) = {}
  /\ \A k : q[1].kind # k /\ Places(r, k) = {} => Places(q, k) = {}
  /\ (\A i, j \in Places(q, q[1].kind) : i = j) => Places(r, q[1].kind) = {}
  /\ \A k, m : (\A i \in Places(q, k), j \in Places(q, m) : i < j)
                 => \A i \in Places(r, k), j \in Places(r, m) : i < j

LEMMA PoppedKeeps ==
  ASSUME NEW q, NEW r, Shortened(q, r)
  PROVE  Drained(q, r)
<1>0. /\ Len(r) = Len(q) - 1 /\ Len(q) \in Nat /\ 1 \in Places(q, q[1].kind)
      /\ \A k : Places(q, k) \subseteq 1 .. Len(q)
      /\ \A k : Places(r, k) = {i \in 1 .. Len(r) : i + 1 \in Places(q, k)}
  BY DEF Shortened
<1>1. \A k : \A i \in Places(r, k) : i \in Nat /\ i >= 1 /\ i + 1 \in Places(q, k)
  BY <1>0
<1>2. ASSUME NEW k, \A i, j \in Places(q, k) : i = j, NEW i \in Places(r, k), NEW j \in Places(r, k)
      PROVE  i = j
  <2>1. i + 1 = j + 1 /\ i \in Nat /\ j \in Nat
    BY <1>1, <1>2
  <2> QED BY <2>1
<1>3. ASSUME NEW k, Places(q, k) = {} PROVE Places(r, k) = {}
  BY <1>1, <1>3
<1>4. ASSUME NEW k, q[1].kind # k, NEW i \in Places(q, k) PROVE i - 1 \in Places(r, k)
  <2>1. i # 1
    BY <1>4 DEF Places
  <2>2. i - 1 \in 1 .. Len(r) /\ (i - 1) + 1 = i
    BY <1>0, <2>1
  <2> QED BY <1>0, <2>2
<1>5. ASSUME \A i, j \in Places(q, q[1].kind) : i = j PROVE Places(r, q[1].kind) = {}
  <2> SUFFICES ASSUME NEW i \in Places(r, q[1].kind) PROVE FALSE
    OBVIOUS
  <2>1. i + 1 = 1 /\ i \in Nat /\ i >= 1
    BY <1>0, <1>1, <1>5
  <2> QED BY <2>1
<1>6. ASSUME NEW k, NEW m, \A i \in Places(q, k), j \in Places(q, m) : i < j,
             NEW i \in Places(r, k), NEW j \in Places(r, m)
      PROVE  i < j
  <2>1. i + 1 < j + 1 /\ i \in Nat /\ j \in Nat
    BY <1>1, <1>6
  <2> QED BY <2>1
<1> QED BY <1>2, <1>3, <1>4, <1>5, <1>6 DEF Drained

\* A handler of the io thread takes the first handler off the queue.
LEMMA Handled ==
  ASSUME AllTypes, NEW k, IsNext(k)
  PROVE  /\ ioClient = NoClient /\ ioThread = "run"
         /\ handlers[1].kind = k /\ Head(handlers) = handlers[1] /\ 1 \in At(k)
         /\ Shortened(handlers, Tail(handlers)) /\ Drained(handlers, Tail(handlers))
<1>1. /\ handlers \in Seq(Handlers) /\ handlers # <<>> /\ Head(handlers).kind = k
      /\ ioClient = NoClient /\ ioThread = "run"
  BY DEF IsNext, Idle, AllTypes, ServerTypes
<1>2. Shortened(handlers, Tail(handlers))
  BY <1>1, Popped
<1>3. Drained(handlers, Tail(handlers))
  BY <1>2, PoppedKeeps
<1>4. Head(handlers) = handlers[1] /\ 1 \in Places(handlers, handlers[1].kind)
  BY <1>2 DEF Shortened
<1> QED BY <1>1, <1>2, <1>3, <1>4 DEF At

LEMMA StopQueues ==
  ASSUME AllTypes, stop
  PROVE  \E h \in Handlers : Appended(handlers, h, handlers') /\ h.kind = "closeAcceptors"
<1> DEFINE h == Handler("closeAcceptors", NoClient, 0, TRUE)
<1>1. h \in Handlers /\ h.kind = "closeAcceptors"
  BY DEF Handler, Handlers, HandlerKinds
<1>2. handlers' = Append(handlers, h) /\ handlers \in Seq(Handlers)
  BY DEF stop, AllTypes, ServerTypes
<1> HIDE DEF h
<1>3. Appended(handlers, h, handlers')
  BY <1>1, <1>2, Queued
<1> QED BY <1>1, <1>3

LEMMA AcceptQueues ==
  ASSUME AllTypes, NEW c \in Clients, AcceptReady(c)
  PROVE  \E h \in Handlers : /\ Appended(handlers, h, handlers') /\ h.kind = "accept"
                             /\ h.client = c /\ h.ok
<1> DEFINE h == Handler("accept", c, armed, TRUE)
<1>1. h \in Handlers /\ h.kind = "accept" /\ h.client = c /\ h.ok
  BY DEF Handler, Handlers, HandlerKinds, AllTypes, ServerTypes
<1>2. handlers' = Append(handlers, h) /\ handlers \in Seq(Handlers)
  BY DEF AcceptReady, AllTypes, ServerTypes
<1> HIDE DEF h
<1>3. Appended(handlers, h, handlers')
  BY <1>1, <1>2, Queued
<1> QED BY <1>1, <1>3

LEMMA WriteQueues ==
  ASSUME AllTypes, NEW c \in Clients, WriteDone(c)
  PROVE  \E h \in Handlers : /\ Appended(handlers, h, handlers') /\ h.kind = "written"
                             /\ h.client = c /\ h.ok = link[c]
<1> DEFINE h == Handler("written", c, 0, link[c])
<1>0. link[c] \in BOOLEAN
  BY DEF AllTypes, ClientTypes
<1>1. h \in Handlers /\ h.kind = "written" /\ h.client = c /\ h.ok = link[c]
  BY <1>0 DEF Handler, Handlers, HandlerKinds
<1>2. handlers' = Append(handlers, h) /\ handlers \in Seq(Handlers)
  BY DEF WriteDone, AllTypes, ServerTypes
<1> HIDE DEF h
<1>3. Appended(handlers, h, handlers')
  BY <1>1, <1>2, Queued
<1> QED BY <1>1, <1>3

\* g is an accept that was aborted.
AbortedHandler(g) == g \in Handlers /\ g.kind = "accept" /\ ~g.ok

LEMMA CloseQueues ==
  ASSUME AllTypes, CloseAcceptors
  PROVE  \E u, h : /\ \/ armed = 0 /\ u = Tail(handlers)
                      \/ armed # 0 /\ \E g : AbortedHandler(g) /\ Appended(Tail(handlers), g, u)
                   /\ Appended(u, h, handlers') /\ h.kind = "closeClients"
<1>1. PICK u \in Seq(Handlers) :
           /\ \/ armed = 0 /\ u = Tail(handlers)
              \/ armed # 0 /\ u = Append(Tail(handlers), Handler("accept", NoClient, armed, FALSE))
           /\ handlers' = Append(u, Handler("closeClients", NoClient, 0, TRUE))
  BY AbortedAccept DEF AllTypes
<1> DEFINE h == Handler("closeClients", NoClient, 0, TRUE)
           g == Handler("accept", NoClient, armed, FALSE)
           t == Tail(handlers)
<1>2. /\ h \in Handlers /\ h.kind = "closeClients" /\ handlers' = Append(u, h)
  BY <1>1 DEF Handler, Handlers, HandlerKinds
<1>3. g \in Handlers /\ AbortedHandler(g)
  BY DEF Handler, Handlers, HandlerKinds, AbortedHandler, AllTypes, ServerTypes
<1>4. t \in Seq(Handlers)
  BY DEF CloseAcceptors, IsNext, Idle, AllTypes, ServerTypes
<1>5. armed # 0 => u = Append(t, g)
  BY <1>1
<1>8. armed = 0 => u = t
  BY <1>1
<1> HIDE DEF h, g, t
<1>6. Appended(u, h, handlers')
  BY <1>2, Queued
<1>7. armed # 0 => Appended(t, g, u)
  BY <1>3, <1>4, <1>5, Queued
<1>9. \E v, w : /\ \/ armed = 0 /\ v = t
                   \/ armed # 0 /\ \E x : AbortedHandler(x) /\ Appended(t, x, v)
                /\ Appended(v, w, handlers') /\ w.kind = "closeClients"
  BY <1>2, <1>3, <1>6, <1>7, <1>8
<1> QED BY <1>9 DEF t

\* The handlers p are those of the writes to the clients in s, which failed.
AbortedHandlers(p, s) ==
  /\ p \in Seq(Handlers)
  /\ \A i \in 1 .. Len(p) : p[i].kind = "written" /\ ~p[i].ok /\ p[i].client \in s
  /\ \A i, j \in 1 .. Len(p) : p[i].client = p[j].client => i = j
  /\ \A c \in s : \E i \in 1 .. Len(p) : p[i].client = c

LEMMA AbortQueues ==
  ASSUME AllTypes, CloseClients
  PROVE  \E p : /\ AbortedHandlers(p, writing \cap clients)
                /\ HandlersJoined(Tail(handlers), p, "written", handlers')
<1>1. PICK p \in Seq(Handlers) :
           /\ handlers' = Tail(handlers) \o p
           /\ \A i \in 1 .. Len(p) : /\ p[i].kind = "written" /\ ~p[i].ok
                                     /\ p[i].client \in writing \cap clients
           /\ \A i, j \in 1 .. Len(p) : p[i].client = p[j].client => i = j
           /\ \A c \in writing \cap clients : \E i \in 1 .. Len(p) : p[i].client = c
  BY AbortedWrites DEF AllTypes
<1> DEFINE t == Tail(handlers)
<1>0. IsNext("closeClients")
  BY DEF CloseClients
<1>2. t \in Seq(Handlers) /\ handlers' = t \o p
  <2>1. handlers \in Seq(Handlers) /\ handlers # <<>>
    BY <1>0 DEF IsNext, Idle, AllTypes, ServerTypes
  <2> QED BY <1>1, <2>1
<1>3. AbortedHandlers(p, writing \cap clients)
  BY <1>1 DEF AbortedHandlers
<1>5. \A i \in 1 .. Len(p) : p[i].kind = "written"
  BY <1>1
<1> HIDE DEF t
<1>4. HandlersJoined(t, p, "written", handlers')
  BY <1>2, <1>5, Concatenated
<1> QED BY <1>3, <1>4 DEF t

-----------------------------------------------------------------------------
(* Stopping                                                                *)

LEMMA StopStep == ASSUME AllTypes, LoopInv, StopInv, [Next]_streamVars PROVE StopInv'
<1>1. CASE Quiet
  <2>h. \A k : At(k)' = At(k)
    BY <1>1 DEF Quiet, At
  <2>1. CASE listen
    <3>1. acceptors' # {} /\ opc' = opc /\ opc = "idle"
      BY <2>1 DEF listen
    <3> QED BY <2>h, <3>1 DEF StopInv
  <2>2. CASE HandleAcceptEnd
    <3>1. acceptors' = acceptors /\ opc' = opc /\ ioThread' = ioThread /\ accepting' = accepting
      BY <2>2 DEF HandleAcceptEnd
    <3>2. ~(acceptors = {} /\ opc \in {"idle", "join"})
      BY <2>2 DEF HandleAcceptEnd, StopInv
    <3> QED BY <2>h, <3>1, <3>2 DEF StopInv
  <2>3. CASE StopJoin
    <3>1. /\ opc = "join" /\ opc' = "idle" /\ acceptors' = acceptors /\ ioClient' = ioClient
          /\ clients' = clients
      BY <2>3 DEF StopJoin
    <3> QED BY <2>h, <3>1 DEF StopInv
  <2>4. CASE /\ ioClient' = ioClient /\ ioThread' = ioThread /\ opc' = opc
             /\ clients' \subseteq clients /\ acceptors' = acceptors /\ accepting' = accepting
    BY <2>h, <2>4 DEF StopInv
  <2>5. CASE setPreamble \/ write
    BY <2>4, <2>5 DEF setPreamble, write
  <2>6. CASE Sender
    BY <2>4, <2>6 DEF Sender, SendCheck, SendStart, SendEnd
  <2>7. CASE (\E c \in Clients : Connect(c) \/ Drop(c)) \/ UNCHANGED streamVars
    BY <2>4, <2>7 DEF Connect, Drop, streamVars
  <2> QED BY <1>1, <2>1, <2>2, <2>3, <2>5, <2>6, <2>7 DEF Quiet
<1>2. CASE stop
  <2>1. PICK h \in Handlers : Appended(handlers, h, handlers') /\ h.kind = "closeAcceptors"
    BY <1>2, StopQueues
  <2>2. /\ opc = "idle" /\ opc' = "acceptors" /\ acceptors # {} /\ acceptors' = acceptors
        /\ ~accepting' /\ ioThread' = "run"
    BY <1>2 DEF stop, ensure_asio_running
  <2>3. /\ At("closeAcceptors")' = At("closeAcceptors") \cup {Len(handlers) + 1}
        /\ At("closeClients")' = At("closeClients")
    BY <2>1 DEF Appended, At
  <2>4. At("closeAcceptors") = {} /\ At("closeClients") = {}
    BY <2>2 DEF StopInv
  <2> QED BY <2>2, <2>3, <2>4 DEF StopInv
<1>3. CASE handleAccept
  <2>1. /\ handlers[1].kind = "accept" /\ Drained(handlers, Tail(handlers)) /\ 1 \in At("accept")
        /\ handlers' = Tail(handlers)
    BY <1>3, Handled DEF handleAccept
  <2>2. opc' = opc /\ acceptors' = acceptors /\ ioThread' = ioThread /\ accepting' = accepting
    BY <1>3 DEF handleAccept
  <2>3. ~(acceptors = {} /\ opc \in {"idle", "join"})
    BY <2>1 DEF StopInv
  <2> QED BY <2>1, <2>2, <2>3 DEF StopInv, Drained, At
<1>4. CASE handleWritten
  <2>1. /\ handlers[1].kind = "written" /\ Drained(handlers, Tail(handlers))
        /\ handlers' = Tail(handlers)
    BY <1>4, Handled DEF handleWritten
  <2>2. /\ opc' = opc /\ acceptors' = acceptors /\ ioThread' = ioThread /\ accepting' = accepting
        /\ ioClient' = ioClient /\ clients' = clients
    BY <1>4 DEF handleWritten
  <2> QED BY <2>1, <2>2 DEF StopInv, Drained, At
<1>5. CASE CloseAcceptors
  <2> DEFINE t == Tail(handlers)
  <2>1. /\ handlers[1].kind = "closeAcceptors" /\ Drained(handlers, t) /\ 1 \in At("closeAcceptors")
        /\ Shortened(handlers, t) /\ ioThread = "run"
    BY <1>5, Handled DEF CloseAcceptors
  <2>2. PICK u, h : /\ \/ armed = 0 /\ u = t
                       \/ armed # 0 /\ \E g : AbortedHandler(g) /\ Appended(t, g, u)
                    /\ Appended(u, h, handlers') /\ h.kind = "closeClients"
    BY <1>5, CloseQueues
  <2> HIDE DEF t
  <2>3. opc = "acceptors" /\ ~accepting /\ At("closeClients") = {}
    BY <2>1 DEF StopInv
  <2>4. Places(t, "closeAcceptors") = {} /\ Places(t, "closeClients") = {}
    BY <2>1, <2>3 DEF Drained, StopInv, At
  <2>5. Places(u, "closeAcceptors") = {} /\ Places(u, "closeClients") = {}
    BY <2>2, <2>4 DEF Appended, AbortedHandler
  <2>6. /\ At("closeAcceptors")' = {} /\ At("closeClients")' = {Len(u) + 1}
        /\ At("accept")' = Places(u, "accept") /\ Places(u, "accept") \subseteq 1 .. Len(u)
        /\ Len(u) \in Nat
    BY <2>2, <2>5 DEF Appended, At
  <2>7. opc' = "clients" /\ acceptors' = {} /\ ioThread' = ioThread /\ accepting' = accepting
    BY <1>5 DEF CloseAcceptors
  <2> QED BY <2>1, <2>3, <2>6, <2>7 DEF StopInv
<1>6. CASE CloseClients
  <2> DEFINE t == Tail(handlers)
  <2>1. /\ handlers[1].kind = "closeClients" /\ Drained(handlers, t) /\ 1 \in At("closeClients")
        /\ Shortened(handlers, t) /\ ioThread = "run" /\ ioClient = NoClient
    BY <1>6, Handled DEF CloseClients
  <2>2. PICK p : HandlersJoined(t, p, "written", handlers')
    BY <1>6, AbortQueues
  <2> HIDE DEF t
  <2>3. opc = "clients" /\ ~accepting /\ At("closeAcceptors") = {} /\ acceptors = {}
    BY <2>1 DEF StopInv
  <2>4. At("accept") = {}
    <3>1. \A i \in At("accept") : i < 1
      BY <2>1 DEF StopInv
    <3>2. \A i \in At("accept") : i \in 1 .. Len(handlers)
      BY <2>1 DEF Shortened, At
    <3> QED BY <3>1, <3>2
  <2>5. /\ Places(t, "closeAcceptors") = {} /\ Places(t, "closeClients") = {}
        /\ Places(t, "accept") = {}
    BY <2>1, <2>3, <2>4 DEF Drained, StopInv, At
  <2>6. At("closeAcceptors")' = {} /\ At("closeClients")' = {} /\ At("accept")' = {}
    BY <2>2, <2>5 DEF HandlersJoined, At
  <2>7. /\ opc' = "join" /\ acceptors' = acceptors /\ ioThread' = ioThread /\ accepting' = accepting
        /\ ioClient' = ioClient /\ clients' = {}
    BY <1>6 DEF CloseClients
  <2> QED BY <2>1, <2>3, <2>6, <2>7 DEF StopInv
<1>7. ASSUME NEW c \in Clients, AcceptReady(c) PROVE StopInv'
  <2>1. PICK h \in Handlers : Appended(handlers, h, handlers') /\ h.kind = "accept"
    BY <1>7, AcceptQueues
  <2>2. /\ armed # 0 /\ acceptors' = acceptors /\ opc' = opc /\ ioThread' = ioThread
        /\ accepting' = accepting
    BY <1>7 DEF AcceptReady
  <2>3. acceptors # {}
    BY <2>2 DEF LoopInv
  <2>4. opc # "clients" /\ At("closeClients") = {}
    BY <2>3 DEF StopInv
  <2>5. At("closeClients")' = At("closeClients") /\ At("closeAcceptors")' = At("closeAcceptors")
    BY <2>1 DEF Appended, At
  <2> QED BY <2>2, <2>3, <2>4, <2>5 DEF StopInv
<1>8. ASSUME NEW c \in Clients, WriteDone(c) PROVE StopInv'
  <2>1. PICK h \in Handlers : Appended(handlers, h, handlers') /\ h.kind = "written"
    BY <1>8, WriteQueues
  <2>2. /\ At("closeClients")' = At("closeClients") /\ At("closeAcceptors")' = At("closeAcceptors")
        /\ At("accept")' = At("accept")
    BY <2>1 DEF Appended, At
  <2>3. /\ opc' = opc /\ acceptors' = acceptors /\ ioThread' = ioThread /\ accepting' = accepting
        /\ ioClient' = ioClient /\ clients' = clients
    BY <1>8 DEF WriteDone
  <2> QED BY <2>2, <2>3 DEF StopInv
<1> QED BY <1>1, <1>2, <1>3, <1>4, <1>5, <1>6, <1>7, <1>8, StepKinds

-----------------------------------------------------------------------------
(* What is in the queue                                                    *)

LEMMA PlacesAndRange ==
  ASSUME NEW q, NEW k
  PROVE  Places(q, k) = {} <=> \A h \in Range(q) : h.kind # k
BY DEF Places, Range

LEMMA WrittenRange ==
  ASSUME NEW c
  PROVE  c \in Written <=> \E h \in Range(handlers) : h.kind = "written" /\ h.client = c
BY DEF Written, WrittenAt, Range

LEMMA AppendedRange ==
  ASSUME NEW q \in Seq(Handlers), NEW h, NEW r, Appended(q, h, r)
  PROVE  Range(r) = Range(q) \cup {h}
<1>1. /\ DOMAIN q = 1 .. Len(q) /\ Len(q) \in Nat /\ DOMAIN r = 1 .. (Len(q) + 1)
      /\ \A i \in 1 .. Len(q) : r[i] = q[i]
      /\ r[Len(q) + 1] = h
  BY DEF Appended
<1>2. \A i \in DOMAIN r : i \in DOMAIN q \/ i = Len(q) + 1
  BY <1>1
<1>3. Len(q) + 1 \in DOMAIN r /\ DOMAIN q \subseteq DOMAIN r
  BY <1>1
<1> QED BY <1>1, <1>2, <1>3 DEF Range

LEMMA ShortenedRange ==
  ASSUME NEW q \in Seq(Handlers), NEW r, Shortened(q, r)
  PROVE  Range(q) = Range(r) \cup {q[1]}
<1>1. /\ DOMAIN q = 1 .. Len(q) /\ Len(q) \in Nat /\ Len(r) = Len(q) - 1
      /\ DOMAIN r = 1 .. Len(r)
      /\ \A i \in 1 .. Len(r) : r[i] = q[i + 1]
      /\ 1 \in DOMAIN q
  BY DEF Shortened, Places
<1>2. \A i \in DOMAIN q : i = 1 \/ (i - 1 \in DOMAIN r /\ q[i] = r[i - 1])
  <2> SUFFICES ASSUME NEW i \in DOMAIN q, i # 1 PROVE i - 1 \in DOMAIN r /\ q[i] = r[i - 1]
    OBVIOUS
  <2>1. i - 1 \in 1 .. Len(r) /\ (i - 1) + 1 = i
    BY <1>1
  <2> QED BY <1>1, <2>1
<1>3. \A i \in DOMAIN r : i + 1 \in DOMAIN q /\ r[i] = q[i + 1]
  BY <1>1
<1> QED BY <1>1, <1>2, <1>3 DEF Range

LEMMA JoinedRange ==
  ASSUME NEW q \in Seq(Handlers), NEW p \in Seq(Handlers), NEW k, NEW r, HandlersJoined(q, p, k, r)
  PROVE  Range(r) = Range(q) \cup Range(p)
<1>1. /\ DOMAIN q = 1 .. Len(q) /\ Len(q) \in Nat /\ DOMAIN p = 1 .. Len(p) /\ Len(p) \in Nat
      /\ Len(r) = Len(q) + Len(p) /\ DOMAIN r = 1 .. Len(r)
      /\ \A i \in 1 .. Len(q) : r[i] = q[i]
      /\ \A i \in 1 .. Len(p) : r[Len(q) + i] = p[i]
  BY DEF HandlersJoined
<1>2. \A i \in DOMAIN r : \/ i \in DOMAIN q /\ r[i] = q[i]
                          \/ i - Len(q) \in DOMAIN p /\ r[i] = p[i - Len(q)]
  <2> SUFFICES ASSUME NEW i \in DOMAIN r, ~(i \in DOMAIN q /\ r[i] = q[i])
               PROVE  i - Len(q) \in DOMAIN p /\ r[i] = p[i - Len(q)]
    OBVIOUS
  <2>1. i - Len(q) \in 1 .. Len(p) /\ Len(q) + (i - Len(q)) = i
    BY <1>1
  <2> QED BY <1>1, <2>1
<1>3. /\ \A i \in DOMAIN q : i \in DOMAIN r
      /\ \A i \in DOMAIN p : Len(q) + i \in DOMAIN r
  BY <1>1
<1> QED BY <1>1, <1>2, <1>3 DEF Range

\* What the handlers of the io thread take off the queue and put into it.
LEMMA HandledRange ==
  ASSUME AllTypes, NEW k, IsNext(k)
  PROVE  /\ Range(handlers) = Range(Tail(handlers)) \cup {handlers[1]}
         /\ handlers[1] \in Handlers
<1>1. Shortened(handlers, Tail(handlers)) /\ handlers \in Seq(Handlers)
  BY Handled DEF AllTypes, ServerTypes
<1> DEFINE t == Tail(handlers)
<1>2. Shortened(handlers, t)
  BY <1>1
<1> HIDE DEF t
<1>3. Range(handlers) = Range(t) \cup {handlers[1]}
  BY <1>1, <1>2, ShortenedRange
<1>4. handlers[1] \in Handlers
  BY <1>2 DEF Shortened
<1> QED BY <1>3, <1>4 DEF t

LEMMA CloseAcceptorsRange ==
  ASSUME AllTypes, CloseAcceptors
  PROVE  /\ Range(Tail(handlers)) \subseteq Range(handlers')
         /\ \A h : h \in Range(handlers') =>
              h \in Range(Tail(handlers)) \/ h.kind = "closeClients" \/ AbortedHandler(h)
<1> DEFINE t == Tail(handlers)
<1>0. t \in Seq(Handlers)
  BY DEF CloseAcceptors, IsNext, Idle, AllTypes, ServerTypes
<1>2. PICK u, h : /\ \/ armed = 0 /\ u = t
                     \/ armed # 0 /\ \E g : AbortedHandler(g) /\ Appended(t, g, u)
                  /\ Appended(u, h, handlers') /\ h.kind = "closeClients"
  BY CloseQueues
<1> HIDE DEF t
<1>3. /\ u \in Seq(Handlers) /\ Range(t) \subseteq Range(u)
      /\ \A x \in Range(u) : x \in Range(t) \/ AbortedHandler(x)
  <2>1. CASE armed = 0
    BY <1>0, <1>2, <2>1
  <2>2. CASE armed # 0
    <3>1. PICK g : AbortedHandler(g) /\ Appended(t, g, u)
      BY <1>2, <2>2
    <3>2. Range(u) = Range(t) \cup {g}
      BY <1>0, <3>1, AppendedRange
    <3>3. u \in Seq(Handlers)
      BY <3>1 DEF Appended
    <3> QED BY <3>1, <3>2, <3>3
  <2> QED BY <2>1, <2>2
<1>4. Range(handlers') = Range(u) \cup {h}
  BY <1>2, <1>3, AppendedRange
<1>5. /\ Range(t) \subseteq Range(handlers')
      /\ \A x : x \in Range(handlers') =>
           x \in Range(t) \/ x.kind = "closeClients" \/ AbortedHandler(x)
  BY <1>2, <1>3, <1>4
<1> QED BY <1>5 DEF t

-----------------------------------------------------------------------------
(* The sockets                                                             *)

LEMMA SockStep ==
  ASSUME AllTypes, LoopInv, StopInv, SockInv, WriteInv, [Next]_streamVars
  PROVE  SockInv'
<1>t. handlers \in Seq(Handlers) /\ sock \in [Clients -> Sockets] /\ clients \subseteq Clients
  BY DEF AllTypes, ServerTypes, ClientTypes
<1>n. NoClient \notin Clients
  BY ClientsAssumption
<1>1. CASE Quiet
  <2>h. handlers' = handlers /\ Written' = Written
    BY <1>1 DEF Quiet, Written, WrittenAt
  <2>1. CASE listen
    <3>1. /\ acceptors' # {} /\ sock' = sock /\ clients' = clients /\ ioClient' = ioClient
          /\ read' = read /\ failedClients' = failedClients
      BY <2>1 DEF listen
    <3> QED BY <2>h, <3>1 DEF SockInv, Taken
  <2>2. CASE HandleAcceptEnd
    <3>1. /\ ioClient \in Clients /\ ioClient' = NoClient /\ acceptors' = acceptors
          /\ read' = read /\ failedClients' = failedClients
      BY <2>2 DEF HandleAcceptEnd, AllTypes, ServerTypes
    <3>2. At("accept") = {}
      BY <1>n, <3>1 DEF LoopInv
    <3>3. \A h \in Range(handlers) : h.kind # "accept"
      BY <3>2, PlacesAndRange DEF At
    <3>4. \A c \in Clients : (sock[c] = "taken" <=> c = ioClient) /\ ~Taken(c)'
      BY <1>n, <2>h, <3>1, <3>3 DEF SockInv, Taken
    <3>5. \/ clients' = clients \cup {ioClient} /\ sock' = [sock EXCEPT ![ioClient] = "open"]
          \/ clients' = clients /\ sock' = [sock EXCEPT ![ioClient] = "closed"]
      BY <2>2 DEF HandleAcceptEnd
    <3>6. \A c \in Clients : c # ioClient => sock'[c] = sock[c]
      BY <1>t, <3>5
    <3>7. ioClient \notin clients
      BY <3>1, <3>4 DEF SockInv
    <3>8. \A c \in Clients : sock'[c] = "open" <=> c \in clients'
      BY <1>t, <3>1, <3>5, <3>7 DEF SockInv
    <3>9. sock'[ioClient] \in {"open", "closed"}
      BY <1>t, <3>1, <3>5
    <3>10. /\ \A c \in Clients : (sock[c] = "taken" <=> Taken(c))'
           /\ acceptors' = {} => \A c \in Clients : sock'[c] # "backlog"
           /\ \A c \in Clients : sock'[c] \in {"away", "backlog", "taken"} =>
               read'[c] = <<>> /\ c \notin failedClients' /\ c \notin Written'
      BY <2>h, <3>1, <3>4, <3>6, <3>9 DEF SockInv
    <3> QED BY <3>8, <3>10 DEF SockInv
  <2>3. CASE SendEnd
    <3>1. /\ clients' = clients \ failedClients /\ ioClient' = ioClient /\ acceptors' = acceptors
          /\ read' = read /\ failedClients' = failedClients
          /\ \A c \in Clients : sock'[c] = IF c \in failedClients THEN "closed" ELSE sock[c]
      BY <2>3 DEF SendEnd
    <3>2. \A c \in Clients : Taken(c)' <=> Taken(c)
      BY <2>h, <3>1 DEF Taken
    <3> QED BY <2>h, <3>1, <3>2 DEF SockInv
  <2>4. ASSUME NEW c \in Clients, Connect(c) PROVE SockInv'
    <3>1. /\ clients' = clients /\ ioClient' = ioClient /\ acceptors' = acceptors /\ acceptors # {}
          /\ read' = read /\ failedClients' = failedClients
          /\ sock[c] = "away" /\ sock' = [sock EXCEPT ![c] = "backlog"]
      BY <2>4 DEF Connect
    <3>2. \A d \in Clients : Taken(d)' <=> Taken(d)
      BY <2>h, <3>1 DEF Taken
    <3> QED BY <1>t, <2>h, <3>1, <3>2 DEF SockInv
  <2>5. CASE /\ ioClient' = ioClient /\ sock' = sock /\ clients' = clients /\ acceptors' = acceptors
             /\ read' = read /\ failedClients' \subseteq failedClients
    BY <2>h, <2>5 DEF SockInv, Taken
  <2>6. CASE StopJoin \/ setPreamble \/ write \/ SendCheck \/ SendStart
    BY <2>5, <2>6 DEF StopJoin, setPreamble, write, SendCheck, SendStart
  <2>7. CASE (\E c \in Clients : Drop(c)) \/ UNCHANGED streamVars
    BY <2>5, <2>7 DEF Drop, streamVars
  <2> QED BY <1>1, <2>1, <2>2, <2>3, <2>4, <2>6, <2>7 DEF Quiet, Sender
<1>k. ASSUME \A h : h \in Range(handlers') /\ h.kind \in {"accept", "written"} =>
                h \in Range(handlers) \/ AbortedHandler(h),
             \A h \in Range(handlers) : h.kind = "accept" => h \in Range(handlers'),
             ioClient' = ioClient
      PROVE  /\ \A c \in Clients : Taken(c)' <=> Taken(c)
             /\ Written' \subseteq Written
  <2>1. \A c \in Clients : Taken(c)' <=> Taken(c)
    BY <1>k DEF Taken, AbortedHandler
  <2>2. ASSUME NEW c \in Written' PROVE c \in Written
    <3>1. \E h \in Range(handlers') : h.kind = "written" /\ h.client = c
      BY DEF Written, WrittenAt, Range
    <3> QED BY <1>k, <3>1, WrittenRange DEF AbortedHandler
  <2> QED BY <2>1, <2>2
<1>2. CASE stop
  <2>1. PICK h \in Handlers : Appended(handlers, h, handlers') /\ h.kind = "closeAcceptors"
    BY <1>2, StopQueues
  <2>2. Range(handlers') = Range(handlers) \cup {h}
    BY <1>t, <2>1, AppendedRange
  <2>3. /\ ioClient' = ioClient /\ sock' = sock /\ clients' = clients /\ acceptors' = acceptors
        /\ read' = read /\ failedClients' = failedClients
    BY <1>2 DEF stop
  <2>4. (\A c \in Clients : Taken(c)' <=> Taken(c)) /\ Written' \subseteq Written
    BY <1>k, <2>1, <2>2, <2>3
  <2> QED BY <2>3, <2>4 DEF SockInv
<1>3. CASE handleAccept
  <2>0. IsNext("accept") /\ handlers' = Tail(handlers)
    BY <1>3 DEF handleAccept
  <2>1. /\ handlers[1].kind = "accept" /\ Drained(handlers, Tail(handlers)) /\ 1 \in At("accept")
        /\ Head(handlers) = handlers[1] /\ ioClient = NoClient
        /\ Range(handlers) = Range(Tail(handlers)) \cup {handlers[1]}
    BY <2>0, Handled, HandledRange
  <2>2. Places(handlers', "accept") = {}
    BY <2>0, <2>1 DEF Drained, LoopInv, At
  <2>3. \A h \in Range(handlers') : h.kind # "accept"
    BY <2>2, PlacesAndRange
  <2>4. /\ handlers[1].ok => ioClient' = handlers[1].client
        /\ ~handlers[1].ok => ioClient' = ioClient
    BY <1>3, <2>1 DEF handleAccept
  <2>5. \A c \in Clients : Taken(c)' <=> Taken(c)
    BY <1>n, <2>0, <2>1, <2>3, <2>4 DEF Taken
  <2>6. Written' \subseteq Written
    <3> SUFFICES ASSUME NEW c \in Written' PROVE c \in Written
      OBVIOUS
    <3>1. \E h \in Range(handlers') : h.kind = "written" /\ h.client = c
      BY DEF Written, WrittenAt, Range
    <3> QED BY <2>0, <2>1, <3>1, WrittenRange
  <2>7. /\ sock' = sock /\ clients' = clients /\ acceptors' = acceptors
        /\ read' = read /\ failedClients' = failedClients
    BY <1>3 DEF handleAccept
  <2> QED BY <2>5, <2>6, <2>7 DEF SockInv
<1>4. CASE handleWritten
  <2>0. IsNext("written") /\ handlers' = Tail(handlers)
    BY <1>4 DEF handleWritten
  <2>1. /\ handlers[1].kind = "written" /\ Head(handlers) = handlers[1]
        /\ Range(handlers) = Range(Tail(handlers)) \cup {handlers[1]}
    BY <2>0, Handled, HandledRange
  <2>2. /\ ioClient' = ioClient /\ sock' = sock /\ clients' = clients /\ acceptors' = acceptors
        /\ read' = read /\ failedClients' \subseteq failedClients \cup {handlers[1].client}
    BY <1>4, <2>1 DEF handleWritten
  <2>3. (\A c \in Clients : Taken(c)' <=> Taken(c)) /\ Written' \subseteq Written
    BY <1>k, <2>0, <2>1, <2>2
  <2>4. handlers[1].client \in Written
    BY <2>1, WrittenRange
  <2> QED BY <2>2, <2>3, <2>4 DEF SockInv
<1>5. CASE CloseAcceptors
  <2>0. IsNext("closeAcceptors")
    BY <1>5 DEF CloseAcceptors
  <2>1. /\ handlers[1].kind = "closeAcceptors"
        /\ Range(handlers) = Range(Tail(handlers)) \cup {handlers[1]}
    BY <2>0, Handled, HandledRange
  <2>2. /\ Range(Tail(handlers)) \subseteq Range(handlers')
        /\ \A h : h \in Range(handlers') =>
             h \in Range(Tail(handlers)) \/ h.kind = "closeClients" \/ AbortedHandler(h)
    BY <1>5, CloseAcceptorsRange
  <2>3. /\ ioClient' = ioClient /\ clients' = clients /\ acceptors' = {}
        /\ read' = read /\ failedClients' = failedClients
        /\ \A c \in Clients : sock'[c] = IF sock[c] = "backlog" THEN "closed" ELSE sock[c]
    BY <1>5 DEF CloseAcceptors
  <2>4. (\A c \in Clients : Taken(c)' <=> Taken(c)) /\ Written' \subseteq Written
    BY <1>k, <2>1, <2>2, <2>3
  <2> QED BY <2>3, <2>4 DEF SockInv
<1>6. CASE CloseClients
  <2> DEFINE t == Tail(handlers)
  <2>0. IsNext("closeClients")
    BY <1>6 DEF CloseClients
  <2>1. /\ handlers[1].kind = "closeClients"
        /\ Range(handlers) = Range(t) \cup {handlers[1]} /\ t \in Seq(Handlers)
    BY <2>0, Handled, HandledRange DEF Shortened
  <2>2. PICK p : AbortedHandlers(p, writing \cap clients) /\ HandlersJoined(t, p, "written", handlers')
    BY <1>6, AbortQueues
  <2> HIDE DEF t
  <2>3. p \in Seq(Handlers)
    BY <2>2 DEF AbortedHandlers
  <2>4. Range(handlers') = Range(t) \cup Range(p)
    BY <2>1, <2>2, <2>3, JoinedRange
  <2>5. \A h \in Range(p) : h.kind = "written" /\ h.client \in clients
    BY <2>2 DEF AbortedHandlers, Range
  <2>6. /\ ioClient' = ioClient /\ clients' = {} /\ acceptors' = acceptors
        /\ read' = read /\ failedClients' = failedClients
        /\ \A c \in Clients : sock'[c] = IF c \in clients THEN "closed" ELSE sock[c]
    BY <1>6 DEF CloseClients
  <2>7. \A c \in Clients : Taken(c)' <=> Taken(c)
    BY <2>1, <2>4, <2>5, <2>6 DEF Taken
  <2>8. ASSUME NEW c \in Written' PROVE c \in Written \/ c \in clients
    <3>1. \E h \in Range(handlers') : h.kind = "written" /\ h.client = c
      BY <2>8 DEF Written, WrittenAt, Range
    <3> QED BY <2>1, <2>4, <2>5, <3>1, WrittenRange
  <2> QED BY <2>6, <2>7, <2>8 DEF SockInv
<1>7. ASSUME NEW c \in Clients, AcceptReady(c) PROVE SockInv'
  <2>1. PICK h \in Handlers : /\ Appended(handlers, h, handlers') /\ h.kind = "accept"
                              /\ h.client = c /\ h.ok
    BY <1>7, AcceptQueues
  <2>2. Range(handlers') = Range(handlers) \cup {h}
    BY <1>t, <2>1, AppendedRange
  <2>3. /\ ioClient' = ioClient /\ clients' = clients /\ acceptors' = acceptors
        /\ read' = read /\ failedClients' = failedClients
        /\ sock[c] = "backlog" /\ sock' = [sock EXCEPT ![c] = "taken"]
    BY <1>7 DEF AcceptReady
  <2>4. \A d \in Clients : Taken(d)' <=> Taken(d) \/ d = c
    BY <2>1, <2>2, <2>3 DEF Taken
  <2>5. ASSUME NEW d \in Written' PROVE d \in Written
    <3>1. \E x \in Range(handlers') : x.kind = "written" /\ x.client = d
      BY <2>5 DEF Written, WrittenAt, Range
    <3> QED BY <2>1, <2>2, <3>1, WrittenRange
  <2> QED BY <1>t, <2>3, <2>4, <2>5 DEF SockInv
<1>8. ASSUME NEW c \in Clients, WriteDone(c) PROVE SockInv'
  <2>1. PICK h \in Handlers : /\ Appended(handlers, h, handlers') /\ h.kind = "written"
                              /\ h.client = c
    BY <1>8, WriteQueues
  <2>2. Range(handlers') = Range(handlers) \cup {h}
    BY <1>t, <2>1, AppendedRange
  <2>3. /\ ioClient' = ioClient /\ clients' = clients /\ acceptors' = acceptors
        /\ failedClients' = failedClients /\ sock' = sock
        /\ \A d \in Clients : d # c => read'[d] = read[d]
    BY <1>8 DEF WriteDone, AllTypes, ClientTypes
  <2>4. c \in clients
    BY <1>8 DEF WriteDone, WriteInv
  <2>5. \A d \in Clients : Taken(d)' <=> Taken(d)
    BY <2>1, <2>2, <2>3 DEF Taken
  <2>6. ASSUME NEW d \in Written' PROVE d \in Written \/ d = c
    <3>1. \E x \in Range(handlers') : x.kind = "written" /\ x.client = d
      BY <2>6 DEF Written, WrittenAt, Range
    <3> QED BY <2>1, <2>2, <3>1, WrittenRange
  <2> QED BY <2>3, <2>4, <2>5, <2>6 DEF SockInv
<1> QED BY <1>1, <1>2, <1>3, <1>4, <1>5, <1>6, <1>7, <1>8, StepKinds

-----------------------------------------------------------------------------
(* The writes                                                              *)

\* The set of writes that are under way or whose handler is queued is finite.
LEMMA WritesFinite ==
  ASSUME AllTypes
  PROVE  IsFiniteSet(writing \cup Written) /\ Cardinality(writing \cup Written) \in Nat
<1>1. IsFiniteSet(Clients \cup {NoClient})
  BY ClientsAssumption, FS_AddElement
<1>3. \A i \in WrittenAt : handlers[i].client \in Clients \cup {NoClient}
  <2>1. \A i \in DOMAIN handlers : handlers[i] \in Handlers
    BY DEF AllTypes, ServerTypes
  <2> QED BY <2>1 DEF WrittenAt, Handlers
<1>4. writing \cup Written \in SUBSET (Clients \cup {NoClient})
  BY <1>3 DEF Written, AllTypes, SenderTypes
<1>2. IsFiniteSet(writing \cup Written)
  BY <1>1, <1>4, FS_Subset
<1> QED BY <1>2, FS_CardinalityType

\* A step that leaves the handlers of writes alone.
SameWrites(r) ==
  /\ \A h : h.kind = "written" => (h \in Range(r) <=> h \in Range(handlers))
  /\ (\A i, j \in WrittenAt : handlers[i].client = handlers[j].client => i = j)
       => \A i, j \in Places(r, "written") : r[i].client = r[j].client => i = j

LEMMA SameWritten ==
  ASSUME SameWrites(handlers')
  PROVE  Written' = Written /\ (At("written") = {} => At("written")' = {})
<1>1. \A c : c \in Written' <=> \E h \in Range(handlers') : h.kind = "written" /\ h.client = c
  BY DEF Written, WrittenAt, Range
<1>2. \A c : c \in Written <=> \E h \in Range(handlers) : h.kind = "written" /\ h.client = c
  BY WrittenRange
<1>3. Written' = Written
  BY <1>1, <1>2 DEF SameWrites
<1>4. /\ Places(handlers, "written") = {} <=> \A h \in Range(handlers) : h.kind # "written"
      /\ Places(handlers', "written") = {} <=> \A h \in Range(handlers') : h.kind # "written"
  BY PlacesAndRange
<1>5. At("written") = {} => At("written")' = {}
  BY <1>4 DEF SameWrites, At
<1> QED BY <1>3, <1>5

LEMMA WritesKept ==
  ASSUME WriteInv, SameWrites(handlers'), spc' = spc, writing' = writing,
         pendingWrites' = pendingWrites, clients \subseteq clients'
  PROVE  WriteInv'
<1>1. Written' = Written /\ (At("written") = {} => At("written")' = {})
  BY SameWritten
<1>2. ASSUME spc = "wait"
      PROVE  \A i, j \in WrittenAt' : handlers'[i].client = handlers'[j].client => i = j
  BY <1>2 DEF WriteInv, WritesAccounted, SameWrites, WrittenAt, Places
<1> QED BY <1>1, <1>2 DEF WriteInv, WritesAccounted

\* The tail of the queue, when its head is not the handler of a write.
LEMMA TailWrites ==
  ASSUME AllTypes, NEW k, IsNext(k), k # "written"
  PROVE  SameWrites(Tail(handlers))
<1> DEFINE t == Tail(handlers)
<1>1. /\ handlers[1].kind = k /\ Shortened(handlers, t)
      /\ Range(handlers) = Range(t) \cup {handlers[1]}
  BY Handled, HandledRange
<1> HIDE DEF t
<1>2. ASSUME \A i, j \in WrittenAt : handlers[i].client = handlers[j].client => i = j,
             NEW i \in Places(t, "written"), NEW j \in Places(t, "written"),
             t[i].client = t[j].client
      PROVE  i = j
  <2>1. /\ i \in 1 .. Len(t) /\ j \in 1 .. Len(t)
        /\ i + 1 \in Places(handlers, "written") /\ j + 1 \in Places(handlers, "written")
        /\ t[i] = handlers[i + 1] /\ t[j] = handlers[j + 1]
    BY <1>1 DEF Shortened
  <2>2. i + 1 = j + 1
    BY <1>2, <2>1 DEF WrittenAt, Places
  <2>3. Len(t) \in Int
    BY <1>1 DEF Shortened
  <2> QED BY <2>1, <2>2, <2>3
<1>3. SameWrites(t)
  BY <1>1, <1>2 DEF SameWrites
<1> QED BY <1>3 DEF t

\* A handler that is not one of a write is queued.
LEMMA AppendWrites ==
  ASSUME NEW q \in Seq(Handlers), NEW h, NEW r, Appended(q, h, r), h.kind # "written",
         SameWrites(q)
  PROVE  SameWrites(r)
<1>1. Range(r) = Range(q) \cup {h}
  BY AppendedRange
<1>2. Places(r, "written") = Places(q, "written") /\ \A i \in Places(q, "written") : r[i] = q[i]
  BY DEF Appended
<1> QED BY <1>1, <1>2 DEF SameWrites

LEMMA AllWrites == SameWrites(handlers)
BY DEF SameWrites, WrittenAt, Places

LEMMA WriteStep ==
  ASSUME AllTypes, WriteInv, [Next]_streamVars
  PROVE  WriteInv'
<1>t. handlers \in Seq(Handlers) /\ clients \subseteq Clients /\ writing \subseteq Clients
  BY DEF AllTypes, ServerTypes, ClientTypes, SenderTypes
<1>w. WrittenAt = At("written") /\ (At("written") = {} <=> Written = {})
  BY DEF Written, WrittenAt, At, Places
<1>1. CASE Quiet
  <2>h. /\ handlers' = handlers /\ Written' = Written /\ WrittenAt' = WrittenAt
        /\ At("written")' = At("written")
    BY <1>1 DEF Quiet, Written, WrittenAt, At
  <2>1. CASE setPreamble \/ write
    <3>1. spc = "idle" /\ spc' = "check" /\ writing' = writing /\ clients' = clients
      BY <2>1 DEF setPreamble, write
    <3> QED BY <2>h, <3>1 DEF WriteInv, WritesAccounted
  <2>2. CASE SendCheck
    <3>1. /\ spc = "check" /\ spc' \in {"start", "idle"} /\ writing' = writing
          /\ clients' = clients
      BY <2>2 DEF SendCheck
    <3> QED BY <2>h, <3>1 DEF WriteInv, WritesAccounted
  <2>3. CASE SendStart
    <3>1. /\ spc = "start" /\ writing' = clients /\ pendingWrites' = Cardinality(clients)
          /\ clients' = clients /\ spc' = IF clients = {} THEN "idle" ELSE "wait"
      BY <2>3 DEF SendStart
    <3>2. Written = {} /\ WrittenAt = {}
      BY <1>w, <3>1 DEF WriteInv
    <3>3. writing' \cup Written' = clients
      BY <2>h, <3>1, <3>2
    <3> QED BY <1>w, <2>h, <3>1, <3>2, <3>3 DEF WriteInv, WritesAccounted
  <2>4. CASE SendEnd
    <3>1. spc = "wait" /\ spc' = "idle" /\ pendingWrites = 0 /\ writing' = writing
      BY <2>4 DEF SendEnd
    <3>2. IsFiniteSet(writing \cup Written)
      BY WritesFinite
    <3>3. Cardinality(writing \cup Written) = 0
      BY <3>1 DEF WriteInv, WritesAccounted
    <3>4. writing = {} /\ Written = {}
      BY <3>2, <3>3, FS_EmptySet
    <3> QED BY <1>w, <2>h, <3>1, <3>4 DEF WriteInv, WritesAccounted
  <2>5. CASE /\ spc' = spc /\ writing' = writing /\ pendingWrites' = pendingWrites
             /\ clients \subseteq clients'
    BY <2>5, <2>h, WritesKept, AllWrites
  <2>6. CASE listen \/ StopJoin \/ HandleAcceptEnd
    BY <2>5, <2>6 DEF listen, StopJoin, HandleAcceptEnd
  <2>7. CASE (\E c \in Clients : Connect(c) \/ Drop(c)) \/ UNCHANGED streamVars
    BY <2>5, <2>7 DEF Connect, Drop, streamVars
  <2> QED BY <1>1, <2>1, <2>2, <2>3, <2>4, <2>6, <2>7 DEF Quiet, Sender
<1>2. CASE stop
  <2>1. PICK h \in Handlers : Appended(handlers, h, handlers') /\ h.kind = "closeAcceptors"
    BY <1>2, StopQueues
  <2>2. SameWrites(handlers')
    BY <1>t, <2>1, AppendWrites, AllWrites
  <2> QED BY <1>2, <2>2, WritesKept DEF stop
<1>3. CASE handleAccept
  <2>1. SameWrites(handlers')
    BY <1>3, TailWrites DEF handleAccept
  <2> QED BY <1>3, <2>1, WritesKept DEF handleAccept
<1>4. CASE handleWritten
  <2> DEFINE c == handlers[1].client
  <2>0. IsNext("written") /\ handlers' = Tail(handlers)
    BY <1>4 DEF handleWritten
  <2>1. /\ handlers[1].kind = "written" /\ Shortened(handlers, handlers')
        /\ 1 \in At("written") /\ Range(handlers) = Range(handlers') \cup {handlers[1]}
    BY <2>0, Handled, HandledRange
  <2>2. /\ spc' = spc /\ writing' = writing /\ pendingWrites' = pendingWrites - 1
        /\ clients' = clients
    BY <1>4 DEF handleWritten
  <2>3. spc = "wait"
    BY <2>1 DEF WriteInv
  <2>4. /\ writing \cap Written = {}
        /\ \A i, j \in WrittenAt : handlers[i].client = handlers[j].client => i = j
        /\ pendingWrites = Cardinality(writing \cup Written)
    BY <2>3 DEF WriteInv, WritesAccounted
  <2>5. c \in Written
    BY <2>1, WrittenRange
  <2>6. \A i \in WrittenAt' : /\ i \in 1 .. Len(handlers') /\ i + 1 \in WrittenAt
                              /\ handlers'[i] = handlers[i + 1]
    BY <2>1 DEF Shortened, WrittenAt, Places
  <2>7. Len(handlers') \in Int
    BY <2>1 DEF Shortened
  <2>8. ASSUME NEW i \in WrittenAt', NEW j \in WrittenAt',
               handlers'[i].client = handlers'[j].client
        PROVE  i = j
    <3>1. i + 1 = j + 1
      BY <2>4, <2>6, <2>8
    <3> QED BY <2>6, <2>7, <3>1
  <2>9. \A d : d \in Written' <=> d \in Written /\ d # c
    <3>1. ASSUME NEW d \in Written' PROVE d \in Written /\ d # c
      <4>1. PICK i \in WrittenAt' : handlers'[i].client = d
        BY DEF Written
      <4>2. handlers[i + 1].client = d /\ i + 1 \in WrittenAt /\ i \in Nat /\ i >= 1
        BY <2>6, <2>7, <4>1
      <4>3. 1 \in WrittenAt /\ i + 1 # 1
        BY <1>w, <2>1, <4>2
      <4> QED BY <2>4, <4>2, <4>3 DEF Written
    <3>2. ASSUME NEW d \in Written, d # c PROVE d \in Written'
      <4>1. PICK h \in Range(handlers) : h.kind = "written" /\ h.client = d
        BY WrittenRange
      <4>2. h \in Range(handlers')
        BY <2>1, <3>2, <4>1
      <4> QED BY <4>1, <4>2 DEF Written, WrittenAt, Range
    <3> QED BY <3>1, <3>2
  <2>10. writing' \cup Written' = (writing \cup Written) \ {c}
    BY <2>2, <2>4, <2>5, <2>9
  <2>11. Cardinality(writing' \cup Written') = pendingWrites - 1
    <3>1. IsFiniteSet(writing \cup Written)
      BY WritesFinite
    <3>2. Cardinality((writing \cup Written) \ {c}) = Cardinality(writing \cup Written) - 1
      BY <2>5, <3>1, FS_RemoveElement
    <3> QED BY <2>4, <2>10, <3>2
  <2> QED BY <2>2, <2>3, <2>4, <2>8, <2>9, <2>11 DEF WriteInv, WritesAccounted
<1>5. CASE CloseAcceptors
  <2> DEFINE t == Tail(handlers)
  <2>0. IsNext("closeAcceptors")
    BY <1>5 DEF CloseAcceptors
  <2>1. SameWrites(t) /\ t \in Seq(Handlers)
    BY <2>0, TailWrites, Handled DEF Shortened
  <2>2. PICK u, h : /\ \/ armed = 0 /\ u = t
                       \/ armed # 0 /\ \E g : AbortedHandler(g) /\ Appended(t, g, u)
                    /\ Appended(u, h, handlers') /\ h.kind = "closeClients"
    BY <1>5, CloseQueues
  <2> HIDE DEF t
  <2>3. SameWrites(u) /\ u \in Seq(Handlers)
    <3>1. CASE armed = 0
      BY <2>1, <2>2, <3>1
    <3>2. CASE armed # 0
      <4>1. PICK g : AbortedHandler(g) /\ Appended(t, g, u)
        BY <2>2, <3>2
      <4>2. g.kind # "written" /\ u \in Seq(Handlers)
        BY <4>1 DEF AbortedHandler, Appended
      <4> QED BY <2>1, <4>1, <4>2, AppendWrites
    <3> QED BY <3>1, <3>2
  <2>4. SameWrites(handlers')
    BY <2>2, <2>3, AppendWrites
  <2> QED BY <1>5, <2>4, WritesKept DEF CloseAcceptors
<1>6. CASE CloseClients
  <2> DEFINE t == Tail(handlers)
  <2>0. IsNext("closeClients")
    BY <1>6 DEF CloseClients
  <2>1. SameWrites(t) /\ t \in Seq(Handlers)
    BY <2>0, TailWrites, Handled DEF Shortened
  <2>2. PICK p : AbortedHandlers(p, writing \cap clients) /\ HandlersJoined(t, p, "written", handlers')
    BY <1>6, AbortQueues
  <2> HIDE DEF t
  <2>3. p \in Seq(Handlers)
    BY <2>2 DEF AbortedHandlers
  <2>4. Range(handlers') = Range(t) \cup Range(p)
    BY <2>1, <2>2, <2>3, JoinedRange
  <2>5. /\ writing' = {} /\ clients' = {} /\ spc' = spc /\ pendingWrites' = pendingWrites
        /\ writing \cap clients = writing
    BY <1>6 DEF CloseClients, WriteInv
  <2>6. /\ \A h \in Range(p) : h.kind = "written" /\ h.client \in writing
        /\ \A c \in writing : \E h \in Range(p) : h.client = c
    BY <2>2, <2>3, <2>5 DEF AbortedHandlers, Range
  <2>7. Written' = Written \cup writing
    <3>1. \A c : c \in Written' <=> \E h \in Range(handlers') : h.kind = "written" /\ h.client = c
      BY DEF Written, WrittenAt, Range
    <3>2. \A c : c \in Written <=> \E h \in Range(handlers) : h.kind = "written" /\ h.client = c
      BY WrittenRange
    <3>3. \A c : c \in Written <=> \E h \in Range(t) : h.kind = "written" /\ h.client = c
      BY <2>1, <3>2 DEF SameWrites
    <3>4. \A c : c \in Written' <=> c \in Written \/ c \in writing
      BY <2>4, <2>6, <3>1, <3>3
    <3> QED BY <3>4
  <2>8. CASE spc # "wait"
    <3>1. writing = {} /\ Written = {}
      BY <1>w, <2>8 DEF WriteInv
    <3>2. Written' = {}
      BY <2>7, <3>1
    <3>3. At("written")' = {}
      BY <3>2 DEF Written, WrittenAt, At, Places
    <3> QED BY <2>5, <2>8, <3>3 DEF WriteInv, WritesAccounted
  <2>9. CASE spc = "wait"
    <3>1. /\ writing \cap Written = {}
          /\ \A i, j \in WrittenAt : handlers[i].client = handlers[j].client => i = j
          /\ pendingWrites = Cardinality(writing \cup Written)
      BY <2>9 DEF WriteInv, WritesAccounted
    <3>2. \A i, j \in Places(t, "written") : t[i].client = t[j].client => i = j
      BY <2>1, <3>1 DEF SameWrites
    <3>3. \A i \in Places(t, "written") : t[i].client \in Written
      <4>1. \A i \in Places(t, "written") : t[i] \in Range(t) /\ t[i].kind = "written"
        BY DEF Places, Range
      <4> QED BY <2>1, <4>1, WrittenRange DEF SameWrites
    <3>4. /\ WrittenAt' = Places(t, "written") \cup {Len(t) + i : i \in 1 .. Len(p)}
          /\ \A i \in Places(t, "written") : handlers'[i] = t[i]
          /\ \A i \in 1 .. Len(p) : handlers'[Len(t) + i] = p[i]
      <4>1. WrittenAt' = Places(handlers', "written")
        BY DEF WrittenAt, Places
      <4> QED BY <2>2, <4>1 DEF HandlersJoined
    <3>5. /\ \A i \in 1 .. Len(p) : p[i].client \in writing
          /\ \A i, j \in 1 .. Len(p) : p[i].client = p[j].client => i = j
      BY <2>2 DEF AbortedHandlers
    <3>6. \A i, j \in WrittenAt' : handlers'[i].client = handlers'[j].client => i = j
      <4> SUFFICES ASSUME NEW i \in WrittenAt', NEW j \in WrittenAt',
                          handlers'[i].client = handlers'[j].client
                   PROVE  i = j
        OBVIOUS
      <4>1. ASSUME NEW m \in Places(t, "written"), NEW n \in 1 .. Len(p)
            PROVE  handlers'[m].client # handlers'[Len(t) + n].client
        BY <3>1, <3>3, <3>4, <3>5
      <4>2. CASE i \in Places(t, "written") /\ j \in Places(t, "written")
        BY <3>2, <3>4, <4>2
      <4>3. CASE i \notin Places(t, "written") /\ j \notin Places(t, "written")
        <5>1. PICK m \in 1 .. Len(p) : i = Len(t) + m
          BY <3>4, <4>3
        <5>2. PICK n \in 1 .. Len(p) : j = Len(t) + n
          BY <3>4, <4>3
        <5>3. p[m].client = p[n].client
          BY <3>4, <5>1, <5>2
        <5> QED BY <3>5, <5>1, <5>2, <5>3
      <4> QED BY <3>4, <4>1, <4>2, <4>3
    <3>7. writing' \cup Written' = writing \cup Written
      BY <2>5, <2>7
    <3> QED BY <2>5, <2>9, <3>1, <3>6, <3>7 DEF WriteInv, WritesAccounted
  <2> QED BY <2>8, <2>9
<1>7. ASSUME NEW c \in Clients, AcceptReady(c) PROVE WriteInv'
  <2>1. PICK h \in Handlers : Appended(handlers, h, handlers') /\ h.kind = "accept"
    BY <1>7, AcceptQueues
  <2>2. SameWrites(handlers')
    BY <1>t, <2>1, AppendWrites, AllWrites
  <2> QED BY <1>7, <2>2, WritesKept DEF AcceptReady
<1>8. ASSUME NEW c \in Clients, WriteDone(c) PROVE WriteInv'
  <2>1. PICK h \in Handlers : /\ Appended(handlers, h, handlers') /\ h.kind = "written"
                              /\ h.client = c
    BY <1>8, WriteQueues
  <2>2. Range(handlers') = Range(handlers) \cup {h}
    BY <1>t, <2>1, AppendedRange
  <2>3. /\ c \in writing /\ writing' = writing \ {c} /\ clients' = clients /\ spc' = spc
        /\ pendingWrites' = pendingWrites
    BY <1>8 DEF WriteDone
  <2>4. spc = "wait"
    BY <2>3 DEF WriteInv
  <2>5. /\ writing \cap Written = {}
        /\ \A i, j \in WrittenAt : handlers[i].client = handlers[j].client => i = j
        /\ pendingWrites = Cardinality(writing \cup Written)
    BY <2>4 DEF WriteInv, WritesAccounted
  <2>6. Written' = Written \cup {c}
    <3>1. \A d : d \in Written' <=> \E x \in Range(handlers') : x.kind = "written" /\ x.client = d
      BY DEF Written, WrittenAt, Range
    <3>2. \A d : d \in Written <=> \E x \in Range(handlers) : x.kind = "written" /\ x.client = d
      BY WrittenRange
    <3>3. \A d : d \in Written' <=> d \in Written \/ d = c
      BY <2>1, <2>2, <3>1, <3>2
    <3> QED BY <3>3
  <2>7. /\ WrittenAt' = WrittenAt \cup {Len(handlers) + 1}
        /\ \A i \in WrittenAt : handlers'[i] = handlers[i]
        /\ handlers'[Len(handlers) + 1] = h
    <3>1. WrittenAt' = Places(handlers', "written") /\ WrittenAt = Places(handlers, "written")
      BY DEF WrittenAt, Places
    <3> QED BY <2>1, <3>1 DEF Appended
  <2>8. \A i \in WrittenAt : handlers[i].client # c
    BY <2>3, <2>5 DEF Written
  <2>9. \A i, j \in WrittenAt' : handlers'[i].client = handlers'[j].client => i = j
    BY <2>1, <2>5, <2>7, <2>8
  <2>10. writing' \cup Written' = writing \cup Written /\ writing' \cap Written' = {}
    BY <2>3, <2>5, <2>6
  <2> QED BY <2>3, <2>4, <2>5, <2>9, <2>10 DEF WriteInv, WritesAccounted
<1> QED BY <1>1, <1>2, <1>3, <1>4, <1>5, <1>6, <1>7, <1>8, StepKinds

-----------------------------------------------------------------------------
(* What the clients read                                                   *)

\* The failures of writes that are known or queued stay so.
LEMMA FailuresKept ==
  ASSUME NEW c, Failed(c), failedClients \subseteq failedClients',
         \A h \in Range(handlers) : h.kind = "written" /\ ~h.ok =>
             h \in Range(handlers') \/ h.client \in failedClients'
  PROVE  Failed(c)'
BY DEF Failed

LEMMA ReadsKept ==
  ASSUME ReadInv, read' = read, broadcasts' = broadcasts, spc' = spc, accepting' => accepting,
         clients' \subseteq clients, writing' = writing,
         \A c \in Clients : Failed(c) => Failed(c)', clients \subseteq Clients
  PROVE  ReadInv'
<1>1. \A c, n : ReadTo(c, n)' <=> ReadTo(c, n')
  BY DEF ReadTo
<1> QED BY <1>1 DEF ReadInv, NoGapInStream, ReadTo

LEMMA ReadStep ==
  ASSUME AllTypes, LoopInv, StopInv, SockInv, WriteInv, ReadInv, [Next]_streamVars
  PROVE  ReadInv'
<1>t. /\ handlers \in Seq(Handlers) /\ clients \subseteq Clients /\ Len(broadcasts) \in Nat
      /\ read \in [Clients -> Seq(Nat)]
  BY DEF AllTypes, ServerTypes, ClientTypes, SenderTypes
<1>1. CASE Quiet
  <2>h. handlers' = handlers
    BY <1>1 DEF Quiet
  <2>1. CASE listen
    <3>1. clients = {}
      BY <2>1 DEF listen, StopInv
    <3>2. clients' = clients /\ read' = read
      BY <2>1 DEF listen
    <3> QED BY <3>1, <3>2 DEF ReadInv, NoGapInStream
  <2>2. CASE setPreamble \/ write
    <3>1. /\ spc = "idle" /\ spc' = "check" /\ clients' = clients /\ read' = read
          /\ accepting' = accepting /\ \E k \in {"data", "preamble"} : broadcasts' = Append(broadcasts, k)
      BY <2>2 DEF setPreamble, write, Send
    <3>2. Len(broadcasts') - 1 = Len(broadcasts)
      BY <3>1 DEF AllTypes, SenderTypes
    <3> QED BY <3>1, <3>2 DEF ReadInv, NoGapInStream, ReadTo
  <2>3. CASE SendCheck
    <3>1. /\ spc = "check" /\ spc' = IF accepting THEN "start" ELSE "idle"
          /\ clients' = clients /\ read' = read /\ accepting' = accepting
          /\ broadcasts' = broadcasts
      BY <2>3 DEF SendCheck
    <3> QED BY <3>1 DEF ReadInv, NoGapInStream, ReadTo
  <2>4. CASE SendStart
    <3>1. /\ spc = "start" /\ spc' = IF clients = {} THEN "idle" ELSE "wait"
          /\ clients' = clients /\ read' = read /\ writing' = clients
          /\ broadcasts' = broadcasts
      BY <2>4 DEF SendStart
    <3> QED BY <3>1 DEF ReadInv, NoGapInStream, ReadTo
  <2>5. CASE SendEnd
    <3>1. /\ spc = "wait" /\ spc' = "idle" /\ clients' = clients \ failedClients /\ read' = read
          /\ broadcasts' = broadcasts /\ pendingWrites = 0
      BY <2>5 DEF SendEnd
    <3>2. writing = {} /\ Written = {}
      <4>1. IsFiniteSet(writing \cup Written)
        BY WritesFinite
      <4>2. Cardinality(writing \cup Written) = 0
        BY <3>1 DEF WriteInv, WritesAccounted
      <4> QED BY <4>1, <4>2, FS_EmptySet
    <3>3. \A h \in Range(handlers) : h.kind # "written"
      BY <3>2, WrittenRange
    <3>4. \A c \in clients' : ReadTo(c, Len(broadcasts))
      BY <3>1, <3>2, <3>3 DEF ReadInv, Failed
    <3> QED BY <3>1, <3>4 DEF ReadInv, NoGapInStream, ReadTo
  <2>6. CASE HandleAcceptEnd
    <3>1. /\ ioClient \in Clients /\ clients' \subseteq clients \cup {ioClient} /\ read' = read
          /\ spc' = spc /\ accepting' = accepting /\ broadcasts' = broadcasts
          /\ writing' = writing /\ failedClients' = failedClients
      BY <2>6 DEF HandleAcceptEnd, AllTypes, ServerTypes
    <3>2. read[ioClient] = <<>>
      BY <3>1 DEF SockInv, Taken
    <3>3. \A n : ReadTo(ioClient, n)
      BY <3>2 DEF ReadTo
    <3>4. \A c : Failed(c)' <=> Failed(c)
      BY <2>h, <3>1 DEF Failed
    <3> QED BY <3>1, <3>3, <3>4 DEF ReadInv, NoGapInStream, ReadTo
  <2>7. CASE /\ spc' = spc /\ writing' = writing /\ clients' = clients /\ read' = read
             /\ broadcasts' = broadcasts /\ accepting' = accepting
             /\ failedClients' = failedClients
    <3>1. \A c \in Clients : Failed(c) => Failed(c)'
      BY <2>h, <2>7 DEF Failed
    <3> QED BY <1>t, <2>7, <3>1, ReadsKept
  <2>8. CASE StopJoin
    BY <2>7, <2>8 DEF StopJoin
  <2>9. CASE (\E c \in Clients : Connect(c) \/ Drop(c)) \/ UNCHANGED streamVars
    BY <2>7, <2>9 DEF Connect, Drop, streamVars
  <2> QED BY <1>1, <2>1, <2>2, <2>3, <2>4, <2>5, <2>6, <2>8, <2>9 DEF Quiet, Sender
<1>2. CASE stop
  <2>1. PICK h \in Handlers : Appended(handlers, h, handlers') /\ h.kind = "closeAcceptors"
    BY <1>2, StopQueues
  <2>2. Range(handlers') = Range(handlers) \cup {h}
    BY <1>t, <2>1, AppendedRange
  <2>3. /\ spc' = spc /\ writing' = writing /\ clients' = clients /\ read' = read
        /\ broadcasts' = broadcasts /\ ~accepting' /\ failedClients' = failedClients
    BY <1>2 DEF stop
  <2>4. \A c \in Clients : Failed(c) => Failed(c)'
    BY <2>2, <2>3, FailuresKept
  <2> QED BY <1>t, <2>3, <2>4, ReadsKept
<1>3. CASE handleAccept
  <2>1. /\ handlers[1].kind = "accept"
        /\ Range(handlers) = Range(handlers') \cup {handlers[1]}
    BY <1>3, Handled, HandledRange DEF handleAccept
  <2>3. /\ spc' = spc /\ writing' = writing /\ clients' = clients /\ read' = read
        /\ broadcasts' = broadcasts /\ accepting' = accepting /\ failedClients' = failedClients
    BY <1>3 DEF handleAccept
  <2>4. \A c \in Clients : Failed(c) => Failed(c)'
    BY <2>1, <2>3, FailuresKept
  <2> QED BY <1>t, <2>3, <2>4, ReadsKept
<1>4. CASE handleWritten
  <2>1. /\ handlers[1].kind = "written" /\ Head(handlers) = handlers[1]
        /\ Range(handlers) = Range(handlers') \cup {handlers[1]}
    BY <1>4, Handled, HandledRange DEF handleWritten
  <2>3. /\ spc' = spc /\ writing' = writing /\ clients' = clients /\ read' = read
        /\ broadcasts' = broadcasts /\ accepting' = accepting
        /\ failedClients \subseteq failedClients'
        /\ ~handlers[1].ok => handlers[1].client \in failedClients'
    BY <1>4, <2>1 DEF handleWritten
  <2>4. \A c \in Clients : Failed(c) => Failed(c)'
    BY <2>1, <2>3, FailuresKept
  <2> QED BY <1>t, <2>3, <2>4, ReadsKept
<1>5. CASE CloseAcceptors
  <2>1. /\ handlers[1].kind = "closeAcceptors"
        /\ Range(handlers) = Range(Tail(handlers)) \cup {handlers[1]}
    BY <1>5, Handled, HandledRange DEF CloseAcceptors
  <2>2. Range(Tail(handlers)) \subseteq Range(handlers')
    BY <1>5, CloseAcceptorsRange
  <2>3. /\ spc' = spc /\ writing' = writing /\ clients' = clients /\ read' = read
        /\ broadcasts' = broadcasts /\ accepting' = accepting /\ failedClients' = failedClients
    BY <1>5 DEF CloseAcceptors
  <2>4. \A c \in Clients : Failed(c) => Failed(c)'
    BY <2>1, <2>2, <2>3, FailuresKept
  <2> QED BY <1>t, <2>3, <2>4, ReadsKept
<1>6. CASE CloseClients
  <2>1. clients' = {} /\ read' = read
    BY <1>6 DEF CloseClients
  <2> QED BY <2>1 DEF ReadInv, NoGapInStream
<1>7. ASSUME NEW c \in Clients, AcceptReady(c) PROVE ReadInv'
  <2>1. PICK h \in Handlers : Appended(handlers, h, handlers') /\ h.kind = "accept"
    BY <1>7, AcceptQueues
  <2>2. Range(handlers') = Range(handlers) \cup {h}
    BY <1>t, <2>1, AppendedRange
  <2>3. /\ spc' = spc /\ writing' = writing /\ clients' = clients /\ read' = read
        /\ broadcasts' = broadcasts /\ accepting' = accepting /\ failedClients' = failedClients
    BY <1>7 DEF AcceptReady
  <2>4. \A d \in Clients : Failed(d) => Failed(d)'
    BY <2>2, <2>3, FailuresKept
  <2> QED BY <1>t, <2>3, <2>4, ReadsKept
<1>8. ASSUME NEW c \in Clients, WriteDone(c) PROVE ReadInv'
  <2>1. PICK h \in Handlers : /\ Appended(handlers, h, handlers') /\ h.kind = "written"
                              /\ h.client = c /\ h.ok = link[c]
    BY <1>8, WriteQueues
  <2>2. Range(handlers') = Range(handlers) \cup {h}
    BY <1>t, <2>1, AppendedRange
  <2>3. /\ c \in writing /\ writing' = writing \ {c} /\ clients' = clients /\ spc' = spc
        /\ broadcasts' = broadcasts /\ failedClients' = failedClients /\ accepting' = accepting
    BY <1>8 DEF WriteDone
  <2>4. spc = "wait" /\ c \in clients
    BY <2>3 DEF WriteInv
  <2>5. ReadTo(c, Len(broadcasts) - 1)
    BY <2>3, <2>4 DEF ReadInv
  <2>6. \A d \in Clients : Failed(d) => Failed(d)'
    BY <2>2, <2>3, FailuresKept
  <2>7. CASE ~link[c]
    <3>1. read' = read
      BY <1>8, <2>7 DEF WriteDone
    <3>2. Failed(c)'
      BY <2>1, <2>2, <2>7 DEF Failed
    <3> QED BY <1>t, <2>3, <2>4, <2>6, <3>1, <3>2 DEF ReadInv, NoGapInStream, ReadTo
  <2>8. CASE link[c]
    <3> DEFINE s == Append(read[c], Len(broadcasts))
    <3>1. read' = [read EXCEPT ![c] = s]
      BY <1>8, <2>8 DEF WriteDone
    <3>2. read'[c] = s /\ \A d \in Clients : d # c => read'[d] = read[d]
      BY <1>t, <3>1
    <3>3. /\ read[c] \in Seq(Nat) /\ Len(s) = Len(read[c]) + 1 /\ s # <<>>
          /\ s[Len(s)] = Len(broadcasts) /\ \A i \in 1 .. Len(read[c]) : s[i] = read[c][i]
      <4>1. read[c] \in Seq(Nat) /\ Len(broadcasts) \in Nat
        BY <1>t
      <4>2. /\ Len(s) = Len(read[c]) + 1 /\ s[Len(read[c]) + 1] = Len(broadcasts)
            /\ \A i \in 1 .. Len(read[c]) : s[i] = read[c][i]
        BY <4>1, AppendProperties
      <4>3. s # <<>>
        BY <4>1, AppendProperties
      <4> QED BY <4>1, <4>2, <4>3
    <3>4. \A i \in 1 .. Len(read[c]) - 1 : read[c][i + 1] = read[c][i] + 1
      BY DEF ReadInv, NoGapInStream
    <3>5. read[c] # <<>> => read[c][Len(read[c])] = Len(broadcasts) - 1
      BY <2>5 DEF ReadTo
    <3>8. Len(read[c]) \in Nat /\ (Len(read[c]) > 0 => read[c] # <<>>)
      BY <3>3
    <3> HIDE DEF s
    <3>6. \A i \in 1 .. Len(s) - 1 : s[i + 1] = s[i] + 1
      <4> SUFFICES ASSUME NEW i \in 1 .. Len(read[c]) PROVE s[i + 1] = s[i] + 1
        BY <3>3, <3>8
      <4>1. CASE i = Len(read[c])
        BY <1>t, <3>3, <3>5, <3>8, <4>1
      <4>2. CASE i # Len(read[c])
        <5>1. i \in 1 .. Len(read[c]) - 1 /\ i + 1 \in 1 .. Len(read[c])
          BY <3>8, <4>2
        <5> QED BY <3>3, <3>4, <5>1
      <4> QED BY <4>1, <4>2
    <3>7. NoGapInStream'
      BY <3>2, <3>6 DEF ReadInv, NoGapInStream
    <3>9. ReadTo(c, Len(broadcasts))'
      BY <2>3, <3>2, <3>3 DEF ReadTo
    <3>10. ASSUME NEW d \in clients
           PROVE  IF d \in writing' THEN ReadTo(d, Len(broadcasts) - 1)'
                  ELSE ReadTo(d, Len(broadcasts))' \/ Failed(d)'
      <4>1. CASE d = c
        BY <2>3, <3>9, <4>1
      <4>2. CASE d # c
        BY <1>t, <2>3, <2>4, <2>6, <3>2, <4>2 DEF ReadInv, ReadTo
      <4> QED BY <4>1, <4>2
    <3> QED BY <2>3, <2>4, <3>7, <3>10 DEF ReadInv
  <2>9. link[c] \in BOOLEAN
    BY DEF AllTypes, ClientTypes
  <2> QED BY <2>7, <2>8, <2>9
<1> QED BY <1>1, <1>2, <1>3, <1>4, <1>5, <1>6, <1>7, <1>8, StepKinds

-----------------------------------------------------------------------------
(* The theorem                                                             *)

LEMMA StreamInit == Init => StreamInv
<1> SUFFICES ASSUME Init PROVE StreamInv
  OBVIOUS
<1> USE DEF Init
<1>1. /\ ServerTypes /\ ClientTypes /\ SenderTypes
  BY DEF ServerTypes, ClientTypes, SenderTypes, Sockets
<1>2. (\A k : At(k) = {}) /\ WrittenAt = {} /\ Written = {} /\ Range(handlers) = {}
  BY DEF At, Places, WrittenAt, Written, Range
<1>3. LoopInv
  BY <1>2 DEF LoopInv
<1>4. StopInv
  BY <1>2 DEF StopInv
<1>5. SockInv
  BY <1>2, ClientsAssumption DEF SockInv, Taken
<1>6. WriteInv
  BY <1>2 DEF WriteInv, WritesAccounted
<1>7. ReadInv
  BY DEF ReadInv, NoGapInStream
<1> QED BY <1>1, <1>3, <1>4, <1>5, <1>6, <1>7 DEF StreamInv

LEMMA StreamImplied == StreamInv => StreamsServed
<1> SUFFICES ASSUME StreamInv PROVE StreamsServed
  OBVIOUS
<1>1. NoGapInStream /\ WritesAccounted
  BY DEF StreamInv, ReadInv, WriteInv
<1>2. BroadcastReached
  BY DEF StreamInv, ReadInv, ReadTo, BroadcastReached
<1>3. AcceptorAlive
  BY DEF StreamInv, LoopInv, AcceptorAlive
<1>4. StopAnswered
  <2>1. /\ opc = "acceptors" => ioThread = "run" /\ At("closeAcceptors") # {}
        /\ opc = "clients" => ioThread = "run" /\ At("closeClients") # {}
    BY DEF StreamInv, StopInv
  <2> QED BY <2>1 DEF StopAnswered, At, Places
<1>5. StoppedMeansClosed
  <2> SUFFICES ASSUME opc = "idle", acceptors = {}
               PROVE  clients = {} /\ \A c \in Clients : sock[c] \in {"away", "closed"}
    BY DEF StoppedMeansClosed
  <2>1. At("accept") = {} /\ ioClient = NoClient /\ clients = {}
    BY DEF StreamInv, StopInv
  <2>2. \A h \in Range(handlers) : h.kind # "accept"
    BY <2>1, PlacesAndRange DEF At
  <2>3. \A c \in Clients : ~Taken(c)
    BY <2>1, <2>2, ClientsAssumption DEF Taken
  <2>4. \A c \in Clients : sock[c] \in Sockets
    BY DEF StreamInv, ClientTypes
  <2> QED BY <2>1, <2>3, <2>4 DEF StreamInv, SockInv, Sockets
<1> QED BY <1>1, <1>2, <1>3, <1>4, <1>5 DEF StreamsServed

LEMMA StreamStep == StreamInv /\ [Next]_streamVars => StreamInv'
<1> SUFFICES ASSUME StreamInv, [Next]_streamVars PROVE StreamInv'
  OBVIOUS
<1>1. AllTypes /\ LoopInv /\ StopInv /\ SockInv /\ WriteInv /\ ReadInv
  BY DEF StreamInv, AllTypes
<1>2. AllTypes' /\ LoopInv' /\ StopInv'
  BY <1>1, TypesStep, LoopStep, StopStep
<1>3. SockInv' /\ WriteInv' /\ ReadInv'
  BY <1>1, SockStep, WriteStep, ReadStep
<1> QED BY <1>2, <1>3 DEF StreamInv, AllTypes

\* For any set of clients, any number of broadcasts and of stops and starts of the
\* server: the broadcasts a client gets have no gap, a broadcast that returned has
\* reached every client in the list, every write that sendToAllClients() waits for is
\* accounted for once, no freed acceptor is used, and stop() closes everybody and is
\* answered.
THEOREM StreamTheorem == StreamSpec => []StreamsServed
<1>1. StreamSpec => []StreamInv
  BY StreamInit, StreamStep, PTL DEF StreamSpec
<1> QED BY <1>1, StreamImplied, PTL
=============================================================================
