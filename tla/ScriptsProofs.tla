---------------------------- MODULE ScriptsProofs ----------------------------
(***************************************************************************)
(* What a client script can conclude from the chains it is told, for any   *)
(* nodes, any number of proposals, forks and restarts.                     *)
(***************************************************************************)
EXTENDS Scripts, FiniteSetTheorems, TLAPS

Block == Hashes \cup {Genesis}

Typed ==
  /\ chain \in [Nodes -> Seq(Block)]
  /\ DOMAIN place \subseteq Hashes
  /\ "answers" \in DOMAIN script
  /\ script.answers \in Seq(Seq(Block))
  /\ Asked <= Len(NodeOrder)

(***************************************************************************)
(* A ledger begins with the genesis block, and every other block of it is  *)
(* at the place it was proposed for.  This stays true of a ledger that was *)
(* copied into an answer, whatever becomes of the node that gave it.       *)
(***************************************************************************)
WellPlaced(s) ==
  /\ Len(s) >= 1 /\ s[1] = Genesis
  /\ \A i \in 2 .. Len(s) :
       s[i] \in DOMAIN place /\ place[s[i]] = [height |-> i - 1, parent |-> s[i - 1]]

\* s and t have a common block only on a common history.
Compatible(s, t) ==
  \A i \in 1 .. Len(s), j \in 1 .. Len(t) :
    s[i] = t[j] => i = j /\ \A k \in 1 .. i : s[k] = t[k]

\* The ledgers that are, and those that were when the script asked for them.
Ledgers == {chain[n] : n \in Nodes} \cup Answers

SInv ==
  /\ Typed
  /\ \A s \in Ledgers : WellPlaced(s)
  /\ \A s, t \in Ledgers : Compatible(s, t)

-----------------------------------------------------------------------------
\* A step that changes no proposal and adds no ledger preserves the invariant.
LEMMA NothingNew ==
  ASSUME SInv, Typed', UNCHANGED place, Ledgers' \subseteq Ledgers
  PROVE  SInv'
BY SMTT(30) DEF SInv, WellPlaced, Compatible

LEMMA LedgersTyped ==
  ASSUME Typed
  PROVE  \A s \in Ledgers : s \in Seq(Block)
<1>1. \A i \in DOMAIN script.answers : script.answers[i] \in Seq(Block)
  BY DEF Typed
<1> QED
  BY <1>1 DEF Typed, Ledgers, Answers, ToSet

LEMMA Initially ==
  ASSUME ScriptsInit
  PROVE  SInv
<1>1. Ledgers \subseteq {<<Genesis>>}
  BY DEF ScriptsInit, Init, Ledgers, Answers, ToSet
<1>2. Typed
  BY ScriptsAssumption DEF ScriptsInit, Init, Typed, Block, Asked
<1> QED
  BY <1>1, <1>2 DEF SInv, WellPlaced, Compatible

-----------------------------------------------------------------------------
LEMMA ToSetAppend ==
  ASSUME NEW S, NEW s \in Seq(S), NEW e \in S
  PROVE  ToSet(Append(s, e)) = ToSet(s) \cup {e}
<1>1. DOMAIN Append(s, e) = 1 .. Len(s) + 1 /\ DOMAIN s = 1 .. Len(s) /\ Len(s) \in Nat
  OBVIOUS
<1>2. /\ Append(s, e)[Len(s) + 1] = e
      /\ \A i \in 1 .. Len(s) : Append(s, e)[i] = s[i]
  OBVIOUS
<1>3. /\ DOMAIN Append(s, e) = DOMAIN s \cup {Len(s) + 1}
      /\ \A i \in DOMAIN s : Append(s, e)[i] = s[i]
  BY <1>1, <1>2
<1> QED
  BY <1>2, <1>3, Zenon DEF ToSet

\* The script's own steps, other than asking, leave answers and ledgers alone.
LEMMA OtherSteps ==
  ASSUME SInv, UNCHANGED <<chain, place>>, "answers" \in DOMAIN script',
         script'.answers = script.answers
  PROVE  SInv'
<1>1. Typed'
  BY DEF SInv, Typed, Asked
<1>2. Ledgers' \subseteq Ledgers
  BY DEF Ledgers, Answers
<1> QED
  BY <1>1, <1>2, NothingNew

\* An answer is a ledger as it is at that moment, or none.
LEMMA AskPreserves ==
  ASSUME SInv, Ask
  PROVE  SInv'
<1>1. PICK answer \in {chain[NodeOrder[Asked + 1]], Unreachable} :
        script' = [script EXCEPT !.answers = Append(@, answer)]
  BY DEF Ask
<1>2. UNCHANGED <<chain, place>>
  BY DEF Ask, network, vars
<1>3. Asked + 1 \in 1 .. Len(NodeOrder) /\ NodeOrder[Asked + 1] \in Nodes
  BY ScriptsAssumption DEF Ask, AskedAll, SInv, Typed, Asked
<1>4. answer \in Seq(Block) /\ (answer # Unreachable => answer \in {chain[n] : n \in Nodes})
  <2>1. chain[NodeOrder[Asked + 1]] \in Seq(Block)
    BY <1>3 DEF SInv, Typed
  <2>2. <<>> \in Seq(Block)
    OBVIOUS
  <2> QED
    BY <1>3, <2>1, <2>2 DEF Unreachable
<1>5. /\ "answers" \in DOMAIN script'
      /\ script'.answers = Append(script.answers, answer)
  BY <1>1 DEF SInv, Typed
<1>6. Typed'
  BY <1>2, <1>3, <1>4, <1>5 DEF SInv, Typed, Asked
<1>7. ToSet(script'.answers) = ToSet(script.answers) \cup {answer}
  BY <1>4, <1>5, ToSetAppend DEF SInv, Typed
<1>8. Ledgers' \subseteq Ledgers
  BY <1>2, <1>4, <1>7 DEF Ledgers, Answers
<1> QED
  BY <1>2, <1>6, <1>8, NothingNew

-----------------------------------------------------------------------------
\* The ledgers' own steps.
LEMMA ProposePreserves ==
  ASSUME SInv, NEW h \in Hashes, Propose(h), UNCHANGED script
  PROVE  SInv'
<1>1. /\ UNCHANGED chain
      /\ DOMAIN place' = DOMAIN place \cup {h}
      /\ \A b \in DOMAIN place : place'[b] = place[b]
  BY DEF Propose
<1>2. Typed' /\ Ledgers' = Ledgers
  BY <1>1 DEF SInv, Typed, Ledgers, Answers, Asked
<1> QED
  BY <1>1, <1>2 DEF SInv, WellPlaced, Compatible

LEMMA StartOverPreserves ==
  ASSUME SInv, Genesis \notin Hashes, NEW n \in Nodes, StartOver(n), UNCHANGED script
  PROVE  SInv'
<1>1. chain' = [chain EXCEPT ![n] = <<Genesis>>] /\ UNCHANGED place
  BY DEF StartOver
<1>2. Typed'
  BY <1>1 DEF SInv, Typed, Asked, Block
<1>3. \A s \in Ledgers' : s \in Ledgers \/ s = <<Genesis>>
  BY <1>1 DEF SInv, Typed, Ledgers, Answers
<1>4. \A s \in Ledgers' : WellPlaced(s)'
  BY <1>1, <1>3 DEF SInv, WellPlaced
\* The genesis block is the first of every ledger and nowhere else.
<1>5. \A s \in Ledgers : s[1] = Genesis /\ \A i \in 1 .. Len(s) : s[i] = Genesis => i = 1
  <2> SUFFICES ASSUME NEW s \in Ledgers
               PROVE  s[1] = Genesis /\ \A i \in 1 .. Len(s) : s[i] = Genesis => i = 1
    OBVIOUS
  <2>1. s \in Seq(Block) /\ WellPlaced(s) /\ DOMAIN place \subseteq Hashes
    BY LedgersTyped DEF SInv, Typed
  <2>2. \A i \in 2 .. Len(s) : s[i] \in Hashes
    BY <2>1 DEF WellPlaced
  <2> QED
    BY <2>1, <2>2 DEF WellPlaced
<1>6. \A s \in Ledgers : Compatible(s, <<Genesis>>) /\ Compatible(<<Genesis>>, s)
  BY <1>5 DEF Compatible
<1>7. Compatible(<<Genesis>>, <<Genesis>>)
  BY DEF Compatible
<1>8. \A s, t \in Ledgers' : Compatible(s, t)
  BY <1>3, <1>6, <1>7 DEF SInv
<1> QED
  BY <1>1, <1>2, <1>4, <1>8 DEF SInv, Compatible

\* Who appends h now had the parent that h names as its tip, and every ledger
\* that has h has that parent below it.
LEMMA ExtendPreserves ==
  ASSUME SInv, NEW n \in Nodes, NEW h \in Hashes, Genesis \notin Hashes,
         Extend(n, h), UNCHANGED script
  PROVE  SInv'
<1> DEFINE old == chain[n]
           L   == Len(old)
           new == Append(old, h)
<1>1. /\ chain' = [chain EXCEPT ![n] = new] /\ UNCHANGED place
      /\ h \in DOMAIN place /\ place[h] = [height |-> L, parent |-> old[L]]
  BY DEF Extend, TopOf, Tip
<1>2. old \in Ledgers /\ old \in Seq(Block) /\ WellPlaced(old) /\ L \in Nat \ {0}
  BY LedgersTyped DEF SInv, Ledgers, WellPlaced
<1>3. /\ Len(new) = L + 1 /\ new[L + 1] = h
      /\ \A i \in 1 .. L : new[i] = old[i]
  BY <1>2 DEF Block
<1>4. Typed'
  BY <1>1, <1>2 DEF SInv, Typed, Asked, Block
<1>5. \A s \in Ledgers' : s \in Ledgers \/ s = new
  BY <1>1 DEF SInv, Typed, Ledgers, Answers
<1>6. WellPlaced(new)
  BY <1>1, <1>2, <1>3 DEF WellPlaced
<1>7. ASSUME NEW s \in Ledgers, NEW j \in 1 .. Len(s), s[j] = h
      PROVE  j = L + 1 /\ \A k \in 1 .. j : s[k] = new[k]
  <2>1. s \in Seq(Block) /\ WellPlaced(s)
    BY LedgersTyped DEF SInv
  <2>2. j # 1
    BY <1>7, <2>1 DEF WellPlaced
  <2>3. place[h] = [height |-> j - 1, parent |-> s[j - 1]]
    BY <1>7, <2>1, <2>2 DEF WellPlaced
  <2>4. j = L + 1 /\ L \in 1 .. Len(s) /\ s[L] = old[L]
    BY <1>1, <1>2, <2>1, <2>2, <2>3
  <2>5. \A k \in 1 .. L : s[k] = old[k]
    BY <1>2, <2>4 DEF SInv, Compatible
  <2> QED
    BY <1>2, <1>3, <1>7, <2>4, <2>5
<1>8. ASSUME NEW s \in Ledgers PROVE Compatible(s, new) /\ Compatible(new, s)
  <2>1. s \in Seq(Block) /\ Compatible(s, old)
    BY <1>2, LedgersTyped DEF SInv
  <2>2. ASSUME NEW i \in 1 .. Len(s), NEW j \in 1 .. L + 1, s[i] = new[j]
        PROVE  i = j /\ \A k \in 1 .. i : s[k] = new[k]
    <3>1. CASE j = L + 1
      BY <1>3, <1>7, <2>2, <3>1
    <3>2. CASE j # L + 1
      <4>1. j \in 1 .. L /\ s[i] = old[j]
        BY <1>2, <1>3, <2>2, <3>2
      <4>2. i = j /\ \A k \in 1 .. i : s[k] = old[k]
        BY <2>1, <4>1 DEF Compatible
      <4> QED
        BY <1>3, <4>1, <4>2
    <3> QED
      BY <3>1, <3>2
  <2>3. Len(new) = L + 1
    BY <1>2, <1>3
  <2>4. \A i \in 1 .. Len(s), j \in 1 .. Len(new) : s[i] = new[j] =>
          i = j /\ \A k \in 1 .. i : s[k] = new[k]
    BY <2>2, <2>3
  <2> QED
    BY <2>4 DEF Compatible
<1>9. Compatible(new, new)
  <2>1. Compatible(old, new) /\ Compatible(new, old)
    BY <1>2, <1>8
  <2>2. ASSUME NEW i \in 1 .. L + 1, NEW j \in 1 .. L + 1, new[i] = new[j] PROVE i = j
    <3>1. CASE i \in 1 .. L
      BY <1>2, <1>3, <2>1, <2>2, <3>1 DEF Compatible
    <3>2. CASE j \in 1 .. L
      BY <1>2, <1>3, <2>1, <2>2, <3>2 DEF Compatible
    <3> QED
      BY <1>2, <3>1, <3>2
  <2> QED
    BY <1>2, <1>3, <2>2 DEF Compatible
<1>10. \A s, t \in Ledgers' : Compatible(s, t)
  BY <1>5, <1>8, <1>9 DEF SInv
<1>11. \A s \in Ledgers' : WellPlaced(s)
  BY <1>5, <1>6 DEF SInv
<1> QED
  BY <1>1, <1>4, <1>10, <1>11 DEF SInv, WellPlaced, Compatible

-----------------------------------------------------------------------------
LEMMA Inductive ==
  ASSUME Genesis \notin Hashes
  PROVE  ScriptsSpec => []SInv
<1>1. SInv /\ [ScriptsNext]_allVars => SInv'
  <2> SUFFICES ASSUME SInv, [ScriptsNext]_allVars PROVE SInv'
    OBVIOUS
  <2>1. CASE Post \/ Posted \/ Pick \/ Decrypt
    <3>1. UNCHANGED <<chain, place>>
      BY <2>1 DEF Post, Posted, Pick, Decrypt, network, vars
    <3>2. "answers" \in DOMAIN script' /\ script'.answers = script.answers
      BY <2>1 DEF Post, Posted, Pick, Decrypt, SInv, Typed
    <3> QED
      BY <3>1, <3>2, OtherSteps
  <2>2. CASE Ask
    BY <2>2, AskPreserves
  <2>3. ASSUME NEW n \in Nodes, PostElsewhere(n) PROVE SInv'
    BY <2>3, OtherSteps DEF PostElsewhere, network, vars, scriptVars, SInv, Typed
  <2>4. ASSUME NEW n \in Nodes, Restart(n) PROVE SInv'
    BY <2>4, StartOverPreserves DEF Restart, scriptVars
  <2>5. ASSUME NEW h \in Hashes, ProposeBlock(h) PROVE SInv'
    BY <2>5, ProposePreserves DEF ProposeBlock, scriptVars
  <2>6. ASSUME NEW n \in Nodes, NEW h \in Hashes, AppendBlock(n, h) PROVE SInv'
    BY <2>6, ExtendPreserves DEF AppendBlock, scriptVars
  <2>7. CASE UNCHANGED allVars
    BY <2>7, OtherSteps DEF allVars, network, vars, scriptVars, SInv, Typed
  <2> QED
    BY <2>1, <2>2, <2>3, <2>4, <2>5, <2>6, <2>7 DEF ScriptsNext, Run, Others
<1> QED
  BY <1>1, Initially, PTL DEF ScriptsSpec

\* What is made of the elements of a sequence is a finite set.
LEMMA FinitelyManyTips ==
  ASSUME NEW S, NEW s \in Seq(S)
  PROVE  IsFiniteSet({Last(x) : x \in ToSet(s)})
<1> DEFINE all  == {Last(x) : x \in ToSet(s)}
           list == [i \in 1 .. Len(s) |-> Last(s[i])]
<1>1. Len(s) \in Nat /\ DOMAIN s = 1 .. Len(s)
  OBVIOUS
<1>2. \A i \in 1 .. Len(s) : Last(s[i]) \in all
  BY <1>1, Zenon DEF ToSet
<1>3. \A t \in all : \E i \in 1 .. Len(s) : t = Last(s[i])
  BY <1>1, Zenon DEF ToSet
<1> HIDE DEF all
<1>4. list \in Seq(all) /\ Len(list) = Len(s)
  BY <1>1, <1>2
<1>5. \A t \in all : \E i \in 1 .. Len(list) : list[i] = t
  BY <1>3, <1>4
<1> HIDE DEF list
<1>6. IsFiniteSet(all)
  BY <1>4, <1>5, Zenon DEF IsFiniteSet
<1> QED
  BY <1>6 DEF all

\* One tip in all answers, where the code builds a set of tips.
LEMMA OneTip ==
  ASSUME Typed, AllAgree, NEW a \in Answers, NEW b \in Answers
  PROVE  Last(a) = Last(b)
<1> DEFINE tips == {Last(s) : s \in Answers}
<1>1. tips \subseteq {Last(s) : s \in ToSet(script.answers)}
  BY DEF Answers
<1>2. IsFiniteSet({Last(s) : s \in ToSet(script.answers)})
  BY FinitelyManyTips DEF Typed
<1>3. IsFiniteSet(tips)
  BY <1>1, <1>2, FS_Subset
<1>4. Cardinality(tips) = 1
  BY DEF AllAgree
<1>5. PICK t : tips = {t}
  BY <1>3, <1>4, FS_Singleton
<1> QED
  BY <1>5

(***************************************************************************)
(* Nodes that are reported to agree had the same ledger, although they     *)
(* were asked at different times and only their tips are compared          *)
(* (simulation.py:144, 152), for any number of nodes, forks and restarts.  *)
(***************************************************************************)
THEOREM ReportedAgreementIsReal ==
  ASSUME Genesis \notin Hashes
  PROVE  ScriptsSpec => []AgreeMeansOneHistory
<1>1. SInv => AgreeMeansOneHistory
  <2> SUFFICES ASSUME SInv, AllAgree, NEW a \in Answers, NEW b \in Answers
               PROVE  a = b
    BY DEF AgreeMeansOneHistory
  <2>1. a \in Seq(Block) /\ b \in Seq(Block) /\ Len(a) >= 1 /\ Len(b) >= 1
    BY LedgersTyped DEF SInv, Ledgers, WellPlaced
  <2>2. a[Len(a)] = b[Len(b)]
    BY OneTip DEF SInv, Last
  <2>3. Len(a) = Len(b) /\ \A k \in 1 .. Len(a) : a[k] = b[k]
    BY <2>1, <2>2 DEF SInv, Ledgers, Compatible
  <2> QED
    BY <2>1, <2>3
<1> QED
  BY <1>1, Inductive, PTL

-----------------------------------------------------------------------------
(***************************************************************************)
(* Where transactions come from and with which key they were made.         *)
(***************************************************************************)
Shown == {"nothing", Failed} \cup Readings

Script ==
  [stage : {"post", "ask", "decrypt", "done"}, left : 0 .. Count,
   answers : Seq(Seq(Block)), picked : SUBSET Transaction, shown : Shown]

\* Posted to its gateway, encrypted to a key that the gateway has, or had.
Origin(tx) ==
  \E n \in Nodes, data \in Readings : \E i \in 0 .. incarnation[n] :
    tx = [gateway |-> n,
          payload |-> process_iot_data_encryption(data, [node |-> n, incarnation |-> i])]

FirstOK == first \in [DOMAIN place -> accepted]

OriginInv ==
  /\ incarnation \in [Nodes -> 0 .. MaxRestarts]
  /\ target \in Targets
  /\ script \in Script
  /\ \A tx \in accepted : Origin(tx)
  /\ FirstOK
  /\ script.picked \subseteq accepted
  /\ RoundTrips

LEMMA OriginIsTransaction ==
  ASSUME incarnation \in [Nodes -> 0 .. MaxRestarts], NEW tx, Origin(tx)
  PROVE  tx \in Transaction
<1>1. PICK n \in Nodes, data \in Readings : \E i \in 0 .. incarnation[n] :
        tx = [gateway |-> n,
              payload |-> process_iot_data_encryption(data, [node |-> n, incarnation |-> i])]
  BY DEF Origin
<1>2. PICK i \in 0 .. incarnation[n] :
        tx = [gateway |-> n,
              payload |-> process_iot_data_encryption(data, [node |-> n, incarnation |-> i])]
  BY <1>1
<1> DEFINE key == [node |-> n, incarnation |-> i]
<1>3. key \in Key
  BY ScriptsAssumption DEF Key
<1> HIDE DEF key
<1>4. process_iot_data_encryption(data, key) \in
        {process_iot_data_encryption(d, k) : d \in Readings, k \in Key}
  BY <1>3
<1> QED
  BY <1>2, <1>4 DEF Transaction, key

\* What is encrypted to a key comes back under that key, and under no other.
LEMMA Decryption ==
  ASSUME NEW data \in Readings, NEW key, NEW other
  PROVE  process_iot_data_decryption(process_iot_data_encryption(data, key), other) =
           IF key = other THEN data ELSE Failed
<1>1. data # Failed
  BY DEF Readings, Failed
<1> QED
  BY <1>1 DEF process_iot_data_decryption, process_iot_data_encryption, AESEncrypt,
     AESDecrypt, encrypt_aes_key, decrypt_aes_key

\* New transactions, and restarts, excuse nothing that had no excuse.
LEMMA RoundTripsStay ==
  ASSUME OriginInv, accepted \subseteq accepted', UNCHANGED target,
         script'.shown = script.shown,
         incarnation'[target] = incarnation[target] \/ incarnation'[target] > 0
  PROVE  RoundTrips'
BY DEF OriginInv, RoundTrips, PublicKey

LEMMA OriginsStay ==
  ASSUME OriginInv, incarnation' \in [Nodes -> 0 .. MaxRestarts],
         \A n \in Nodes : incarnation[n] <= incarnation'[n],
         NEW tx, Origin(tx)
  PROVE  Origin(tx)'
<1>1. \A n \in Nodes : incarnation[n] \in Nat /\ incarnation'[n] \in Nat
  BY ScriptsAssumption DEF OriginInv
<1>2. \A n \in Nodes : \A i \in 0 .. incarnation[n] : i \in 0 .. incarnation'[n]
  BY <1>1
<1> QED
  BY <1>2, Zenon DEF Origin

LEMMA NewOrigin ==
  ASSUME OriginInv, NEW n \in Nodes, NEW data \in Readings
  PROVE  Origin(NewTransaction(n, data))
<1>1. incarnation[n] \in 0 .. incarnation[n]
  BY ScriptsAssumption DEF OriginInv
<1> QED
  BY <1>1 DEF Origin, NewTransaction, PublicKey

LEMMA OriginInitially == ScriptsInit => OriginInv
<1> SUFFICES ASSUME ScriptsInit PROVE OriginInv
  OBVIOUS
<1>1. script = [stage |-> "post", left |-> Count, answers |-> <<>>,
                picked |-> {}, shown |-> "nothing"]
  BY DEF ScriptsInit
<1>2. script \in Script
  BY <1>1, ScriptsAssumption DEF Script, Shown
<1>3. RoundTrips
  BY <1>1 DEF RoundTrips, Failed, Readings
<1> QED
  BY <1>1, <1>2, <1>3, ScriptsAssumption DEF OriginInv, ScriptsInit, Init, FirstOK

\* Steps of the script that post and show nothing.
LEMMA AskingKeeps ==
  ASSUME SInv, SInv', OriginInv, Posted \/ Ask \/ Pick
  PROVE  OriginInv'
<1>1. /\ UNCHANGED <<incarnation, accepted, target, first, place, chain>>
  BY DEF Posted, Ask, Pick, network, vars
<1>2. script \in Script
  BY DEF OriginInv
<1>3. script'.shown = script.shown /\ script'.picked \subseteq accepted /\ script' \in Script
  <2>1. CASE Posted
    BY <1>2, <2>1 DEF Posted, Script, OriginInv
  <2>2. CASE Ask
    <3>1. PICK answer : script' = [script EXCEPT !.answers = Append(@, answer)]
      BY <2>2 DEF Ask
    <3> DEFINE answers == Append(script.answers, answer)
    <3>2. script' = [script EXCEPT !.answers = answers] /\ script'.answers \in Seq(Seq(Block))
      BY <3>1 DEF SInv, Typed
    <3>3. script'.answers = answers
      BY <1>2, <3>2 DEF Script
    <3> HIDE DEF answers
    <3> QED
      BY <1>2, <3>2, <3>3 DEF Script, OriginInv
  <2>3. CASE Pick /\ script' = [script EXCEPT !.stage = "done"]
    BY <1>2, <2>3 DEF Script, OriginInv
  <2>4. CASE Pick /\ script' # [script EXCEPT !.stage = "done"]
    <3> DEFINE tx == first[chain[target][2]]
    <3>1. /\ Len(chain[target]) > 1
          /\ script' = [script EXCEPT !.stage = "decrypt", !.picked = {tx}]
      BY <2>4 DEF Pick
    <3>2. WellPlaced(chain[target]) /\ chain[target] \in Seq(Block)
      BY ScriptsAssumption DEF SInv, Typed, Ledgers, OriginInv
    <3>3. chain[target][2] \in DOMAIN place
      <4>1. 2 \in 2 .. Len(chain[target])
        BY <3>1, <3>2
      <4> QED
        BY <3>2, <4>1 DEF WellPlaced
    <3>4. tx \in accepted
      BY <3>3 DEF OriginInv, FirstOK
    <3>5. tx \in Transaction
      BY <3>4, OriginIsTransaction DEF OriginInv
    <3> HIDE DEF tx
    <3> QED
      BY <1>2, <3>1, <3>4, <3>5 DEF Script
  <2> QED
    BY <2>1, <2>2, <2>3, <2>4
<1>4. RoundTrips'
  BY <1>1, <1>3, RoundTripsStay
<1> QED
  BY <1>1, <1>3, <1>4 DEF OriginInv, Origin, FirstOK

LEMMA PostKeeps ==
  ASSUME OriginInv, NEW n \in Nodes, NEW data \in Readings,
         accepted' = accepted \cup {NewTransaction(n, data)} \/ UNCHANGED accepted,
         UNCHANGED <<incarnation, target, first, place>>,
         script' \in Script, script'.picked = script.picked, script'.shown = script.shown
  PROVE  OriginInv'
<1>1. \A tx \in accepted' : Origin(tx)
  BY NewOrigin DEF OriginInv
<1>2. RoundTrips'
  BY RoundTripsStay
<1>3. \A tx \in accepted' : Origin(tx)'
  BY <1>1 DEF Origin
<1>4. accepted \subseteq accepted'
  OBVIOUS
<1>5. FirstOK' /\ script'.picked \subseteq accepted'
  BY <1>4 DEF OriginInv, FirstOK
<1> QED
  BY <1>2, <1>3, <1>5 DEF OriginInv

LEMMA DecryptKeeps ==
  ASSUME OriginInv, Decrypt
  PROVE  OriginInv'
<1>1. PICK shown \in {"nothing"} \cup
              {process_iot_data_decryption(tx.payload, PublicKey(target)) : tx \in script.picked} :
        script' = [script EXCEPT !.stage = "done", !.shown = shown]
  BY DEF Decrypt
<1>2. UNCHANGED <<incarnation, accepted, target, first, place>>
  BY DEF Decrypt, network, vars
<1>3. script \in Script /\ target \in Nodes
  BY ScriptsAssumption DEF OriginInv
<1>4. script'.shown = shown /\ script'.picked = script.picked
  BY <1>1, <1>3 DEF Script
<1>5. CASE shown = "nothing"
  <2>1. script' \in Script
    BY <1>1, <1>3, <1>5 DEF Script, Shown
  <2>2. RoundTrips'
    BY <1>4, <1>5 DEF RoundTrips, Failed, Readings
  <2> QED
    BY <1>2, <1>4, <2>1, <2>2 DEF OriginInv, Origin, FirstOK
<1>6. CASE shown # "nothing"
  <2>1. PICK tx \in script.picked :
          shown = process_iot_data_decryption(tx.payload, PublicKey(target))
    BY <1>6
  <2>2. tx \in accepted /\ Origin(tx)
    BY <2>1 DEF OriginInv
  <2>0. PICK n \in Nodes, data \in Readings : \E i \in 0 .. incarnation[n] :
          tx = [gateway |-> n,
                payload |-> process_iot_data_encryption(data, [node |-> n, incarnation |-> i])]
    BY <2>2 DEF Origin
  <2>3. PICK i \in 0 .. incarnation[n] :
          tx = [gateway |-> n,
                payload |-> process_iot_data_encryption(data, [node |-> n, incarnation |-> i])]
    BY <2>0
  <2> DEFINE key == [node |-> n, incarnation |-> i]
  <2>4. shown = IF key = PublicKey(target) THEN data ELSE Failed
    BY <2>1, <2>3, Decryption
  <2>5. tx.gateway = n
    BY <2>3
  <2>6. CASE key = PublicKey(target)
    <3>1. n = target /\ shown \in Readings /\ shown # Failed
      BY <2>4, <2>6 DEF PublicKey, Readings, Failed
    <3>2. RoundTrips'
      BY <1>2, <1>4, <2>1, <2>2, <2>5, <3>1 DEF RoundTrips, PublicKey
    <3>3. script' \in Script
      BY <1>1, <1>3, <3>1 DEF Script, Shown
    <3> QED
      BY <1>2, <1>4, <3>2, <3>3 DEF OriginInv, Origin, FirstOK
  <2>7. CASE key # PublicKey(target)
    <3>1. shown = Failed /\ shown \notin Readings
      BY <2>4, <2>7 DEF Readings, Failed
    <3>2. n # target \/ incarnation[target] > 0
      <4>1. incarnation[n] \in Nat /\ i \in Nat /\ i <= incarnation[n]
        BY ScriptsAssumption DEF OriginInv
      <4>2. n = target => i # incarnation[n]
        BY <2>7 DEF PublicKey
      <4> QED
        BY <4>1, <4>2
    <3>3. RoundTrips'
      BY <1>2, <1>4, <2>2, <2>5, <3>1, <3>2 DEF RoundTrips
    <3>4. script' \in Script
      BY <1>1, <1>3, <3>1 DEF Script, Shown
    <3> QED
      BY <1>2, <1>4, <3>3, <3>4 DEF OriginInv, Origin, FirstOK
  <2> QED
    BY <2>6, <2>7
<1> QED
  BY <1>5, <1>6

-----------------------------------------------------------------------------
LEMMA NodesFinite == IsFiniteSet(Nodes)
<1>1. NodeOrder \in Seq(Nodes) /\ Nodes = ToSet(NodeOrder)
  BY ScriptsAssumption
<1>2. Len(NodeOrder) \in Nat /\ DOMAIN NodeOrder = 1 .. Len(NodeOrder)
  BY <1>1
<1>3. \A n \in Nodes : \E i \in 1 .. Len(NodeOrder) : NodeOrder[i] = n
  BY <1>1, <1>2, Zenon DEF ToSet
<1> QED
  BY <1>1, <1>3, Zenon DEF IsFiniteSet

\* Who may be restarted has been restarted less often than the bound.
LEMMA RestartBound ==
  ASSUME OriginInv, NEW n \in Nodes, Cardinality(Replaced) < MaxRestarts
  PROVE  incarnation[n] < MaxRestarts
<1> SUFFICES ASSUME ~(incarnation[n] < MaxRestarts) PROVE FALSE
  OBVIOUS
<1>1. incarnation[n] = MaxRestarts /\ MaxRestarts \in Nat
  BY ScriptsAssumption DEF OriginInv
<1> DEFINE lives == 1 .. MaxRestarts
<1>2. IsFiniteSet(lives) /\ Cardinality(lives) = MaxRestarts
  BY <1>1, FS_Interval
<1>3. IsFiniteSet(Nodes \X lives)
  BY <1>2, NodesFinite, FS_Product
<1>4. Replaced \subseteq Nodes \X lives
  BY DEF Replaced
<1>5. {n} \X lives \subseteq Replaced
  BY <1>1 DEF Replaced
<1>6. IsFiniteSet({n}) /\ Cardinality({n}) = 1
  BY FS_Singleton
<1> HIDE DEF lives
<1>7. Cardinality({n} \X lives) = MaxRestarts
  <2>1. Cardinality({n} \X lives) = Cardinality({n}) * Cardinality(lives)
    BY <1>2, <1>6, FS_Product
  <2> QED
    BY <1>1, <1>2, <1>6, <2>1
<1>8. IsFiniteSet(Replaced)
  BY <1>3, <1>4, FS_Subset
<1>9. /\ Cardinality(Replaced) \in Nat
      /\ Cardinality({n} \X lives) <= Cardinality(Replaced)
  BY <1>5, <1>8, FS_Subset, FS_CardinalityType
<1> QED
  BY <1>1, <1>7, <1>9

LEMMA RestartKeeps ==
  ASSUME OriginInv, NEW n \in Nodes, Restart(n)
  PROVE  OriginInv'
<1>1. /\ incarnation' = [incarnation EXCEPT ![n] = @ + 1]
      /\ Cardinality(Replaced) < MaxRestarts
      /\ UNCHANGED <<first, accepted, target, script, place>>
  BY DEF Restart, StartOver, scriptVars
<1>2. incarnation[n] < MaxRestarts
  BY <1>1, RestartBound
<1>3. incarnation' \in [Nodes -> 0 .. MaxRestarts]
  BY <1>1, <1>2, ScriptsAssumption DEF OriginInv
<1>4. \A m \in Nodes : /\ incarnation[m] \in Nat
                       /\ incarnation'[m] = incarnation[m] \/ incarnation'[m] = incarnation[m] + 1
  BY <1>1, ScriptsAssumption DEF OriginInv
<1>5. \A tx \in accepted : Origin(tx)'
  BY <1>3, <1>4, OriginsStay DEF OriginInv
<1>6. RoundTrips'
  <2>1. target \in Nodes
    BY ScriptsAssumption DEF OriginInv
  <2> QED
    BY <1>1, <1>4, <2>1, RoundTripsStay
<1> QED
  BY <1>1, <1>3, <1>5, <1>6 DEF OriginInv, FirstOK

LEMMA ProposeKeeps ==
  ASSUME OriginInv, NEW h \in Hashes, ProposeBlock(h)
  PROVE  OriginInv'
<1>1. UNCHANGED <<incarnation, accepted, target, script>>
  BY DEF ProposeBlock, scriptVars
<1>2. PICK tx \in accepted :
        first' = [b \in DOMAIN place' |-> IF b = h THEN tx ELSE first[b]]
  BY DEF ProposeBlock
<1>3. DOMAIN place' = DOMAIN place \cup {h}
  BY DEF ProposeBlock, Propose
<1>4. FirstOK'
  BY <1>1, <1>2, <1>3 DEF OriginInv, FirstOK
<1>5. RoundTrips'
  BY <1>1, RoundTripsStay
<1> QED
  BY <1>1, <1>4, <1>5, SMTT(30) DEF OriginInv, Origin

LEMMA OriginStep ==
  ASSUME SInv, SInv', OriginInv, [ScriptsNext]_allVars
  PROVE  OriginInv'
<1>1. CASE Posted \/ Ask \/ Pick
  BY <1>1, AskingKeeps
<1>2. CASE Post
  <2>1. /\ script' = [script EXCEPT !.left = @ - 1] /\ script.left > 0
        /\ accepted' = accepted \cup {NewTransaction(target, "reading of the script")}
           \/ UNCHANGED accepted
        /\ UNCHANGED <<incarnation, target, first, place>>
    BY <1>2 DEF Post, network, vars
  <2>2. script \in Script /\ target \in Nodes
    BY ScriptsAssumption DEF OriginInv
  <2>3. script' \in Script /\ script'.picked = script.picked /\ script'.shown = script.shown
    <3> DEFINE left == script.left - 1
    <3>1. script.left \in 0 .. Count /\ left \in 0 .. Count
      <4>1. script.left \in 0 .. Count
        BY <2>2 DEF Script
      <4>2. script.left > 0 /\ Count \in Nat
        BY <2>1, ScriptsAssumption
      <4> QED
        BY <4>1, <4>2
    <3>2. script' = [script EXCEPT !.left = left]
      BY <2>1
    <3> HIDE DEF left
    <3> QED
      BY <2>2, <3>1, <3>2 DEF Script
  <2> QED
    BY <2>1, <2>2, <2>3, PostKeeps DEF Readings
<1>3. CASE Decrypt
  BY <1>3, DecryptKeeps
<1>4. ASSUME NEW n \in Nodes, PostElsewhere(n) PROVE OriginInv'
  <2>1. /\ UNCHANGED <<incarnation, target, script, first, place>>
        /\ accepted' = accepted \cup {NewTransaction(n, "reading of another")}
    BY <1>4 DEF PostElsewhere, network, vars, scriptVars
  <2> QED
    BY <2>1, PostKeeps DEF OriginInv, Readings
<1>5. ASSUME NEW n \in Nodes, Restart(n) PROVE OriginInv'
  BY <1>5, RestartKeeps
<1>6. ASSUME NEW h \in Hashes, ProposeBlock(h) PROVE OriginInv'
  BY <1>6, ProposeKeeps
<1>7. ASSUME NEW n \in Nodes, NEW h \in Hashes, AppendBlock(n, h) PROVE OriginInv'
  BY <1>7, RoundTripsStay DEF AppendBlock, Extend, scriptVars, OriginInv, Origin, FirstOK
<1>8. CASE UNCHANGED allVars
  BY <1>8, RoundTripsStay DEF allVars, network, vars, scriptVars, OriginInv, Origin, FirstOK
<1> QED
  BY <1>1, <1>2, <1>3, <1>4, <1>5, <1>6, <1>7, <1>8 DEF ScriptsNext, Run, Others

LEMMA OriginInvariant ==
  ASSUME Genesis \notin Hashes
  PROVE  ScriptsSpec => []OriginInv
<1>1. SInv /\ SInv' /\ OriginInv /\ [ScriptsNext]_allVars => OriginInv'
  BY OriginStep
<1>2. ScriptsSpec => []SInv
  BY Inductive
<1> QED
  BY <1>1, <1>2, OriginInitially, PTL DEF ScriptsSpec

(***************************************************************************)
(* What a script shows, posts and is told has its type; among it, every    *)
(* transaction it picks is one that a gateway accepted (simulation.py:166).*)
(***************************************************************************)
THEOREM TypeCorrect ==
  ASSUME Genesis \notin Hashes
  PROVE  ScriptsSpec => []TypeOK
<1>1. SInv /\ OriginInv => TypeOK
  <2> SUFFICES ASSUME SInv, OriginInv PROVE TypeOK
    OBVIOUS
  <2>1. accepted \subseteq Transaction
    BY OriginIsTransaction DEF OriginInv
  <2>2. first \in [DOMAIN place -> Transaction]
    BY <2>1 DEF OriginInv, FirstOK
  <2>3. /\ chain \in [Nodes -> Seq(Hashes \cup {Genesis})]
        /\ DOMAIN place \subseteq Hashes /\ Len(script.answers) <= Len(NodeOrder)
    BY DEF SInv, Typed, Asked, Block
  <2>4. /\ script.stage \in {"post", "ask", "decrypt", "done"} /\ script.left \in 0 .. Count
        /\ script.picked \subseteq Transaction /\ script.shown \in {"nothing", Failed} \cup Readings
    BY DEF OriginInv, Script, Shown
  <2> QED
    BY <2>1, <2>2, <2>3, <2>4 DEF OriginInv, TypeOK
<1>2. ScriptsSpec => []SInv
  BY Inductive
<1> QED
  BY <1>1, <1>2, OriginInvariant, PTL

(***************************************************************************)
(* The demonstration shows what was posted to its target, and fails only   *)
(* if somebody posted to another gateway or the target was restarted       *)
(* (simulation.py:166-192, app.py:112, node.py:51), for any number of      *)
(* nodes, clients, readings and restarts.                                  *)
(***************************************************************************)
THEOREM DecryptionFailsForTwoReasons ==
  ASSUME Genesis \notin Hashes
  PROVE  ScriptsSpec => []RoundTrips
<1>1. OriginInv => RoundTrips
  BY DEF OriginInv
<1> QED
  BY <1>1, OriginInvariant, PTL
=============================================================================
