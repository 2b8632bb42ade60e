-------------------------- MODULE AlgorithmProofs --------------------------
(***************************************************************************)
(* What the algorithms of Config and Wav compute, proved for every input:  *)
(* the properties of Algorithms, for all files, info files and recordings  *)
(* that its assumptions allow.                                             *)
(*                                                                         *)
(* A loop is a recursive function of the number of its iterations.  That   *)
(* the function exists (LoopExists) and that what each iteration preserves *)
(* holds at the end (Induction) are proved here, from the library's        *)
(* theorem that a set with a well-founded order has a least element: a     *)
(* property of the loop's state is a set of iterations, T, and not an      *)
(* operator.  Each loop has an operator that says what it has done after n *)
(* iterations, a lemma for one iteration more, and a lemma for its end.    *)
(*                                                                         *)
(* The parts: what a process reads of rules.conf (ReadUpTo); the settings  *)
(* of the video module (Filled); its routes (ScannedTo, CombinedTo); the   *)
(* file of a recording (WrittenUpTo).                                      *)
(***************************************************************************)
EXTENDS Algorithms, SequenceTheorems, WellFoundedInduction, TLAPS

-----------------------------------------------------------------------------
(* Induction.                                                              *)

(* A set of natural numbers has a least element: the library's WFMin for   *)
(* <.                                                                      *)
LEMMA Least ==
  ASSUME NEW S, S \subseteq Nat, S # {}
  PROVE  \E n \in S : \A m \in S : n <= m
<1>1. \E R : /\ IsWellFoundedOn(R, Nat)
             /\ \A m, n \in Nat : m < n => <<m, n>> \in R
  <2>1. \A m, n \in Nat : m < n => <<m, n>> \in OpToRel(<, Nat)
    BY DEF OpToRel
  <2> QED
    BY <2>1, NatLessThanWellFounded, Zenon
<1>2. PICK R : /\ IsWellFoundedOn(R, Nat)
               /\ \A m, n \in Nat : m < n => <<m, n>> \in R
  BY <1>1, Zenon
<1>3. \E x \in S : \A y \in S : ~(<<y, x>> \in R)
  <2>1. IsWellFoundedOn(R, Nat)
    BY <1>2, Zenon
  <2> QED
    BY <2>1, WFMin, Zenon
<1>4. PICK n \in S : \A m \in S : ~(<<m, n>> \in R)
  BY <1>3, Zenon
<1>5. \A m \in S : ~(m < n)
  BY <1>2, <1>4, Zenon
<1> QED
  BY <1>5

(* What holds of 0 and passes from i - 1 to i holds up to n: the least i   *)
(* it does not hold of would be neither.                                   *)
LEMMA Induction ==
  ASSUME NEW n \in Nat, NEW T, 0 \in T,
         \A i \in 1..n : i - 1 \in T => i \in T
  PROVE  \A i \in 0..n : i \in T
<1> DEFINE Rest == {i \in 0..n : i \notin T}
<1>1. SUFFICES ASSUME Rest # {} PROVE FALSE
  BY Zenon
<1>2. Rest \subseteq Nat
  OBVIOUS
<1>3. PICK i \in Rest : \A j \in Rest : i <= j
  BY <1>1, <1>2, Least, Zenon
<1>4. i \in 1..n /\ i - 1 \in 0..n
  BY <1>3
<1>5. i - 1 \notin Rest
  BY <1>3, <1>4
<1> QED
  BY <1>3, <1>4, <1>5

(* A loop of n iterations that starts from base: f[i] is what it has when  *)
(* iteration i is over.                                                    *)
Ran(f, S, base, n, step) ==
    /\ f = [i \in 0..n |-> f[i]]
    /\ f[0] = base
    /\ \A i \in 1..n : f[i - 1] \in S /\ f[i] = step[i][f[i - 1]]

(* A loop over values of S does run: the function of its iterations that   *)
(* the model defines by recursion exists.                                  *)
LEMMA LoopExists ==
  ASSUME NEW S, NEW base \in S, NEW n \in Nat, NEW step \in [1..n -> [S -> S]]
  PROVE  \E f : Ran(f, S, base, n, step)
<1> DEFINE Runs(f, k) == /\ f \in [0..k -> S]
                         /\ f[0] = base
                         /\ \A i \in 1..k : f[i] = step[i][f[i - 1]]
           T == {k \in 0..n : \E f : Runs(f, k)}
<1>1. 0 \in T
  <2> DEFINE g == [i \in 0..0 |-> base]
  <2>1. g \in [0..0 -> S] /\ g[0] = base
    OBVIOUS
  <2>2. \A i \in 1..0 : FALSE
    OBVIOUS
  <2> HIDE DEF g
  <2>3. Runs(g, 0)
    BY <2>1, <2>2
  <2> QED
    BY <2>3
<1>2. ASSUME NEW k \in 1..n, k - 1 \in T
      PROVE  k \in T
  <2>1. PICK f : Runs(f, k - 1)
    BY <1>2
  <2> DEFINE g == [i \in 0..k |-> IF i < k THEN f[i] ELSE step[k][f[k - 1]]]
  <2>2. f[k - 1] \in S /\ step[k] \in [S -> S]
    BY <2>1
  <2>3. g \in [0..k -> S]
    BY <2>1, <2>2
  <2>4. \A i \in 0..(k - 1) : g[i] = f[i]
    OBVIOUS
  <2>5. \A i \in 1..k : g[i] = step[i][g[i - 1]]
    <3> TAKE i \in 1..k
    <3>1. g[i - 1] = f[i - 1]
      BY <2>4
    <3>2. CASE i = k
      BY <3>1, <3>2
    <3>3. CASE i # k
      BY <2>1, <3>1, <3>3
    <3> QED
      BY <3>2, <3>3
  <2>6. g[0] = base
    BY <2>1, <2>4
  <2> HIDE DEF g
  <2>7. Runs(g, k)
    BY <2>3, <2>5, <2>6
  <2> QED
    BY <2>7
<1>3. n \in T
  <2> HIDE DEF T
  <2>1. \A i \in 1..n : i - 1 \in T => i \in T
    BY <1>2
  <2>2. \A i \in 0..n : i \in T
    BY <1>1, <2>1, Induction, Zenon
  <2> QED
    BY <2>2
<1>4. PICK f : Runs(f, n)
  BY <1>3
<1>5. f = [i \in 0..n |-> f[i]] /\ \A i \in 0..n : f[i] \in S
  BY <1>4
<1>6. \A i \in 1..n : i - 1 \in 0..n
  OBVIOUS
<1> QED
  BY <1>4, <1>5, <1>6 DEF Ran

-----------------------------------------------------------------------------
(* Lists, and what the loops over them start from.                         *)

(* The items of an array are a sequence.                                   *)
LEMMA ListIsSeq ==
  ASSUME NEW items, IsList(items)
  PROVE  /\ Len(items) \in Nat
         /\ DOMAIN items = 1..Len(items)
         /\ items \in Seq({items[i] : i \in 1..Len(items)})
<1> DEFINE n == Len(items)
           S == {items[i] : i \in 1..n}
<1>1. n \in Nat /\ items = [i \in 1..n |-> items[i]]
  BY DEF IsList
<1>2. items \in [1..n -> S]
  <2> HIDE DEF n
  <2>1. [i \in 1..n |-> items[i]] \in [1..n -> S]
    OBVIOUS
  <2> QED
    BY <1>1, <2>1
<1>3. items \in Seq(S)
  <2> HIDE DEF S, n
  <2> QED
    BY <1>1, <1>2
<1>4. DOMAIN items = 1..n
  BY <1>2
<1> QED
  BY <1>1, <1>3, <1>4

(* Min of module FiniteSetsExt, for natural numbers.                       *)
LEMMA MinProperties ==
  ASSUME NEW S, S \subseteq Nat, S # {}
  PROVE  Min(S) \in S /\ \A y \in S : Min(S) <= y
  BY Least DEF Min

(* The objects at the beginning of an array are a list.                    *)
LEMMA LeadingIsList ==
  ASSUME NEW array, IsList(array.items)
  PROVE  /\ Len(Leading(array)) \in Nat
         /\ DOMAIN Leading(array) = 1..Len(Leading(array))
<1> DEFINE items == array.items
           S == {items[i] : i \in 1..Len(items)}
           others == {i \in DOMAIN items : items[i].type # "OBJECT_"}
<1>1. Len(items) \in Nat /\ DOMAIN items = 1..Len(items) /\ items \in Seq(S)
  BY ListIsSeq
<1>2. CASE others = {}
  BY <1>1, <1>2 DEF Leading
<1>3. CASE others # {}
  <2>1. others \subseteq Nat
    BY <1>1
  <2>2. Min(others) \in others
    BY <1>3, <2>1, MinProperties
  <2>3. Min(others) \in 1..Len(items)
    BY <1>1, <2>2
  <2>4. Leading(array) = SubSeq(items, 1, Min(others) - 1)
    BY <1>3 DEF Leading
  <2> DEFINE m == Min(others) - 1
  <2>5. m \in Nat /\ m <= Len(items)
    BY <1>1, <2>3
  <2>6. \A i \in 1..m : items[i] \in S
    BY <1>1, <2>5
  <2> HIDE DEF m, S, others, items
  <2>7. SubSeq(items, 1, m) \in Seq(S)
    BY <2>5, <2>6, SubSeqProperties
  <2>8. Leading(array) \in Seq(S)
    BY <2>4, <2>7 DEF m
  <2> QED
    BY <2>8
<1> QED
  BY <1>2, <1>3

(* What a loop over a configuration list goes through is a list.           *)
LEMMA EntriesAreAList ==
  ASSUME NEW file, NEW key, Lists(file, key)
  PROVE  /\ Len(Entries(file, key)) \in Nat
         /\ DOMAIN Entries(file, key) = 1..Len(Entries(file, key))
<1>1. CASE Has(file, "ARRAY_", key)
  BY <1>1, LeadingIsList DEF Lists, Entries
<1>2. CASE ~Has(file, "ARRAY_", key)
  BY <1>2 DEF Entries
<1> QED
  BY <1>1, <1>2

-----------------------------------------------------------------------------
(* The rules a process reads.                                              *)

Infos(rules) == {RuleInfo(rules[i], i - 1) : i \in 1..Len(rules)}

(* What out_rule holds after n entries of the file.                        *)
ReadUpTo(rules, name, out, n) ==
    /\ out \in Seq(Infos(rules))
    /\ \A k \in 1..Len(out) : \E i \in 1..n :
         Mine(rules[i], name) /\ out[k] = RuleInfo(rules[i], i - 1)
    /\ \A i \in 1..n : Mine(rules[i], name) =>
         \E k \in 1..Len(out) : out[k] = RuleInfo(rules[i], i - 1)
    /\ \A k, l \in 1..Len(out) : k < l => out[k].id < out[l].id

(* A rule keeps the id it is given.                                        *)
LEMMA InfoId ==
  ASSUME NEW rule, NEW id
  PROVE  RuleInfo(rule, id).id = id
  BY DEF RuleInfo

(* One more entry, and it is the process's own: ids stay in order.         *)
LEMMA ReadOneMore ==
  ASSUME NEW rules, NEW name, NEW n \in Nat, n + 1 \in 1..Len(rules), NEW out,
         Len(rules) \in Nat,
         ReadUpTo(rules, name, out, n),
         Mine(rules[n + 1], name)
  PROVE  ReadUpTo(rules, name, Append(out, RuleInfo(rules[n + 1], n)), n + 1)
<1> DEFINE info == RuleInfo(rules[n + 1], n)
           new == Append(out, info)
           S == Infos(rules)
<1>1. info \in S
  <2>1. info = RuleInfo(rules[n + 1], (n + 1) - 1)
    OBVIOUS
  <2> QED
    BY <2>1 DEF Infos
<1>2. out \in Seq(S)
  BY DEF ReadUpTo
<1>3. /\ new \in Seq(S)
      /\ Len(out) \in Nat
      /\ Len(new) = Len(out) + 1
      /\ \A k \in 1..Len(out) : new[k] = out[k]
      /\ new[Len(out) + 1] = info
  <2> HIDE DEF S, info
  <2> QED
    BY <1>1, <1>2, AppendProperties, LenProperties
<1>4. (n + 1) - 1 = n
  OBVIOUS
<1>5. \A k \in 1..Len(new) : \E i \in 1..n + 1 :
         Mine(rules[i], name) /\ new[k] = RuleInfo(rules[i], i - 1)
  <2> TAKE k \in 1..Len(new)
  <2>1. CASE k = Len(out) + 1
    <3>1. new[k] = RuleInfo(rules[n + 1], (n + 1) - 1)
      BY <1>3, <1>4, <2>1
    <3> QED
      BY <3>1
  <2>2. CASE k # Len(out) + 1
    <3>1. k \in 1..Len(out) /\ new[k] = out[k]
      BY <1>3, <2>2
    <3>2. PICK i \in 1..n : Mine(rules[i], name)
                            /\ out[k] = RuleInfo(rules[i], i - 1)
      BY <3>1 DEF ReadUpTo
    <3>3. i \in 1..n + 1
      OBVIOUS
    <3> HIDE DEF new
    <3> QED
      BY <3>1, <3>2, <3>3
  <2> QED
    BY <2>1, <2>2
<1>6. ASSUME NEW i \in 1..n + 1, Mine(rules[i], name)
      PROVE  \E k \in 1..Len(new) : new[k] = RuleInfo(rules[i], i - 1)
  <2>1. CASE i = n + 1
    <3>1. new[Len(out) + 1] = RuleInfo(rules[i], i - 1)
      BY <1>3, <1>4, <2>1
    <3> QED
      BY <1>3, <3>1
  <2>2. CASE i # n + 1
    <3>1. PICK k \in 1..Len(out) : out[k] = RuleInfo(rules[i], i - 1)
      BY <1>6, <2>2 DEF ReadUpTo
    <3> QED
      BY <1>3, <3>1
  <2> QED
    BY <2>1, <2>2
<1>7. ASSUME NEW k \in 1..Len(new), NEW l \in 1..Len(new), k < l
      PROVE  new[k].id < new[l].id
  <2>1. k \in 1..Len(out) /\ new[k] = out[k]
    BY <1>3, <1>7
  <2>2. CASE l = Len(out) + 1
    <3>1. PICK i \in 1..n : out[k] = RuleInfo(rules[i], i - 1)
      BY <2>1 DEF ReadUpTo
    <3>2. new[k].id = i - 1
      BY <2>1, <3>1, InfoId
    <3>3. new[l].id = n
      BY <1>3, <2>2, InfoId
    <3> QED
      BY <3>2, <3>3
  <2>3. CASE l # Len(out) + 1
    <3>1. l \in 1..Len(out) /\ new[l] = out[l]
      BY <1>3, <2>3
    <3> QED
      BY <1>7, <2>1, <3>1 DEF ReadUpTo
  <2> QED
    BY <2>2, <2>3
<1> HIDE DEF new
<1>8. ReadUpTo(rules, name, new, n + 1)
  BY <1>3, <1>5, <1>6, <1>7 DEF ReadUpTo
<1> QED
  BY <1>8 DEF new

(* The loop of getRules has read all of the process's rules at its end.    *)
LEMMA OwnRulesRead ==
  ASSUME NEW rules, NEW name, Len(rules) \in Nat
  PROVE  ReadUpTo(rules, name, OwnRules(rules, name), Len(rules))
<1> DEFINE n == Len(rules)
           S == Seq(Infos(rules))
           Step(i, out) == IF Mine(rules[i], name)
                           THEN Append(out, RuleInfo(rules[i], i - 1)) ELSE out
           step == [i \in 1..n |-> [out \in S |-> Step(i, out)]]
           Loop(f) == f = [i \in 0..n |->
                             IF i = 0 THEN <<>>
                             ELSE IF Mine(rules[i], name)
                             THEN Append(f[i - 1], RuleInfo(rules[i], i - 1))
                             ELSE f[i - 1]]
           out_rule == CHOOSE f : Loop(f)
<1>1. step \in [1..n -> [S -> S]]
  <2>1. ASSUME NEW i \in 1..n, NEW out \in S PROVE Step(i, out) \in S
    <3>1. RuleInfo(rules[i], i - 1) \in Infos(rules)
      BY DEF Infos
    <3> QED
      BY <3>1, AppendProperties
  <2> HIDE DEF Step, S
  <2> QED
    BY <2>1
<1>2. \E f : Loop(f)
  <2> DEFINE base == <<>>
  <2>1. base \in S /\ n \in Nat
    OBVIOUS
  <2>2. PICK f : Ran(f, S, base, n, step)
    <3> HIDE DEF S, step, n, base
    <3> QED
      BY <1>1, <2>1, LoopExists, Zenon
  <2>3. \A i \in 1..n : f[i] = Step(i, f[i - 1])
    <3> HIDE DEF S, Step
    <3> QED
      BY <2>2 DEF Ran
  <2>4. Loop(f)
    <3>1. \A i \in 0..n : i = 0 \/ i \in 1..n
      OBVIOUS
    <3> HIDE DEF step, S, n
    <3> QED
      BY <2>2, <2>3, <3>1 DEF Ran
  <2> QED
    BY <2>4
<1>3. Loop(out_rule)
  BY <1>2
<1>4. OwnRules(rules, name) = out_rule[n]
  BY DEF OwnRules
<1> HIDE DEF out_rule
<1>5. out_rule[0] = <<>>
  BY <1>3
<1>6. \A i \in 1..n : out_rule[i] = Step(i, out_rule[i - 1])
  <2>1. \A i \in 1..n : i \in 0..n /\ i # 0
    OBVIOUS
  <2> HIDE DEF n
  <2> QED
    BY <1>3, <2>1
<1> DEFINE T == {i \in 0..n : ReadUpTo(rules, name, out_rule[i], i)}
<1>7. 0 \in T
  <2>1. ReadUpTo(rules, name, <<>>, 0)
    BY DEF ReadUpTo
  <2> QED
    BY <1>5, <2>1
<1>8. ASSUME NEW i \in 1..n, i - 1 \in T
      PROVE  i \in T
  <2>1. ReadUpTo(rules, name, out_rule[i - 1], i - 1)
    BY <1>8
  <2>2. CASE Mine(rules[i], name)
    <3>1. i - 1 \in Nat /\ (i - 1) + 1 = i
      OBVIOUS
    <3>2. ReadUpTo(rules, name,
                   Append(out_rule[i - 1], RuleInfo(rules[i], i - 1)), i)
      <4> DEFINE m == i - 1
      <4>1. m \in Nat /\ m + 1 = i
        OBVIOUS
      <4> HIDE DEF m
      <4>2. ReadUpTo(rules, name, out_rule[m], m)
        BY <2>1 DEF m
      <4>3. ReadUpTo(rules, name, Append(out_rule[m], RuleInfo(rules[m + 1], m)), m + 1)
        BY <2>2, <4>1, <4>2, ReadOneMore
      <4> QED
        BY <4>1, <4>3 DEF m
    <3> QED
      BY <1>6, <2>2, <3>2
  <2>3. CASE ~Mine(rules[i], name)
    <3>1. out_rule[i] = out_rule[i - 1]
      BY <1>6, <2>3
    <3>2. ReadUpTo(rules, name, out_rule[i - 1], i)
      <4>1. \A j \in 1..i : j = i \/ j \in 1..i - 1
        OBVIOUS
      <4>2. \A j \in 1..i - 1 : j \in 1..i
        OBVIOUS
      <4> HIDE DEF n
      <4> QED
        BY <2>1, <2>3, <4>1, <4>2 DEF ReadUpTo
    <3> QED
      BY <3>1, <3>2
  <2> QED
    BY <2>2, <2>3
<1>9. n \in T
  <2> HIDE DEF T
  <2>1. \A i \in 1..n : i - 1 \in T => i \in T
    BY <1>8
  <2>2. \A i \in 0..n : i \in T
    BY <1>7, <2>1, Induction, Zenon
  <2> QED
    BY <2>2
<1> QED
  BY <1>4, <1>9

-----------------------------------------------------------------------------
(* The only invariant there is: the input is one that was picked.          *)
Picked ==
    \/ input = [kind |-> "none"]
    \/ \E f \in RuleFiles : input = [kind |-> "rules", file |-> f]
    \/ \E f \in UserFiles : input = [kind |-> "user", file |-> f]
    \/ \E b \in Recordings : input = [kind |-> "blocks", blocks |-> b]
    \/ \E c \in Cuts :
         input = [kind |-> "cut", file |-> c.file, length |-> c.length]

(* A step picks an input and nothing changes it.                           *)
LEMMA InputPicked == Spec => []Picked
<1>1. Init => Picked
  BY DEF Init, Picked
<1>2. Picked /\ [Next]_input => Picked'
  <2> SUFFICES ASSUME Picked, [Next]_input PROVE Picked'
    OBVIOUS
  <2>1. CASE PickRuleFile
    BY <2>1 DEF PickRuleFile, Picked
  <2>2. CASE PickUserFile
    BY <2>2 DEF PickUserFile, Picked
  <2>3. CASE PickBlocks
    BY <2>3 DEF PickBlocks, Picked
  <2>4. CASE PickCut
    BY <2>4 DEF PickCut, Picked
  <2>5. CASE UNCHANGED input
    BY <2>5 DEF Picked
  <2> QED
    BY <2>1, <2>2, <2>3, <2>4, <2>5 DEF Next
<1> QED
  BY <1>1, <1>2, PTL DEF Spec

(* An input of the kind "rules" is one of RuleFiles.                       *)
LEMMA RuleFilePicked ==
  ASSUME Picked, input.kind = "rules"
  PROVE  input.file \in RuleFiles
<1>1. ASSUME NEW c, input = [kind |-> "cut", file |-> c.file, length |-> c.length]
      PROVE  FALSE
  BY <1>1
<1>2. ASSUME NEW b, input = [kind |-> "blocks", blocks |-> b]
      PROVE  FALSE
  BY <1>2
<1>3. ASSUME NEW f, input = [kind |-> "user", file |-> f]
      PROVE  FALSE
  BY <1>3
<1>4. input # [kind |-> "none"]
  OBVIOUS
<1>5. PICK f \in RuleFiles : input = [kind |-> "rules", file |-> f]
  BY <1>1, <1>2, <1>3, <1>4 DEF Picked
<1> QED
  BY <1>5

-----------------------------------------------------------------------------
(* RulesAgree.                                                             *)

(* Whose event and whose action a rule is can be told from the rule.       *)
LEMMA InfoModules ==
  ASSUME NEW rule, NEW id
  PROVE  /\ RuleInfo(rule, id).event.module = Text(Get(rule, "event"), "module")
         /\ RuleInfo(rule, id).action.module = Text(Get(rule, "action"), "module")
  BY DEF RuleInfo, Part

(* The core reads every rule, so that what it can read is complete.        *)
LEMMA CoreReadsAll ==
  ASSUME NEW file, GetRules(file, "main").ok
  PROVE  /\ Has(file, "ARRAY_", "rules")
         /\ \A i \in DOMAIN Entries(file, "rules") :
              LET rule == Entries(file, "rules")[i]
              IN  /\ CanRead(rule)
                  /\ \A m : CanTell(rule, m)
<1> DEFINE rules == Entries(file, "rules")
<1>1. /\ Has(file, "ARRAY_", "rules")
      /\ \A i \in DOMAIN rules : /\ CanTell(rules[i], "main")
                                 /\ Mine(rules[i], "main") => CanRead(rules[i])
  <2> HIDE DEF rules
  <2> QED
    BY DEF GetRules, rules
<1>2. \A i \in DOMAIN rules : CanRead(rules[i])
  BY <1>1 DEF Mine
<1>3. ASSUME NEW i \in DOMAIN rules, NEW m
      PROVE  CanTell(rules[i], m)
  <2>1. HasParts(rules[i])
    BY <1>1 DEF CanTell
  <2>2. /\ HasTexts(Get(rules[i], "event"), {"module"})
        /\ HasTexts(Get(rules[i], "action"), {"module"})
    BY <1>2 DEF CanRead, Readable, HasTexts
  <2> QED
    BY <2>1, <2>2 DEF CanTell
<1> QED
  BY <1>1, <1>2, <1>3

(* What OwnRulesRead says, of getRules.                                    *)
LEMMA OwnIsRead ==
  ASSUME NEW file, NEW name, Lists(file, "rules"), GetRules(file, name).ok
  PROVE  /\ Len(Entries(file, "rules")) \in Nat
         /\ ReadUpTo(Entries(file, "rules"), name, GetRules(file, name).rules,
                     Len(Entries(file, "rules")))
<1>1. Len(Entries(file, "rules")) \in Nat
  BY EntriesAreAList
<1>2. GetRules(file, name).rules = OwnRules(Entries(file, "rules"), name)
  BY DEF GetRules
<1> QED
  BY <1>1, <1>2, OwnRulesRead

Agreed(file, m) ==
    LET core == GetRules(file, "main").rules
        own == GetRules(file, m).rules
    IN  /\ GetRules(file, m).ok
        /\ {own[i] : i \in DOMAIN own} =
               {r \in {core[i] : i \in DOMAIN core} :
                    m \in {r.event.module, r.action.module}}

(* A module reads what the core can read, and of it the rules it raises or *)
(* serves.                                                                 *)
LEMMA ModulesAgree ==
  ASSUME NEW file, Lists(file, "rules"), NEW m \in Modules,
         GetRules(file, "main").ok
  PROVE  Agreed(file, m)
<1> DEFINE rules == Entries(file, "rules")
           n == Len(rules)
           core == GetRules(file, "main").rules
           own == GetRules(file, m).rules
           Info(i) == RuleInfo(rules[i], i - 1)
<1>1. GetRules(file, m).ok
  <2>1. \A i \in DOMAIN rules : CanTell(rules[i], m) /\ CanRead(rules[i])
    BY CoreReadsAll
  <2>2. Has(file, "ARRAY_", "rules")
    BY CoreReadsAll
  <2> HIDE DEF rules
  <2> QED
    BY <2>1, <2>2 DEF GetRules, rules
<1>2. /\ n \in Nat
      /\ ReadUpTo(rules, "main", core, n)
      /\ ReadUpTo(rules, m, own, n)
  BY <1>1, OwnIsRead
<1>3. DOMAIN core = 1..Len(core) /\ DOMAIN own = 1..Len(own)
  BY <1>2, LenProperties DEF ReadUpTo
<1>4. \A i : Mine(rules[i], m) <=> m \in {Info(i).event.module, Info(i).action.module}
  <2>1. m # "main"
    BY ModuleAssumption
  <2> QED
    BY <2>1, InfoModules DEF Mine
<1>5. \A i : Mine(rules[i], "main")
  BY DEF Mine
<1>6. ASSUME NEW r \in {own[i] : i \in DOMAIN own}
      PROVE  /\ r \in {core[i] : i \in DOMAIN core}
             /\ m \in {r.event.module, r.action.module}
  <2>1. PICK k \in 1..Len(own) : r = own[k]
    BY <1>3, <1>6
  <2>2. PICK i \in 1..n : Mine(rules[i], m) /\ own[k] = Info(i)
    BY <1>2 DEF ReadUpTo
  <2>3. \E l \in 1..Len(core) : core[l] = Info(i)
    BY <1>2, <1>5 DEF ReadUpTo
  <2> HIDE DEF Info, core, own, rules
  <2> QED
    BY <1>3, <1>4, <2>1, <2>2, <2>3
<1>7. ASSUME NEW r \in {core[i] : i \in DOMAIN core},
             m \in {r.event.module, r.action.module}
      PROVE  r \in {own[i] : i \in DOMAIN own}
  <2>1. PICK k \in 1..Len(core) : r = core[k]
    BY <1>3, <1>7
  <2>2. PICK i \in 1..n : core[k] = Info(i)
    BY <1>2 DEF ReadUpTo
  <2>3. Mine(rules[i], m)
    BY <1>4, <1>7, <2>1, <2>2
  <2>4. \E l \in 1..Len(own) : own[l] = Info(i)
    BY <1>2, <2>3 DEF ReadUpTo
  <2> HIDE DEF Info, core, own, rules
  <2> QED
    BY <1>3, <2>1, <2>2, <2>4
<1> HIDE DEF core, own
<1>8. {own[i] : i \in DOMAIN own} =
        {r \in {core[i] : i \in DOMAIN core} : m \in {r.event.module, r.action.module}}
  BY <1>6, <1>7
<1> QED
  BY <1>1, <1>8 DEF Agreed, core, own

(* RulesAgree (configloader.cpp:158): whatever list of rules rules.conf    *)
(* holds, every module reads the rules that the core reads of it, with the *)
(* same ids and in the same order, and none exits over a file that the     *)
(* core can read.                                                          *)
THEOREM RulesAlwaysAgree == Spec => []RulesAgree
<1>1. Picked => RulesAgree
  <2> SUFFICES ASSUME Picked, input.kind = "rules",
                      GetRules(input.file, "main").ok
               PROVE  LET Own(m) == GetRules(input.file, m)
                          Rules(read) == {read.rules[i] : i \in DOMAIN read.rules}
                          InOrder(read) == \A i, j \in DOMAIN read.rules :
                                i < j => read.rules[i].id < read.rules[j].id
                      IN  /\ InOrder(Own("main"))
                          /\ \A m \in Modules :
                               /\ Own(m).ok
                               /\ InOrder(Own(m))
                               /\ Rules(Own(m)) = {r \in Rules(Own("main")) :
                                      m \in {r.event.module, r.action.module}}
    BY DEF RulesAgree
  <2>1. Lists(input.file, "rules")
    BY RuleFilePicked, RuleAssumption
  <2>2. ASSUME NEW m, GetRules(input.file, m).ok
        PROVE  \A i, j \in DOMAIN GetRules(input.file, m).rules :
                  i < j => GetRules(input.file, m).rules[i].id
                             < GetRules(input.file, m).rules[j].id
    <3> DEFINE own == GetRules(input.file, m).rules
    <3>1. ReadUpTo(Entries(input.file, "rules"), m, own,
                   Len(Entries(input.file, "rules")))
      BY <2>1, <2>2, OwnIsRead
    <3>2. DOMAIN own = 1..Len(own)
      BY <3>1, LenProperties DEF ReadUpTo
    <3> HIDE DEF own
    <3>3. \A i, j \in DOMAIN own : i < j => own[i].id < own[j].id
      BY <3>1, <3>2 DEF ReadUpTo
    <3> QED
      BY <3>3 DEF own
  <2>3. \A m \in Modules : Agreed(input.file, m)
    BY <2>1, ModulesAgree
  <2> QED
    BY <2>2, <2>3 DEF Agreed
<1> QED
  BY <1>1, InputPicked, PTL

-----------------------------------------------------------------------------
(* DefaultsSuffice.                                                        *)

Acceptable(map) == \A k \in DOMAIN map : map[k] \in Accepts(k) \union {""}

(* What config holds after n entries of the .info file.                    *)
Filled(entries, config, n) ==
    /\ config.ok = TRUE
    /\ Acceptable(config.map)
    /\ \A i \in 1..n : LET k == Text(entries[i], "key")
                       IN  k \in DOMAIN config.map /\ config.map[k] \in Accepts(k)

(* One more entry of the .info file: its key has a value that is accepted. *)
LEMMA FillOneMore ==
  ASSUME NEW entries, NEW n \in Nat \ {0}, NEW config,
         config = [ok |-> config.ok, map |-> config.map],
         Filled(entries, config, n - 1),
         HasTexts(entries[n], {"key", "default"}),
         Text(entries[n], "default") \in Accepts(Text(entries[n], "key"))
  PROVE  Filled(entries, Defaulted(config, entries[n]), n)
<1> DEFINE e == entries[n]
           key == Text(e, "key")
           value == Text(e, "default")
<1>1. \A i \in 1..n : i = n \/ i \in 1..n - 1
  OBVIOUS
<1>2. HasTexts(e, {"key"}) /\ HasTexts(e, {"default"})
  BY DEF HasTexts
<1>3. CASE Lacks(config.map, key)
  <2> DEFINE new == [config EXCEPT !.map = Assigned(@, key, value)]
  <2>1. Defaulted(config, e) = new
    BY <1>2, <1>3 DEF Defaulted, Filled
  <2>2. new.ok = TRUE /\ new.map = Assigned(config.map, key, value)
    <3> HIDE DEF key, value
    <3> QED
      BY DEF Filled
  <2>3. /\ DOMAIN new.map = DOMAIN config.map \union {key} /\ new.map[key] = value
        /\ \A k \in DOMAIN config.map : k # key => new.map[k] = config.map[k]
    <3> HIDE DEF new, key, value
    <3>1. new.map = Assigned(config.map, key, value)
      BY <2>2
    <3> QED
      BY <3>1 DEF Assigned
  <2>4. value \in Accepts(key)
    OBVIOUS
  <2> HIDE DEF new, key, value
  <2>5. Acceptable(new.map)
    BY <2>3, <2>4 DEF Filled, Acceptable
  <2>6. ASSUME NEW i \in 1..n
        PROVE  /\ Text(entries[i], "key") \in DOMAIN new.map
               /\ new.map[Text(entries[i], "key")] \in Accepts(Text(entries[i], "key"))
    <3>1. CASE Text(entries[i], "key") = key
      BY <2>3, <2>4, <3>1
    <3>2. CASE Text(entries[i], "key") # key
      <4>1. i \in 1..n - 1
        BY <1>1, <3>2 DEF key, e
      <4> QED
        BY <2>3, <3>2, <4>1 DEF Filled
    <3> QED
      BY <3>1, <3>2
  <2> QED
    BY <2>1, <2>2, <2>5, <2>6 DEF Filled, e
<1>4. CASE ~Lacks(config.map, key)
  <2>1. Defaulted(config, e) = config
    BY <1>2, <1>4 DEF Defaulted, Filled
  <2>2. key \in DOMAIN config.map /\ config.map[key] \in Accepts(key)
    BY <1>4 DEF Lacks, Filled, Acceptable
  <2> QED
    BY <1>1, <2>1, <2>2 DEF Filled
<1> QED
  BY <1>3, <1>4

(* getConfig has gone through the whole .info file at its end.             *)
LEMMA ConfigFilled ==
  ASSUME NEW user,
         \A i \in DOMAIN Entries(user, "configuration") :
            HasTexts(Entries(user, "configuration")[i], {"key", "value"}),
         Acceptable(Stated(user))
  PROVE  Filled(Entries(InfoFile, "configuration"), GetConfig(user, InfoFile),
                Len(Entries(InfoFile, "configuration")))
<1> DEFINE defaults == Entries(InfoFile, "configuration")
           n == Len(defaults)
           stated == Stated(user)
           Key(i) == Text(defaults[i], "key")
           K == DOMAIN stated \union {Key(i) : i \in 1..n}
           V == {stated[k] : k \in DOMAIN stated}
                  \union {Text(defaults[i], "default") : i \in 1..n}
           Maps == {stated, NoMap} \union UNION {[D -> V] : D \in SUBSET K}
           S == [ok : BOOLEAN, map : Maps]
           base == [ok |-> TRUE, map |-> stated]
           start == IF \A j \in DOMAIN Entries(user, "configuration") :
                         HasTexts(Entries(user, "configuration")[j],
                                  {"key", "value"})
                    THEN base ELSE NoConfig
           Step(i, c) == Defaulted(c, defaults[i])
           step == [i \in 1..n |-> [c \in S |-> Step(i, c)]]
           Loop(f) == f = [i \in 0..n |-> IF i > 0 THEN Step(i, f[i - 1])
                                          ELSE start]
           config == CHOOSE f : Loop(f)
<1>1. n \in Nat /\ DOMAIN defaults = 1..n
  BY InfoAssumption, EntriesAreAList
<1>2. start = base
  OBVIOUS
<1>3. ASSUME NEW map \in Maps, NEW i \in 1..n
      PROVE  Assigned(map, Key(i), Text(defaults[i], "default")) \in Maps
  <2> DEFINE value == Text(defaults[i], "default")
             new == Assigned(map, Key(i), value)
  <2>1. DOMAIN map \subseteq K /\ \A k \in DOMAIN map : map[k] \in V
    <3>1. CASE map = stated
      BY <3>1
    <3>2. CASE map = NoMap
      BY <3>2 DEF NoMap
    <3>3. CASE map # stated /\ map # NoMap
      <4> HIDE DEF K, V, stated
      <4> QED
        BY <3>3
    <3> QED
      BY <3>1, <3>2, <3>3
  <2>2. Key(i) \in K /\ value \in V
    OBVIOUS
  <2> HIDE DEF K, V, stated, value, Key
  <2>3. new \in [DOMAIN map \union {Key(i)} -> V]
    BY <2>1, <2>2 DEF Assigned
  <2>4. DOMAIN map \union {Key(i)} \in SUBSET K
    BY <2>1, <2>2
  <2> HIDE DEF new
  <2>5. new \in Maps
    BY <2>3, <2>4
  <2> QED
    BY <2>5 DEF new, value
<1>4. step \in [1..n -> [S -> S]]
  <2>1. ASSUME NEW i \in 1..n, NEW c \in S PROVE Step(i, c) \in S
    <3>1. NoConfig \in S
      BY DEF NoConfig
    <3>2. [c EXCEPT !.map = Assigned(@, Key(i), Text(defaults[i], "default"))] \in S
      <4>1. Assigned(c.map, Key(i), Text(defaults[i], "default")) \in Maps
        BY <1>3
      <4> HIDE DEF Maps, Key, defaults
      <4> QED
        BY <4>1
    <3> HIDE DEF S, defaults
    <3> QED
      BY <3>1, <3>2 DEF Defaulted
  <2> HIDE DEF Step, S
  <2> QED
    BY <2>1
<1>5. \E f : Loop(f)
  <2>1. start \in S
    BY <1>2
  <2>2. PICK f : Ran(f, S, start, n, step)
    <3> HIDE DEF S, step, n, start
    <3> QED
      BY <1>1, <1>4, <2>1, LoopExists, Zenon
  <2>3. \A i \in 1..n : f[i] = Step(i, f[i - 1])
    <3> HIDE DEF S, Step
    <3> QED
      BY <2>2 DEF Ran
  <2>4. Loop(f)
    <3>1. \A i \in 0..n : (i = 0 /\ ~(i > 0)) \/ (i > 0 /\ i \in 1..n)
      BY <1>1
    <3> HIDE DEF step, S, n, Step, start
    <3> QED
      BY <2>2, <2>3, <3>1 DEF Ran
  <2> QED
    BY <2>4
<1>6. Loop(config)
  BY <1>5
<1>7. GetConfig(user, InfoFile) = config[n]
  BY DEF GetConfig
<1> HIDE DEF config
<1>8. config[0] = base
  BY <1>1, <1>2, <1>6
<1>9. \A i \in 1..n : config[i] = Step(i, config[i - 1])
  <2>1. \A i \in 1..n : i \in 0..n /\ i > 0
    BY <1>1
  <2> HIDE DEF n, Step, start
  <2> QED
    BY <1>6, <2>1
<1> DEFINE T == {i \in 0..n : /\ config[i] = [ok |-> config[i].ok, map |-> config[i].map]
                              /\ Filled(defaults, config[i], i)}
<1>10. 0 \in T
  <2>1. base = [ok |-> base.ok, map |-> base.map]
    OBVIOUS
  <2>2. Filled(defaults, base, 0)
    BY DEF Filled
  <2> HIDE DEF base
  <2> QED
    BY <1>1, <1>8, <2>1, <2>2
<1>11. ASSUME NEW i \in 1..n, i - 1 \in T
       PROVE  i \in T
  <2>1. /\ config[i - 1] = [ok |-> config[i - 1].ok, map |-> config[i - 1].map]
        /\ Filled(defaults, config[i - 1], i - 1)
    BY <1>11
  <2>2. /\ HasTexts(defaults[i], {"key", "default"})
        /\ Text(defaults[i], "default") \in Accepts(Text(defaults[i], "key"))
    BY <1>1, InfoAssumption
  <2>3. i \in Nat \ {0}
    BY <1>1
  <2>4. config[i] = Defaulted(config[i - 1], defaults[i])
    BY <1>9
  <2> DEFINE old == config[i - 1]
             new == config[i]
  <2> HIDE DEF defaults, old, new
  <2>5. Filled(defaults, new, i)
    BY <2>1, <2>2, <2>3, <2>4, FillOneMore DEF old, new
  <2>6. new = [ok |-> new.ok, map |-> new.map]
    <3>1. new = Defaulted(old, defaults[i]) /\ old = [ok |-> old.ok, map |-> old.map]
      BY <2>1, <2>4 DEF old, new
    <3> QED
      BY <3>1 DEF Defaulted, NoConfig
  <2> QED
    BY <2>5, <2>6 DEF new
<1>12. n \in T
  <2> HIDE DEF T
  <2>1. \A i \in 1..n : i - 1 \in T => i \in T
    BY <1>11
  <2>2. \A i \in 0..n : i \in T
    BY <1>1, <1>10, <2>1, Induction, Zenon
  <2> QED
    BY <1>1, <2>2
<1> QED
  BY <1>7, <1>12

(* With an accepted value for every key the video module runs.             *)
LEMMA FilledRuns ==
  ASSUME NEW config, config.ok = TRUE,
         \A k \in VideoKeys : k \in DOMAIN config.map /\ config.map[k] \in Accepts(k)
  PROVE  Configure(config) = "running"
<1> DEFINE map == config.map
<1>1. \A k \in RateKeys \union DetectorKeys \union {"processing_rate"} : Converts(map, k)
  <2>1. \A k \in RateKeys \union DetectorKeys \union {"processing_rate"} :
          k \in VideoKeys /\ Accepts(k) = Convertible
    BY DEF VideoKeys, Accepts, RateKeys, DetectorKeys
  <2> QED
    BY <2>1 DEF Converts
<1>2. "video" \in DOMAIN map /\ Device(map["video"]) = "opened"
  <2>1. "video" \in VideoKeys
    BY DEF VideoKeys
  <2>2. map["video"] \in (Digits \intersect Convertible) \union Urls
    BY <2>1 DEF Accepts
  <2> QED
    BY <2>1, <2>2, TextAssumption DEF Device
<1>3. /\ "backgroundsubtractor_type" \in DOMAIN map
      /\ map["backgroundsubtractor_type"] \in {"1", "2"}
  BY DEF VideoKeys, Accepts
<1>4. /\ "backgroundsubtractor_shadow" \in DOMAIN map
      /\ Converts(map, "backgroundsubtractor_threshold")
  BY DEF VideoKeys, Accepts, Converts
<1>5. Detector(map) = "running"
  BY <1>3, <1>4 DEF Detector
<1> QED
  BY <1>1, <1>2, <1>3, <1>5 DEF Configure

(* DefaultsSuffice (configloader.cpp:59, engine.cpp:258): whatever a       *)
(* user's file says, the video module starts when what it says is on offer *)
(* or blank, for every .info file with a default on offer for every        *)
(* setting.                                                                *)
THEOREM DefaultsAlwaysSuffice == Spec => []DefaultsSuffice
<1>1. Picked => DefaultsSuffice
  <2> DEFINE user == input.file
             entries == Entries(user, "configuration")
             info == Entries(InfoFile, "configuration")
  <2> SUFFICES ASSUME Picked, input.kind = "user",
                      \A i \in DOMAIN entries : HasTexts(entries[i], {"key", "value"}),
                      Acceptable(Stated(user))
               PROVE  Configure(GetConfig(user, InfoFile)) = "running"
    BY DEF DefaultsSuffice, Acceptable
  <2>1. Filled(info, GetConfig(user, InfoFile), Len(info))
    BY ConfigFilled
  <2>2. DOMAIN info = 1..Len(info)
    BY InfoAssumption, EntriesAreAList
  <2>3. \A k \in VideoKeys : \E i \in DOMAIN info : Text(info[i], "key") = k
    BY InfoAssumption
  <2> QED
    BY <2>1, <2>2, <2>3, FilledRuns DEF Filled
<1> QED
  BY <1>1, InputPicked, PTL

-----------------------------------------------------------------------------
(* Sequences and their elements.                                           *)

Elems(seq) == {seq[k] : k \in 1..Len(seq)}

(* RemoveAt of module SequencesExt, element by element.                    *)
LEMMA RemoveAtProperties ==
  ASSUME NEW S, NEW s \in Seq(S), NEW i \in 1..Len(s)
  PROVE  /\ RemoveAt(s, i) \in Seq(S)
         /\ Len(RemoveAt(s, i)) = Len(s) - 1
         /\ \A k \in 1..Len(s) - 1 :
              RemoveAt(s, i)[k] = IF k < i THEN s[k] ELSE s[k + 1]
<1> DEFINE a == SubSeq(s, 1, i - 1)
           b == SubSeq(s, i + 1, Len(s))
<1>1. Len(s) \in Nat /\ \A k \in 1..Len(s) : s[k] \in S
  BY LenProperties
<1>2. /\ a \in Seq(S)
      /\ Len(a) = i - 1
      /\ \A k \in 1..i - 1 : a[k] = s[k]
  <2>1. \A k \in 1..i - 1 : s[k] \in S
    BY <1>1
  <2>2. 1 \in Int /\ i - 1 \in Int
    OBVIOUS
  <2> QED
    BY <2>1, <2>2, SubSeqProperties
<1>3. /\ b \in Seq(S)
      /\ Len(b) = Len(s) - i
      /\ \A k \in 1..Len(s) - i : b[k] = s[k + i]
  <2>1. \A k \in i + 1..Len(s) : s[k] \in S
    BY <1>1
  <2>2. i + 1 \in Int /\ Len(s) \in Int
    BY <1>1
  <2>3. /\ b \in Seq(S)
        /\ Len(b) = IF i + 1 <= Len(s) THEN Len(s) - (i + 1) + 1 ELSE 0
        /\ \A k \in 1..Len(s) - (i + 1) + 1 : b[k] = s[(i + 1) + k - 1]
    BY <2>1, <2>2, SubSeqProperties
  <2>4. \A k \in 1..Len(s) - i : (i + 1) + k - 1 = k + i
    OBVIOUS
  <2> HIDE DEF b
  <2> QED
    BY <1>1, <2>3, <2>4
<1>4. RemoveAt(s, i) = a \o b
  BY DEF RemoveAt
<1> HIDE DEF a, b
<1>5. /\ a \o b \in Seq(S)
      /\ Len(a \o b) = Len(s) - 1
      /\ \A k \in 1..Len(s) - 1 :
           (a \o b)[k] = IF k <= i - 1 THEN a[k] ELSE b[k - (i - 1)]
  <2>1. /\ a \o b \in Seq(S)
        /\ Len(a \o b) = Len(a) + Len(b)
        /\ \A k \in 1..Len(a) + Len(b) :
             (a \o b)[k] = IF k <= Len(a) THEN a[k] ELSE b[k - Len(a)]
    BY <1>2, <1>3, ConcatProperties, Zenon
  <2>2. Len(a) + Len(b) = Len(s) - 1
    BY <1>1, <1>2, <1>3
  <2> QED
    BY <1>2, <2>1, <2>2
<1>6. ASSUME NEW k \in 1..Len(s) - 1
      PROVE  (a \o b)[k] = IF k < i THEN s[k] ELSE s[k + 1]
  <2>1. CASE k < i
    <3>1. k <= i - 1 /\ k \in 1..i - 1
      BY <2>1
    <3> QED
      BY <1>2, <1>5, <2>1, <3>1
  <2>2. CASE ~(k < i)
    <3>1. ~(k <= i - 1) /\ k - (i - 1) \in 1..Len(s) - i
      BY <1>1, <2>2
    <3>2. (k - (i - 1)) + i = k + 1
      OBVIOUS
    <3>3. b[k - (i - 1)] = s[k + 1]
      BY <1>3, <3>1, <3>2
    <3> QED
      BY <1>5, <2>2, <3>1, <3>3
  <2> QED
    BY <2>1, <2>2
<1> QED
  BY <1>4, <1>5, <1>6

(* Front and Last of module SequencesExt.                                  *)
LEMMA FrontProperties ==
  ASSUME NEW S, NEW s \in Seq(S), s # <<>>
  PROVE  /\ Front(s) \in Seq(S)
         /\ Len(s) \in Nat \ {0}
         /\ Len(Front(s)) = Len(s) - 1
         /\ Last(s) \in S
         /\ Elems(s) = Elems(Front(s)) \union {Last(s)}
<1>1. Len(s) \in Nat \ {0} /\ \A k \in 1..Len(s) : s[k] \in S
  BY EmptySeq, LenProperties
<1>2. \A k \in 1..Len(s) - 1 : s[k] \in S
  BY <1>1
<1>3. 1 \in Int /\ Len(s) - 1 \in Int
  BY <1>1
<1>4. /\ Front(s) \in Seq(S)
      /\ Len(Front(s)) = IF 1 <= Len(s) - 1 THEN (Len(s) - 1) - 1 + 1 ELSE 0
      /\ \A k \in 1..(Len(s) - 1) - 1 + 1 : Front(s)[k] = s[1 + k - 1]
  BY <1>2, <1>3, SubSeqProperties DEF Front
<1>5. Len(Front(s)) = Len(s) - 1
  <2> DEFINE m == Len(s)
             f == Len(Front(s))
  <2>1. m \in Nat /\ m >= 1 /\ f = IF 1 <= m - 1 THEN (m - 1) - 1 + 1 ELSE 0
    BY <1>1, <1>4
  <2> HIDE DEF m, f
  <2>2. f = m - 1
    BY <2>1
  <2> QED
    BY <2>2 DEF m, f
<1>6. \A k \in 1..Len(s) - 1 : Front(s)[k] = s[k]
  <2>1. \A k \in 1..Len(s) - 1 : 1 + k - 1 = k /\ k \in 1..(Len(s) - 1) - 1 + 1
    BY <1>1
  <2> QED
    BY <1>4, <2>1
<1>7. Last(s) = s[Len(s)]
  BY DEF Last
<1>8. Elems(s) = Elems(Front(s)) \union {Last(s)}
  <2>1. \A k \in 1..Len(s) : k = Len(s) \/ k \in 1..Len(s) - 1
    BY <1>1
  <2>2. \A k \in 1..Len(s) - 1 : k \in 1..Len(s)
    BY <1>1
  <2>3. Len(s) \in 1..Len(s)
    BY <1>1
  <2> QED
    BY <1>5, <1>6, <1>7, <2>1, <2>2, <2>3 DEF Elems
<1> QED
  BY <1>1, <1>4, <1>5, <1>7, <1>8

(* The elements after an Append.                                           *)
LEMMA AppendElems ==
  ASSUME NEW S, NEW s \in Seq(S), NEW x \in S
  PROVE  Elems(Append(s, x)) = Elems(s) \union {x}
<1> DEFINE t == Append(s, x)
<1>1. /\ Len(s) \in Nat
      /\ Len(t) = Len(s) + 1
      /\ \A k \in 1..Len(s) : t[k] = s[k]
      /\ t[Len(s) + 1] = x
  BY AppendProperties, LenProperties
<1>2. \A k \in 1..Len(t) : k = Len(s) + 1 \/ k \in 1..Len(s)
  BY <1>1
<1>3. \A k \in 1..Len(s) : k \in 1..Len(t)
  BY <1>1
<1>4. Len(s) + 1 \in 1..Len(t)
  BY <1>1
<1> HIDE DEF t
<1>5. Elems(t) = Elems(s) \union {x}
  BY <1>1, <1>2, <1>3, <1>4 DEF Elems
<1> QED
  BY <1>5 DEF t

-----------------------------------------------------------------------------
(* The scan.                                                               *)

OwnIds(rules) == \A x, y \in rules : x.id = y.id => x = y

(* What is left, and what was taken out with which actions, when the scan  *)
(* for rule r has looked at n of the rules.                                *)
ScannedTo(r, rules, S, w, n) ==
    /\ w = [rules |-> w.rules, i |-> w.i, actions |-> w.actions]
    /\ w.rules \in Seq(S)
    /\ w.i \in 1..Len(w.rules) + 1
    /\ (Len(w.rules) + 1) - w.i = Len(rules) - n
    /\ Len(w.rules) <= Len(rules)
    /\ Elems(w.rules) \subseteq Elems(rules)
    /\ \A k \in 1..w.i - 1 : ~SameEvent(r, w.rules[k])
    /\ \A x \in Elems(rules) :
         x \in Elems(w.rules) \/ (SameEvent(r, x) /\ x.id \in DOMAIN w.actions)
    /\ r.id \in DOMAIN w.actions
    /\ \A id \in DOMAIN w.actions :
         \E x \in Elems(rules) \union {r} :
            SameEvent(r, x) /\ x.id = id /\ w.actions[id] = x.action

(* The scan looks at one more rule: it takes it out with its action, or    *)
(* goes past it.                                                           *)
LEMMA ScanOneMore ==
  ASSUME NEW S, NEW rules \in Seq(S), NEW r, NEW n \in Nat, n < Len(rules), NEW w,
         ScannedTo(r, rules, S, w, n)
  PROVE  ScannedTo(r, rules, S, Look(r, w), n + 1)
<1> DEFINE q == w.rules[w.i]
           v == Look(r, w)
<1>1. Len(rules) \in Nat /\ Len(w.rules) \in Nat /\ w.i \in Nat
  BY LenProperties DEF ScannedTo
<1>2. w.i \in 1..Len(w.rules) /\ ~(w.i > Len(w.rules))
  BY <1>1 DEF ScannedTo
<1>3. q \in Elems(w.rules) /\ q \in Elems(rules)
  <2>1. q \in Elems(w.rules)
    BY <1>2 DEF Elems
  <2>2. Elems(w.rules) \subseteq Elems(rules)
    BY DEF ScannedTo
  <2> HIDE DEF q
  <2> QED
    BY <2>1, <2>2
<1>4. CASE SameEvent(r, q)
  <2> DEFINE left == RemoveAt(w.rules, w.i)
  <2>1. v = [rules |-> left, i |-> w.i,
             actions |-> Assigned(w.actions, q.id, q.action)]
    BY <1>2, <1>4 DEF Look
  <2>2. /\ left \in Seq(S)
        /\ Len(left) = Len(w.rules) - 1
        /\ \A k \in 1..Len(w.rules) - 1 :
             left[k] = IF k < w.i THEN w.rules[k] ELSE w.rules[k + 1]
    BY <1>2, RemoveAtProperties DEF ScannedTo
  <2>3. /\ DOMAIN v.actions = DOMAIN w.actions \union {q.id}
        /\ v.actions[q.id] = q.action
        /\ \A id \in DOMAIN w.actions : id # q.id => v.actions[id] = w.actions[id]
    <3>1. v.actions = Assigned(w.actions, q.id, q.action)
      BY <2>1
    <3> HIDE DEF v, q
    <3> QED
      BY <3>1 DEF Assigned
  <2>4. v.rules = left /\ v.i = w.i
    BY <2>1
  <2>5. v = [rules |-> v.rules, i |-> v.i, actions |-> v.actions]
    BY <2>1
  <2> HIDE DEF v, left
  <2>6. /\ v.rules \in Seq(S)
        /\ v.i \in 1..Len(v.rules) + 1
        /\ (Len(v.rules) + 1) - v.i = Len(rules) - (n + 1)
        /\ Len(v.rules) <= Len(rules)
    <3>1. /\ (Len(w.rules) + 1) - w.i = Len(rules) - n
          /\ Len(w.rules) <= Len(rules)
      BY DEF ScannedTo
    <3>2. Len(left) = Len(w.rules) - 1 /\ left \in Seq(S)
      BY <2>2
    <3>3. /\ w.i \in 1..Len(left) + 1
          /\ (Len(left) + 1) - w.i = Len(rules) - (n + 1)
          /\ Len(left) <= Len(rules)
      <4> DEFINE a == Len(w.rules)
                 b == Len(rules)
                 c == Len(left)
                 d == w.i
      <4>1. /\ a \in Nat /\ b \in Nat /\ d \in 1..a /\ c = a - 1
            /\ (a + 1) - d = b - n /\ a <= b
        BY <1>1, <1>2, <3>1, <3>2
      <4> HIDE DEF a, b, c, d
      <4>2. /\ d \in 1..c + 1
            /\ (c + 1) - d = b - (n + 1)
            /\ c <= b
        BY <4>1
      <4> QED
        BY <4>2 DEF a, b, c, d
    <3> QED
      BY <2>4, <3>2, <3>3
  <2>7. Elems(left) \subseteq Elems(w.rules)
    <3>1. \A k \in 1..Len(w.rules) - 1 : k \in 1..Len(w.rules) /\ k + 1 \in 1..Len(w.rules)
      BY <1>1
    <3> QED
      BY <2>2, <3>1 DEF Elems
  <2>8. \A k \in 1..v.i - 1 : ~SameEvent(r, v.rules[k])
    <3>1. \A k \in 1..w.i - 1 : k \in 1..Len(w.rules) - 1 /\ k < w.i
      BY <1>1, <1>2
    <3> QED
      BY <2>2, <2>4, <3>1 DEF ScannedTo
  <2>9. \A x \in Elems(w.rules) : x \in Elems(left) \/ x = q
    <3> SUFFICES ASSUME NEW x \in Elems(w.rules) PROVE x \in Elems(left) \/ x = q
      OBVIOUS
    <3>1. PICK k \in 1..Len(w.rules) : x = w.rules[k]
      BY DEF Elems
    <3>2. CASE k < w.i
      <4>1. k \in 1..Len(left) /\ left[k] = x
        BY <1>1, <1>2, <2>2, <3>1, <3>2
      <4> QED
        BY <4>1 DEF Elems
    <3>3. CASE k > w.i
      <4>1. k - 1 \in 1..Len(w.rules) - 1 /\ ~(k - 1 < w.i) /\ (k - 1) + 1 = k
        BY <1>1, <1>2, <3>3
      <4>2. k - 1 \in 1..Len(left) /\ left[k - 1] = x
        BY <2>2, <3>1, <4>1
      <4> QED
        BY <4>2 DEF Elems
    <3>4. CASE k = w.i
      BY <3>1, <3>4
    <3> QED
      BY <1>1, <3>2, <3>3, <3>4
  <2> HIDE DEF q
  <2>10. Elems(v.rules) \subseteq Elems(rules)
    BY <2>4, <2>7 DEF ScannedTo
  <2>11. \A x \in Elems(rules) :
           x \in Elems(v.rules) \/ (SameEvent(r, x) /\ x.id \in DOMAIN v.actions)
    BY <1>4, <2>3, <2>4, <2>9 DEF ScannedTo
  <2>12. r.id \in DOMAIN v.actions
    BY <2>3 DEF ScannedTo
  <2>13. \A id \in DOMAIN v.actions :
           \E x \in Elems(rules) \union {r} :
              SameEvent(r, x) /\ x.id = id /\ v.actions[id] = x.action
    BY <1>3, <1>4, <2>3 DEF ScannedTo
  <2> QED
    BY <2>5, <2>6, <2>8, <2>10, <2>11, <2>12, <2>13 DEF ScannedTo, v
<1>5. CASE ~SameEvent(r, q)
  <2>1. v = [w EXCEPT !.i = @ + 1]
    BY <1>2, <1>5 DEF Look
  <2>2. /\ v = [rules |-> v.rules, i |-> v.i, actions |-> v.actions]
        /\ v.rules = w.rules
        /\ v.i = w.i + 1
        /\ v.actions = w.actions
    BY <2>1 DEF ScannedTo
  <2> HIDE DEF v
  <2>3. /\ v.i \in 1..Len(v.rules) + 1
        /\ (Len(v.rules) + 1) - v.i = Len(rules) - (n + 1)
    BY <1>1, <1>2, <2>2 DEF ScannedTo
  <2>4. \A k \in 1..v.i - 1 : ~SameEvent(r, v.rules[k])
    <3>1. \A k \in 1..v.i - 1 : k = w.i \/ k \in 1..w.i - 1
      BY <1>1, <2>2
    <3> QED
      BY <1>5, <2>2, <3>1 DEF ScannedTo
  <2> HIDE DEF q
  <2>5. ScannedTo(r, rules, S, v, n + 1)
    BY <2>2, <2>3, <2>4 DEF ScannedTo
  <2> QED
    BY <2>5 DEF v
<1> QED
  BY <1>4, <1>5

(* Maps from the ids of rules in S to their actions.                       *)
Actions(S) == UNION {[D -> {x.action : x \in S}] : D \in SUBSET {x.id : x \in S}}

(* A map of actions stays one when a rule's action is added.               *)
LEMMA AssignedAction ==
  ASSUME NEW S, NEW map \in Actions(S), NEW x \in S
  PROVE  Assigned(map, x.id, x.action) \in Actions(S)
<1> DEFINE K == {y.id : y \in S}
           V == {y.action : y \in S}
           new == Assigned(map, x.id, x.action)
<1>1. PICK D \in SUBSET K : map \in [D -> V]
  BY DEF Actions
<1>2. x.id \in K /\ x.action \in V
  OBVIOUS
<1> HIDE DEF K, V
<1>3. new \in [D \union {x.id} -> V]
  BY <1>1, <1>2 DEF Assigned
<1>4. D \union {x.id} \in SUBSET K
  BY <1>1, <1>2
<1> HIDE DEF new
<1>5. new \in UNION {[E -> V] : E \in SUBSET K}
  BY <1>3, <1>4
<1> QED
  BY <1>5 DEF Actions, K, V, new

(* The empty map is one.                                                   *)
LEMMA NoActions ==
  ASSUME NEW S
  PROVE  NoMap \in Actions(S)
<1> DEFINE K == {y.id : y \in S}
           V == {y.action : y \in S}
<1> HIDE DEF K, V
<1>1. NoMap \in [{} -> V] /\ {} \in SUBSET K
  BY DEF NoMap
<1>2. NoMap \in UNION {[E -> V] : E \in SUBSET K}
  BY <1>1
<1> QED
  BY <1>2 DEF Actions, K, V

(* What a scan leaves is what watches for something else, and what it takes*)
(* out goes with its actions.                                              *)
LEMMA Scanned ==
  ASSUME NEW S, NEW rules \in Seq(S), NEW r \in S, NEW w, w = Scan(r, rules)
  PROVE  /\ w.rules \in Seq(S)
         /\ Len(w.rules) <= Len(rules)
         /\ w.actions \in Actions(S)
         /\ Elems(w.rules) = {x \in Elems(rules) : ~SameEvent(r, x)}
         /\ \A x \in Elems(rules) \union {r} :
              SameEvent(r, x) => x.id \in DOMAIN w.actions
         /\ \A id \in DOMAIN w.actions :
              \E x \in Elems(rules) \union {r} :
                 SameEvent(r, x) /\ x.id = id /\ w.actions[id] = x.action
<1> DEFINE n == Len(rules)
           States == [rules : Seq(S), i : Nat \ {0}, actions : Actions(S)]
           base == [rules |-> rules, i |-> 1,
                    actions |-> Assigned(NoMap, r.id, r.action)]
           step == [k \in 1..n |-> [s \in States |-> Look(r, s)]]
           Loop(f) == f = [k \in 0..n |-> IF k > 0 THEN Look(r, f[k - 1]) ELSE base]
           loop == CHOOSE f : Loop(f)
<1>1. n \in Nat
  BY LenProperties
<1>2. base \in States
  <2>1. base.actions \in Actions(S)
    BY NoActions, AssignedAction
  <2> QED
    BY <2>1
<1>3. ASSUME NEW s \in States PROVE Look(r, s) \in States
  <2>1. s.rules \in Seq(S) /\ Len(s.rules) \in Nat /\ s.i \in Nat \ {0} /\ s.actions \in Actions(S)
    BY LenProperties
  <2>2. CASE s.i > Len(s.rules)
    BY <2>2 DEF Look
  <2>3. CASE ~(s.i > Len(s.rules)) /\ SameEvent(r, s.rules[s.i])
    <3>1. s.i \in 1..Len(s.rules)
      BY <2>1, <2>3
    <3>2. s.rules[s.i] \in S /\ RemoveAt(s.rules, s.i) \in Seq(S)
      BY <2>1, <3>1, RemoveAtProperties, LenProperties
    <3>3. Assigned(s.actions, s.rules[s.i].id, s.rules[s.i].action) \in Actions(S)
      BY <2>1, <3>2, AssignedAction
    <3> QED
      BY <2>1, <2>3, <3>2, <3>3 DEF Look
  <2>4. CASE ~(s.i > Len(s.rules)) /\ ~SameEvent(r, s.rules[s.i])
    <3>1. Look(r, s) = [s EXCEPT !.i = @ + 1]
      BY <2>4 DEF Look
    <3>2. s.i + 1 \in Nat \ {0}
      BY <2>1
    <3> QED
      BY <3>1, <3>2
  <2> QED
    BY <2>2, <2>3, <2>4
<1>4. step \in [1..n -> [States -> States]]
  <2> HIDE DEF States
  <2> QED
    BY <1>3
<1>5. \E f : Loop(f)
  <2>1. PICK f : Ran(f, States, base, n, step)
    <3> HIDE DEF States, step, n, base
    <3> QED
      BY <1>1, <1>2, <1>4, LoopExists, Zenon
  <2>2. \A k \in 1..n : f[k] = Look(r, f[k - 1])
    <3> HIDE DEF States
    <3> QED
      BY <2>1 DEF Ran
  <2>3. \A k \in 0..n : (k = 0 /\ ~(k > 0)) \/ (k > 0 /\ k \in 1..n)
    BY <1>1
  <2>4. Loop(f)
    <3> HIDE DEF step, States, n, base
    <3> QED
      BY <2>1, <2>2, <2>3 DEF Ran
  <2> QED
    BY <2>4
<1>6. Loop(loop)
  BY <1>5
<1>7. Scan(r, rules) = loop[n]
  BY DEF Scan
<1> HIDE DEF loop
<1>8. loop[0] = base
  BY <1>1, <1>6
<1>9. \A k \in 1..n : loop[k] = Look(r, loop[k - 1])
  <2>1. \A k \in 1..n : k \in 0..n /\ k > 0
    BY <1>1
  <2> HIDE DEF n, base
  <2> QED
    BY <1>6, <2>1
<1> DEFINE T == {k \in 0..n : loop[k] \in States /\ ScannedTo(r, rules, S, loop[k], k)}
<1>10. 0 \in T
  <2>1. ScannedTo(r, rules, S, base, 0)
    <3>1. DOMAIN base.actions = {r.id} /\ base.actions[r.id] = r.action
      BY DEF Assigned, NoMap
    <3>2. /\ base.rules = rules /\ base.i = 1
          /\ base = [rules |-> base.rules, i |-> base.i, actions |-> base.actions]
      OBVIOUS
    <3>3. SameEvent(r, r)
      BY DEF SameEvent
    <3> HIDE DEF base
    <3> QED
      BY <1>1, <3>1, <3>2, <3>3 DEF ScannedTo
  <2> HIDE DEF base, States
  <2> QED
    BY <1>1, <1>2, <1>8, <2>1
<1>11. ASSUME NEW k \in 1..n, k - 1 \in T
       PROVE  k \in T
  <2> DEFINE m == k - 1
  <2>1. m \in Nat /\ m + 1 = k /\ m < n /\ k \in 0..n
    BY <1>1
  <2>2. loop[m] \in States /\ ScannedTo(r, rules, S, loop[m], m)
    BY <1>11
  <2>3. loop[k] = Look(r, loop[m])
    BY <1>9
  <2> HIDE DEF m, States
  <2>4. ScannedTo(r, rules, S, Look(r, loop[m]), m + 1)
    BY <2>1, <2>2, ScanOneMore
  <2> QED
    BY <1>3, <2>1, <2>2, <2>3, <2>4
<1>12. n \in T
  <2> HIDE DEF T
  <2>1. \A k \in 1..n : k - 1 \in T => k \in T
    BY <1>11
  <2>2. \A k \in 0..n : k \in T
    BY <1>1, <1>10, <2>1, Induction, Zenon
  <2> QED
    BY <1>1, <2>2
<1>13. w \in States /\ ScannedTo(r, rules, S, w, n)
  BY <1>7, <1>12
<1>14. /\ w.rules \in Seq(S) /\ w.actions \in Actions(S) /\ w.i \in Nat
       /\ Len(w.rules) \in Nat
  BY <1>13, LenProperties
<1>15. Elems(w.rules) = {x \in Elems(rules) : ~SameEvent(r, x)}
  <2>1. w.i = Len(w.rules) + 1
    BY <1>1, <1>13, <1>14 DEF ScannedTo
  <2>2. \A k \in 1..Len(w.rules) : ~SameEvent(r, w.rules[k])
    BY <1>13, <1>14, <2>1 DEF ScannedTo
  <2>3. \A x \in Elems(w.rules) : ~SameEvent(r, x)
    BY <2>2 DEF Elems
  <2> HIDE DEF States, n
  <2> QED
    BY <1>13, <2>3 DEF ScannedTo
<1>16. \A x \in Elems(rules) \union {r} :
          SameEvent(r, x) => x.id \in DOMAIN w.actions
  <2> HIDE DEF States, n
  <2> QED
    BY <1>13, <1>15 DEF ScannedTo
<1> HIDE DEF States, n
<1> QED
  BY <1>13, <1>14, <1>15, <1>16 DEF ScannedTo, n

-----------------------------------------------------------------------------
(* The filter.                                                             *)

(* The filter keeps the rules that are not disabled and no others.         *)
LEMMA EnabledRules ==
  ASSUME NEW S, NEW rules \in Seq(S)
  PROVE  /\ Enabled(rules) \in Seq(S)
         /\ Elems(Enabled(rules)) = {x \in Elems(rules) : x.is_disabled # "true"}
<1> DEFINE n == Len(rules)
           Q == Seq(S)
           Step(k, kept) == IF rules[k].is_disabled = "true" THEN kept
                            ELSE Append(kept, rules[k])
           step == [k \in 1..n |-> [kept \in Q |-> Step(k, kept)]]
           Loop(f) == f = [k \in 0..n |->
                             IF k = 0 THEN <<>>
                             ELSE IF rules[k].is_disabled = "true" THEN f[k - 1]
                             ELSE Append(f[k - 1], rules[k])]
           kept == CHOOSE f : Loop(f)
<1>1. n \in Nat /\ \A k \in 1..n : rules[k] \in S
  BY LenProperties
<1>2. ASSUME NEW k \in 1..n, NEW q \in Q PROVE Step(k, q) \in Q
  BY <1>1, AppendProperties
<1>3. step \in [1..n -> [Q -> Q]]
  <2> HIDE DEF Q, Step
  <2> QED
    BY <1>2
<1>4. \E f : Loop(f)
  <2> DEFINE base == <<>>
  <2>1. base \in Q
    OBVIOUS
  <2>2. PICK f : Ran(f, Q, base, n, step)
    <3> HIDE DEF Q, step, n, base
    <3> QED
      BY <1>1, <1>3, <2>1, LoopExists, Zenon
  <2>3. \A k \in 1..n : f[k] = Step(k, f[k - 1])
    <3> HIDE DEF Q, Step
    <3> QED
      BY <2>2 DEF Ran
  <2>4. \A k \in 0..n : k = 0 \/ k \in 1..n
    BY <1>1
  <2>5. Loop(f)
    <3> HIDE DEF step, Q, n
    <3> QED
      BY <2>2, <2>3, <2>4 DEF Ran
  <2> QED
    BY <2>5
<1>5. Loop(kept)
  BY <1>4
<1>6. Enabled(rules) = kept[n]
  BY DEF Enabled
<1> HIDE DEF kept
<1>7. kept[0] = <<>>
  BY <1>1, <1>5
<1>8. \A k \in 1..n : kept[k] = Step(k, kept[k - 1])
  <2>1. \A k \in 1..n : k \in 0..n /\ k # 0
    BY <1>1
  <2> HIDE DEF n
  <2> QED
    BY <1>5, <2>1
<1> DEFINE On(k) == {x \in {rules[l] : l \in 1..k} : x.is_disabled # "true"}
           T == {k \in 0..n : kept[k] \in Q /\ Elems(kept[k]) = On(k)}
<1>9. 0 \in T
  <2>1. Elems(<<>>) = {} /\ On(0) = {} /\ <<>> \in Q
    BY DEF Elems
  <2> HIDE DEF On, Q
  <2>2. kept[0] \in Q
    BY <1>7, <2>1, Zenon
  <2>3. Elems(kept[0]) = On(0)
    BY <1>7, <2>1, Zenon
  <2> QED
    BY <1>1, <2>2, <2>3
<1>10. ASSUME NEW k \in 1..n, k - 1 \in T
       PROVE  k \in T
  <2>1. kept[k - 1] \in Q /\ Elems(kept[k - 1]) = On(k - 1)
    BY <1>10
  <2>2. {rules[l] : l \in 1..k} = {rules[l] : l \in 1..k - 1} \union {rules[k]}
    <3>1. \A l \in 1..k : l = k \/ l \in 1..k - 1
      OBVIOUS
    <3>2. k \in 1..k /\ \A l \in 1..k - 1 : l \in 1..k
      OBVIOUS
    <3> QED
      BY <3>1, <3>2
  <2>3. CASE rules[k].is_disabled = "true"
    <3>1. On(k) = On(k - 1)
      BY <2>2, <2>3
    <3>2. kept[k] = kept[k - 1]
      BY <1>8, <2>3
    <3> HIDE DEF On, Q
    <3> QED
      BY <1>1, <2>1, <3>1, <3>2
  <2>4. CASE rules[k].is_disabled # "true"
    <3>1. On(k) = On(k - 1) \union {rules[k]}
      BY <2>2, <2>4
    <3>2. kept[k] = Append(kept[k - 1], rules[k])
      BY <1>8, <2>4
    <3>3. Elems(kept[k]) = Elems(kept[k - 1]) \union {rules[k]}
      BY <1>1, <2>1, <3>2, AppendElems
    <3>4. kept[k] \in Q
      BY <1>1, <2>1, <3>2, AppendProperties
    <3> HIDE DEF On, Q
    <3>5. Elems(kept[k]) = On(k)
      BY <2>1, <3>1, <3>3, Zenon
    <3> QED
      BY <1>1, <3>4, <3>5
  <2> QED
    BY <2>3, <2>4
<1>11. n \in T
  <2> HIDE DEF T
  <2>1. \A k \in 1..n : k - 1 \in T => k \in T
    BY <1>10
  <2>2. \A k \in 0..n : k \in T
    BY <1>1, <1>9, <2>1, Induction, Zenon
  <2> QED
    BY <1>1, <2>2
<1> QED
  BY <1>6, <1>11 DEF Elems

-----------------------------------------------------------------------------
(* The routes.                                                             *)

(* What addRoute needs of an event's settings: a number of outputs, and no *)
(* region that boost cannot read.                                          *)
Usable(conf) ==
    /\ "video_output_number" \in DOMAIN conf
    /\ conf["video_output_number"] \in Convertible
    /\ "collider_rio" \in DOMAIN conf =>
         conf["collider_rio"] \in Geometries \union {""}

(* A route's event and actions are those it is built from, if it can be    *)
(* built.                                                                  *)
LEMMA RouteFields ==
  ASSUME NEW event, NEW actions
  PROVE  LET route == AddRoute(event, actions)
         IN  /\ route.event = event
             /\ route.actions = actions
             /\ route.ok <=> Usable(event.configuration)
  BY TextAssumption DEF AddRoute, Usable

RoutesFrom(S) == {AddRoute(x.event, a) : x \in S, a \in Actions(S)}

(* A route serves all the rules in E that watch for the same thing.        *)
Serves(route, E) ==
    /\ \E x \in E : route = AddRoute(x.event, route.actions)
    /\ \A id \in DOMAIN route.actions :
         \E x \in E : SameEvent(route, x) /\ x.id = id
    /\ \A x \in E : SameEvent(route, x) =>
         x.id \in DOMAIN route.actions /\ route.actions[x.id] = x.action

(* What is left, and the routes there are, after n turns of the outer loop.*)
CombinedTo(all, S, s, n) ==
    /\ s = [rules |-> s.rules, routes |-> s.routes]
    /\ s.rules \in Seq(S)
    /\ s.routes \in Seq(RoutesFrom(S))
    /\ Len(s.rules) <= Len(all) - n
    /\ Elems(s.rules) \subseteq Elems(all)
    /\ \A x \in Elems(all) :
         x \in Elems(s.rules) \/ \E t \in Elems(s.routes) : SameEvent(t, x)
    /\ \A t \in Elems(s.routes), x \in Elems(s.rules) : ~SameEvent(t, x)
    /\ \A p, q \in 1..Len(s.routes) :
         SameEvent(s.routes[p], s.routes[q]) => p = q
    /\ \A t \in Elems(s.routes) : Serves(t, Elems(all))

(* The elements of a sequence over S are in S.                             *)
LEMMA ElemsIn ==
  ASSUME NEW S, NEW s \in Seq(S)
  PROVE  Elems(s) \subseteq S
  BY LenProperties DEF Elems

(* One more turn of the outer loop: a rule that is left watches for        *)
(* something no route watches for, so that the new route serves all the    *)
(* rules there are that watch for the same.                                *)
LEMMA CombineOneMore ==
  ASSUME NEW S, OwnIds(S), NEW all \in Seq(S), NEW n \in Nat, n < Len(all), NEW s,
         CombinedTo(all, S, s, n), s.rules # <<>>
  PROVE  CombinedTo(all, S, Combine(s), n + 1)
<1> DEFINE r == Last(s.rules)
           front == Front(s.rules)
           w == Scan(r, front)
           route == AddRoute(r.event, w.actions)
           new == Combine(s)
           E == Elems(all)
           F == Elems(front)
<1>1. /\ s.rules \in Seq(S)
      /\ front \in Seq(S) /\ r \in S
      /\ Len(s.rules) \in Nat
      /\ Len(front) = Len(s.rules) - 1
      /\ Elems(s.rules) = F \union {r}
  <2>1. s.rules \in Seq(S)
    BY DEF CombinedTo
  <2> QED
    BY <2>1, FrontProperties
<1>2. /\ w.rules \in Seq(S)
      /\ Len(w.rules) <= Len(front)
      /\ w.actions \in Actions(S)
      /\ Elems(w.rules) = {x \in F : ~SameEvent(r, x)}
      /\ \A x \in F \union {r} : SameEvent(r, x) => x.id \in DOMAIN w.actions
      /\ \A id \in DOMAIN w.actions :
           \E x \in F \union {r} :
              SameEvent(r, x) /\ x.id = id /\ w.actions[id] = x.action
  <2> HIDE DEF r, front, w
  <2>1. front \in Seq(S) /\ r \in S /\ w = Scan(r, front)
    BY <1>1 DEF w
  <2> QED
    BY <2>1, Scanned
<1>3. new = [rules |-> w.rules, routes |-> Append(s.routes, route)]
  BY DEF Combine
<1> HIDE DEF r, front, w, E, F
<1>4. /\ new = [rules |-> new.rules, routes |-> new.routes]
      /\ new.rules = w.rules
      /\ new.routes = Append(s.routes, route)
  BY <1>3
<1>5. /\ route.event = r.event
      /\ route.actions = w.actions
      /\ route \in RoutesFrom(S)
  BY <1>1, <1>2, RouteFields DEF RoutesFrom
<1> HIDE DEF new
<1>6. route = AddRoute(r.event, route.actions)
  BY <1>5
<1> HIDE DEF route
<1>7. \A x : SameEvent(route, x) <=> SameEvent(r, x)
  BY <1>5 DEF SameEvent
<1>8. /\ F \subseteq E /\ r \in E
      /\ E \subseteq S
      /\ Elems(w.rules) \subseteq F
  BY <1>1, <1>2, ElemsIn DEF CombinedTo, E
<1>9. ASSUME NEW x \in E, SameEvent(r, x)
      PROVE  x \in F \union {r}
  <2>1. SUFFICES ASSUME NEW t \in Elems(s.routes), SameEvent(t, x) PROVE FALSE
    BY <1>1 DEF CombinedTo, E
  <2>2. SameEvent(t, r)
    BY <1>9, <2>1 DEF SameEvent
  <2> QED
    BY <1>1, <2>2 DEF CombinedTo
<1>10. Serves(route, E)
  <2>1. ASSUME NEW x \in E, SameEvent(route, x)
        PROVE  x.id \in DOMAIN route.actions /\ route.actions[x.id] = x.action
    <3>1. x \in F \union {r} /\ SameEvent(r, x)
      BY <1>7, <1>9, <2>1
    <3>2. x.id \in DOMAIN w.actions
      BY <1>2, <3>1
    <3>3. PICK y \in F \union {r} : y.id = x.id /\ w.actions[x.id] = y.action
      BY <1>2, <3>2
    <3>4. y = x
      BY <1>8, <3>3 DEF OwnIds
    <3> QED
      BY <1>5, <3>2, <3>3, <3>4
  <2>2. \A id \in DOMAIN route.actions : \E x \in E : SameEvent(route, x) /\ x.id = id
    BY <1>2, <1>5, <1>7, <1>8
  <2> QED
    BY <1>6, <1>8, <2>1, <2>2 DEF Serves
<1>11. /\ s.routes \in Seq(RoutesFrom(S))
       /\ Len(s.routes) \in Nat
       /\ new.routes \in Seq(RoutesFrom(S))
       /\ Len(new.routes) = Len(s.routes) + 1
       /\ \A q \in 1..Len(s.routes) : new.routes[q] = s.routes[q]
       /\ new.routes[Len(s.routes) + 1] = route
       /\ Elems(new.routes) = Elems(s.routes) \union {route}
  <2>1. s.routes \in Seq(RoutesFrom(S))
    BY DEF CombinedTo
  <2> QED
    BY <1>4, <1>5, <2>1, AppendProperties, AppendElems, LenProperties
<1>12. Len(new.rules) <= Len(all) - (n + 1)
  <2>1. Len(all) \in Nat /\ Len(w.rules) \in Nat /\ Len(front) \in Nat
    BY <1>1, <1>2, LenProperties
  <2>2. Len(s.rules) <= Len(all) - n
    BY DEF CombinedTo
  <2> QED
    BY <1>1, <1>2, <1>4, <2>1, <2>2
<1>13. \A x \in E : x \in Elems(new.rules) \/ \E t \in Elems(new.routes) : SameEvent(t, x)
  <2> TAKE x \in E
  <2>1. CASE SameEvent(r, x)
    BY <1>7, <1>11, <2>1
  <2>2. CASE ~SameEvent(r, x) /\ x \in Elems(s.rules)
    <3>1. SameEvent(r, r)
      BY DEF SameEvent
    <3>2. x \in Elems(w.rules)
      BY <1>1, <1>2, <2>2, <3>1
    <3> QED
      BY <1>4, <3>2
  <2>3. CASE x \notin Elems(s.rules)
    <3>1. \E t \in Elems(s.routes) : SameEvent(t, x)
      BY <2>3 DEF CombinedTo, E
    <3> QED
      BY <1>11, <3>1
  <2> QED
    BY <2>1, <2>2, <2>3
<1>14. \A t \in Elems(new.routes), x \in Elems(new.rules) : ~SameEvent(t, x)
  <2>1. \A t \in Elems(s.routes), x \in Elems(w.rules) : ~SameEvent(t, x)
    BY <1>1, <1>8 DEF CombinedTo
  <2>2. \A x \in Elems(w.rules) : ~SameEvent(route, x)
    BY <1>2, <1>7
  <2> QED
    BY <1>4, <1>11, <2>1, <2>2
<1>15. \A t \in Elems(s.routes) : ~SameEvent(t, route) /\ ~SameEvent(route, t)
  <2>1. \A t \in Elems(s.routes) : ~SameEvent(t, r)
    BY <1>1 DEF CombinedTo
  <2> QED
    BY <1>5, <2>1 DEF SameEvent
<1>16. ASSUME NEW p \in 1..Len(new.routes), NEW q \in 1..Len(new.routes),
              SameEvent(new.routes[p], new.routes[q])
       PROVE  p = q
  <2>1. \A k \in 1..Len(new.routes) :
          \/ k = Len(s.routes) + 1 /\ new.routes[k] = route
          \/ /\ k \in 1..Len(s.routes) /\ new.routes[k] = s.routes[k]
             /\ new.routes[k] \in Elems(s.routes)
    BY <1>11 DEF Elems
  <2>2. \/ p = Len(s.routes) + 1 /\ new.routes[p] = route
        \/ /\ p \in 1..Len(s.routes) /\ new.routes[p] = s.routes[p]
           /\ new.routes[p] \in Elems(s.routes)
    BY <2>1
  <2>3. \/ q = Len(s.routes) + 1 /\ new.routes[q] = route
        \/ /\ q \in 1..Len(s.routes) /\ new.routes[q] = s.routes[q]
           /\ new.routes[q] \in Elems(s.routes)
    BY <2>1
  <2>4. CASE p \in 1..Len(s.routes) /\ q \in 1..Len(s.routes)
    BY <1>11, <1>16, <2>4 DEF CombinedTo
  <2> QED
    BY <1>15, <1>16, <2>2, <2>3, <2>4
<1>17. \A t \in Elems(new.routes) : Serves(t, E)
  BY <1>10, <1>11 DEF CombinedTo, E
<1>18. Elems(new.rules) \subseteq E
  BY <1>4, <1>8
<1> QED
  BY <1>2, <1>4, <1>11, <1>12, <1>13, <1>14, <1>16, <1>17, <1>18 DEF CombinedTo, E, new

(* The outer loop has taken every rule at its end.                         *)
LEMMA RoutesServe ==
  ASSUME NEW S, OwnIds(S), NEW rules \in Seq(S), NEW routes, routes = Routes(rules)
  PROVE  /\ routes \in Seq(RoutesFrom(S))
         /\ \A x \in Elems(rules) : \E t \in Elems(routes) : SameEvent(t, x)
         /\ \A p, q \in 1..Len(routes) : SameEvent(routes[p], routes[q]) => p = q
         /\ \A t \in Elems(routes) : Serves(t, Elems(rules))
<1> DEFINE n == Len(rules)
           R == RoutesFrom(S)
           States == [rules : Seq(S), routes : Seq(R)]
           base == [rules |-> rules, routes |-> <<>>]
           step == [k \in 1..n |-> [s \in States |-> Combine(s)]]
           Loop(f) == f = [k \in 0..n |-> IF k = 0 THEN base ELSE Combine(f[k - 1])]
           loop == CHOOSE f : Loop(f)
<1>1. n \in Nat
  BY LenProperties
<1>2. base \in States
  <2>1. <<>> \in Seq(R)
    OBVIOUS
  <2> HIDE DEF R
  <2> QED
    BY <2>1
<1>3. ASSUME NEW s \in States PROVE Combine(s) \in States
  <2> DEFINE r == Last(s.rules)
             w == Scan(r, Front(s.rules))
             route == AddRoute(r.event, w.actions)
  <2>1. CASE s.rules = <<>>
    BY <2>1 DEF Combine
  <2>2. CASE s.rules # <<>>
    <3>1. Front(s.rules) \in Seq(S) /\ r \in S
      BY <2>2, FrontProperties
    <3>2. w.rules \in Seq(S) /\ w.actions \in Actions(S)
      BY <3>1, Scanned
    <3>3. route \in R
      BY <3>1, <3>2 DEF RoutesFrom
    <3> HIDE DEF r, w, route, R
    <3>4. Append(s.routes, route) \in Seq(R)
      BY <3>3, AppendProperties
    <3>5. Combine(s) = [rules |-> w.rules, routes |-> Append(s.routes, route)]
      BY <2>2 DEF Combine, r, w, route
    <3> QED
      BY <3>2, <3>4, <3>5
  <2> QED
    BY <2>1, <2>2
<1>4. step \in [1..n -> [States -> States]]
  <2> HIDE DEF States
  <2> QED
    BY <1>3
<1>5. \E f : Loop(f)
  <2>1. PICK f : Ran(f, States, base, n, step)
    <3> HIDE DEF States, step, n, base
    <3> QED
      BY <1>1, <1>2, <1>4, LoopExists, Zenon
  <2>2. \A k \in 1..n : f[k] = Combine(f[k - 1])
    <3> HIDE DEF States
    <3> QED
      BY <2>1 DEF Ran
  <2>3. \A k \in 0..n : k = 0 \/ k \in 1..n
    BY <1>1
  <2>4. Loop(f)
    <3> HIDE DEF step, States, n, base
    <3> QED
      BY <2>1, <2>2, <2>3 DEF Ran
  <2> QED
    BY <2>4
<1>6. Loop(loop)
  BY <1>5
<1>7. Routes(rules) = loop[n].routes
  BY DEF Routes
<1> HIDE DEF loop
<1>8. loop[0] = base
  BY <1>1, <1>6
<1>9. \A k \in 1..n : loop[k] = Combine(loop[k - 1])
  <2>1. \A k \in 1..n : k \in 0..n /\ k # 0
    BY <1>1
  <2> HIDE DEF n, base
  <2> QED
    BY <1>6, <2>1
<1> DEFINE T == {k \in 0..n : loop[k] \in States /\ CombinedTo(rules, S, loop[k], k)}
<1>10. 0 \in T
  <2>1. CombinedTo(rules, S, base, 0)
    <3>1. /\ base.rules = rules /\ base.routes = <<>>
          /\ base = [rules |-> base.rules, routes |-> base.routes]
      OBVIOUS
    <3>2. Elems(base.routes) = {} /\ Len(base.routes) = 0
      BY <3>1 DEF Elems
    <3>3. base.routes \in Seq(R)
      BY <1>2
    <3> HIDE DEF base, R
    <3> QED
      BY <1>1, <3>1, <3>2, <3>3 DEF CombinedTo, R
  <2> HIDE DEF base, States
  <2> QED
    BY <1>1, <1>2, <1>8, <2>1
<1>11. ASSUME NEW k \in 1..n, k - 1 \in T
       PROVE  k \in T
  <2> DEFINE m == k - 1
             s == loop[m]
  <2>1. m \in Nat /\ m + 1 = k /\ m < n /\ k \in 0..n
    BY <1>1
  <2>2. s \in States /\ CombinedTo(rules, S, s, m)
    BY <1>11
  <2>3. loop[k] = Combine(s)
    BY <1>9
  <2> HIDE DEF m, s
  <2>4. CombinedTo(rules, S, Combine(s), m + 1)
    <3>1. CASE s.rules = <<>>
      <4>1. Combine(s) = s
        BY <3>1 DEF Combine
      <4>2. Len(s.rules) <= Len(rules) - (m + 1)
        BY <1>1, <2>1, <3>1
      <4> QED
        BY <2>2, <4>1, <4>2 DEF CombinedTo
    <3>2. CASE s.rules # <<>>
      <4> HIDE DEF States
      <4> QED
        BY <2>1, <2>2, <3>2, CombineOneMore
    <3> QED
      BY <3>1, <3>2
  <2>5. loop[k] \in States
    BY <1>3, <2>2, <2>3
  <2> HIDE DEF States
  <2> QED
    BY <2>1, <2>3, <2>4, <2>5
<1>12. n \in T
  <2> HIDE DEF T
  <2>1. \A k \in 1..n : k - 1 \in T => k \in T
    BY <1>11
  <2>2. \A k \in 0..n : k \in T
    BY <1>1, <1>10, <2>1, Induction, Zenon
  <2> QED
    BY <1>1, <2>2
<1> DEFINE s == loop[n]
<1>13. CombinedTo(rules, S, s, n) /\ routes = s.routes
  BY <1>7, <1>12
<1> HIDE DEF s
<1>14. Elems(s.rules) = {}
  <2>1. Len(s.rules) <= Len(rules) - n /\ s.rules \in Seq(S)
    BY <1>13 DEF CombinedTo
  <2>2. Len(s.rules) = 0
    BY <1>1, <2>1, LenProperties
  <2> QED
    BY <2>2 DEF Elems
<1> HIDE DEF n
<1> QED
  BY <1>13, <1>14 DEF CombinedTo

(* A sequence is one over its own elements.                                *)
LEMMA SeqOfElems ==
  ASSUME NEW S, NEW s \in Seq(S)
  PROVE  s \in Seq(Elems(s))
<1>1. Len(s) \in Nat /\ s \in [1..Len(s) -> S]
  BY LenProperties
<1>2. s \in [1..Len(s) -> Elems(s)]
  <2>1. \A k \in 1..Len(s) : s[k] \in Elems(s)
    BY DEF Elems
  <2> HIDE DEF Elems
  <2> QED
    BY <1>1, <2>1
<1> HIDE DEF Elems
<1> DEFINE E == Elems(s)
           n == Len(s)
<1> HIDE DEF E, n
<1>3. s \in [1..n -> E] /\ n \in Nat
  BY <1>1, <1>2 DEF E, n
<1>4. s \in Seq(E)
  BY <1>3
<1> QED
  BY <1>4 DEF E

(* The ids of rules that were read are all different.                      *)
LEMMA ReadHaveOwnIds ==
  ASSUME NEW entries, NEW name, NEW rules, NEW n \in Nat,
         ReadUpTo(entries, name, rules, n)
  PROVE  OwnIds(Elems(rules)) /\ rules \in Seq(Elems(rules)) /\ Len(rules) \in Nat
<1>1. rules \in Seq(Infos(entries))
  BY DEF ReadUpTo
<1>2. rules \in Seq(Elems(rules)) /\ Len(rules) \in Nat
  BY <1>1, SeqOfElems, LenProperties
<1>3. \A k \in 1..Len(rules) : rules[k].id \in Int
  <2> TAKE k \in 1..Len(rules)
  <2>1. PICK i \in 1..n : rules[k] = RuleInfo(entries[i], i - 1)
    BY DEF ReadUpTo
  <2> QED
    BY <2>1, InfoId
<1>4. \A k, l \in 1..Len(rules) : k < l => rules[k].id < rules[l].id
  BY DEF ReadUpTo
<1>5. ASSUME NEW x \in Elems(rules), NEW y \in Elems(rules), x.id = y.id
      PROVE  x = y
  <2>1. PICK k \in 1..Len(rules) : x = rules[k]
    BY DEF Elems
  <2>2. PICK l \in 1..Len(rules) : y = rules[l]
    BY DEF Elems
  <2>3. rules[k].id \in Int /\ rules[l].id \in Int /\ rules[k].id = rules[l].id
    BY <1>3, <1>5, <2>1, <2>2
  <2>4. ~(k < l) /\ ~(l < k)
    BY <1>4, <2>3
  <2>5. k = l
    BY <1>2, <2>4
  <2> QED
    BY <2>1, <2>2, <2>5
<1> QED
  BY <1>2, <1>5 DEF OwnIds

(* RoutesPartition (engine.cpp:316): for every list of rules, the routes   *)
(* of the video module split the enabled rules by what they watch for,     *)
(* each with its own action, and the module starts exactly when all of     *)
(* those say a number of outputs and no region that boost cannot read.     *)
THEOREM RoutesAlwaysPartition == Spec => []RoutesPartition
<1>1. Picked => RoutesPartition
  <2> DEFINE file == input.file
             rules == GetRules(file, "module_video").rules
             applied == ApplyRules(file)
             routes == applied.routes
             on == {i \in DOMAIN rules : rules[i].is_disabled # "true"}
             conf(i) == rules[i].event.configuration
             Served(q) == {i \in on : SameEvent(routes[q], rules[i])}
  <2> SUFFICES ASSUME Picked, input.kind = "rules", GetRules(file, "module_video").ok
               PROVE  /\ \A i \in on : \E q \in DOMAIN routes : i \in Served(q)
                      /\ \A q, p \in DOMAIN routes :
                           SameEvent(routes[q], routes[p]) => q = p
                      /\ \A q \in DOMAIN routes :
                           /\ \E i \in Served(q) : routes[q].event = rules[i].event
                           /\ DOMAIN routes[q].actions = {rules[i].id : i \in Served(q)}
                           /\ \A i \in Served(q) :
                                routes[q].actions[rules[i].id] = rules[i].action
                      /\ applied.enabled = (on # {})
                      /\ applied.ok = \A i \in on : Usable(conf(i))
    BY DEF RoutesPartition, Usable
  <2> DEFINE S == Elems(rules)
             en == Enabled(rules)
             E == Elems(en)
  <2>1. Lists(file, "rules")
    BY RuleFilePicked, RuleAssumption
  <2>2. OwnIds(S) /\ rules \in Seq(S) /\ Len(rules) \in Nat
    <3>1. /\ Len(Entries(file, "rules")) \in Nat
          /\ ReadUpTo(Entries(file, "rules"), "module_video", rules,
                      Len(Entries(file, "rules")))
      BY <2>1, OwnIsRead
    <3> HIDE DEF rules
    <3> QED
      BY <3>1, ReadHaveOwnIds
  <2>3. /\ applied.ok = \A q \in DOMAIN routes : routes[q].ok
        /\ applied.enabled = (en # <<>>)
        /\ routes = Routes(en)
    BY DEF ApplyRules
  <2> HIDE DEF rules, applied, file, routes
  <2>4. en \in Seq(S) /\ E = {x \in S : x.is_disabled # "true"}
    BY <2>2, EnabledRules
  <2>5. DOMAIN rules = 1..Len(rules)
    BY <2>2, LenProperties
  <2>6. /\ \A i \in on : rules[i] \in E
        /\ \A x \in E : \E i \in on : x = rules[i]
    BY <2>4, <2>5 DEF Elems
  <2>7. /\ routes \in Seq(RoutesFrom(S))
        /\ \A x \in E : \E t \in Elems(routes) : SameEvent(t, x)
        /\ \A p, q \in 1..Len(routes) : SameEvent(routes[p], routes[q]) => p = q
        /\ \A t \in Elems(routes) : Serves(t, E)
    <3> HIDE DEF S, en
    <3>1. OwnIds(S) /\ en \in Seq(S) /\ routes = Routes(en)
      BY <2>2, <2>3, <2>4
    <3> QED
      BY <3>1, RoutesServe, Zenon
  <2>8. (en # <<>>) <=> (on # {})
    <3> HIDE DEF en, S
    <3>1. CASE en = <<>>
      <4>1. E = {}
        BY <3>1 DEF Elems
      <4> QED
        BY <2>6, <3>1, <4>1
    <3>2. CASE en # <<>>
      <4>1. E = Elems(Front(en)) \union {Last(en)}
        BY <2>4, <3>2, FrontProperties
      <4> QED
        BY <2>6, <3>2, <4>1
    <3> QED
      BY <3>1, <3>2
  <2> HIDE DEF S, E, en
  <2>9. DOMAIN routes = 1..Len(routes)
    BY <2>7, LenProperties
  <2>10. \A q \in DOMAIN routes : Serves(routes[q], E)
    BY <2>7, <2>9 DEF Elems
  <2>11. \A t \in Elems(routes) : \E q \in DOMAIN routes : t = routes[q]
    BY <2>9 DEF Elems
  <2>12. ASSUME NEW q \in DOMAIN routes
         PROVE  \E x \in E : /\ routes[q].event = x.event
                             /\ SameEvent(routes[q], x)
                             /\ routes[q].ok <=> Usable(x.event.configuration)
    <3>1. PICK x \in E : routes[q] = AddRoute(x.event, routes[q].actions)
      BY <2>10 DEF Serves
    <3>2. /\ routes[q].event = x.event
          /\ routes[q].ok <=> Usable(x.event.configuration)
      BY <3>1, RouteFields
    <3> QED
      BY <3>2 DEF SameEvent
  <2>13. ASSUME NEW i \in on
         PROVE  \E q \in DOMAIN routes : i \in Served(q)
    BY <2>6, <2>7, <2>11
  <2>14. ASSUME NEW q \in DOMAIN routes
         PROVE  /\ \E i \in Served(q) : routes[q].event = rules[i].event
                /\ DOMAIN routes[q].actions = {rules[i].id : i \in Served(q)}
                /\ \A i \in Served(q) :
                     routes[q].actions[rules[i].id] = rules[i].action
    <3>1. \A x \in E : SameEvent(routes[q], x) => \E i \in Served(q) : x = rules[i]
      BY <2>6
    <3>2. \A i \in Served(q) : rules[i] \in E /\ SameEvent(routes[q], rules[i])
      BY <2>6
    <3> HIDE DEF Served
    <3>3. \E i \in Served(q) : routes[q].event = rules[i].event
      BY <2>12, <3>1
    <3>4. \A id \in DOMAIN routes[q].actions :
            \E x \in E : SameEvent(routes[q], x) /\ x.id = id
      BY <2>10 DEF Serves
    <3>5. \A x \in E : SameEvent(routes[q], x) =>
            /\ x.id \in DOMAIN routes[q].actions
            /\ routes[q].actions[x.id] = x.action
      BY <2>10 DEF Serves
    <3>6. DOMAIN routes[q].actions = {rules[i].id : i \in Served(q)}
      BY <3>1, <3>2, <3>4, <3>5
    <3> QED
      BY <3>2, <3>3, <3>5, <3>6
  <2>15. (\A q \in DOMAIN routes : routes[q].ok) <=> (\A i \in on : Usable(conf(i)))
    <3>1. ASSUME \A q \in DOMAIN routes : routes[q].ok, NEW i \in on
          PROVE  Usable(conf(i))
      <4>1. PICK q \in DOMAIN routes : SameEvent(routes[q], rules[i])
        BY <2>13
      <4>2. PICK x \in E : SameEvent(routes[q], x) /\ Usable(x.event.configuration)
        BY <2>12, <3>1
      <4>3. conf(i) = x.event.configuration
        BY <4>1, <4>2 DEF SameEvent
      <4> QED
        BY <4>2, <4>3
    <3>2. ASSUME \A i \in on : Usable(conf(i)), NEW q \in DOMAIN routes
          PROVE  routes[q].ok
      <4>1. PICK x \in E : routes[q].ok <=> Usable(x.event.configuration)
        BY <2>12
      <4>2. PICK i \in on : x = rules[i]
        BY <2>6
      <4> QED
        BY <3>2, <4>1, <4>2
    <3> QED
      BY <3>1, <3>2
  <2>16. \A p, q \in DOMAIN routes : SameEvent(routes[p], routes[q]) => p = q
    BY <2>7, <2>9
  <2>17. applied.enabled = (on # {})
    BY <2>3, <2>8
  <2>18. applied.ok = \A i \in on : Usable(conf(i))
    BY <2>3, <2>15
  <2> QED
    BY <2>13, <2>14, <2>16, <2>17, <2>18
<1> QED
  BY <1>1, InputPicked, PTL

-----------------------------------------------------------------------------
(* Bytes.                                                                  *)

(* A long is read as it was written.                                       *)
LEMMA LongRoundTrip ==
  ASSUME NEW d \in Nat, d <= 2147483647
  PROVE  /\ LongLE(d) \in Seq(Nat)
         /\ Len(LongLE(d)) = 4 /\ DOMAIN LongLE(d) = 1..4
         /\ LongLE(d)[1] + 256 * LongLE(d)[2]
              + 65536 * (LongLE(d)[3] + 256 * LongLE(d)[4]) = d
<1>1. /\ d % 256 \in Nat /\ (d \div 256) % 256 \in Nat
      /\ (d \div 65536) % 256 \in Nat /\ (d \div 16777216) % 256 \in Nat
  BY SMT
<1>2. (d % 256) + 256 * ((d \div 256) % 256)
        + 65536 * (((d \div 65536) % 256) + 256 * ((d \div 16777216) % 256)) = d
  BY SMT
<1> QED
  BY <1>1, <1>2, SMT DEF LongLE

(* A short is read as it was written.                                      *)
LEMMA ShortRoundTrip ==
  ASSUME NEW d \in Nat, d < 65536
  PROVE  /\ ShortLE(d) \in Seq(Nat)
         /\ Len(ShortLE(d)) = 2 /\ DOMAIN ShortLE(d) = 1..2
         /\ ShortLE(d)[1] \in Nat /\ ShortLE(d)[2] \in Nat
         /\ ShortLE(d)[1] + 256 * ShortLE(d)[2] = d
<1>1. d % 256 \in Nat /\ (d \div 256) % 256 \in Nat
  BY SMT
<1>2. (d % 256) + 256 * ((d \div 256) % 256) = d
  BY SMT
<1> QED
  BY <1>1, <1>2, SMT DEF ShortLE

Bytes(s, n) == s \in Seq(Nat) /\ Len(s) = n

Joins(u, s, m, t, n) == /\ \A k \in 1..m : u[k] = s[k]
                        /\ \A k \in 1..n : u[m + k] = t[k]

(* The bytes of two parts of a file, one behind the other.                 *)
LEMMA Joined ==
  ASSUME NEW m \in Nat, NEW n \in Nat, NEW s, NEW t, Bytes(s, m), Bytes(t, n)
  PROVE  Bytes(s \o t, m + n) /\ Joins(s \o t, s, m, t, n)
<1> DEFINE u == s \o t
<1>1. /\ u \in Seq(Nat)
      /\ Len(u) = Len(s) + Len(t)
      /\ \A k \in 1..Len(s) + Len(t) :
           u[k] = IF k <= Len(s) THEN s[k] ELSE t[k - Len(s)]
  <2>1. s \in Seq(Nat) /\ t \in Seq(Nat)
    BY DEF Bytes
  <2> QED
    BY <2>1, ConcatProperties, Zenon
<1> HIDE DEF u
<1>2. /\ u \in Seq(Nat)
      /\ Len(u) = m + n
      /\ \A k \in 1..m + n : u[k] = IF k <= m THEN s[k] ELSE t[k - m]
  BY <1>1 DEF Bytes
<1>3. \A k \in 1..m : k \in 1..m + n /\ k <= m
  OBVIOUS
<1>4. \A k \in 1..n : m + k \in 1..m + n /\ ~(m + k <= m) /\ (m + k) - m = k
  OBVIOUS
<1>5. \A k \in 1..m : u[k] = s[k]
  BY <1>2, <1>3
<1>6. \A k \in 1..n : u[m + k] = t[k]
  BY <1>2, <1>4
<1> QED
  BY <1>2, <1>5, <1>6 DEF Bytes, Joins, u

(* A block of samples is written low byte first.                           *)
LEMMA ShortsBytes ==
  ASSUME NEW samples, NEW n \in Nat, Len(samples) = n,
         \A j \in 1..n : samples[j] \in Nat /\ samples[j] < 65536
  PROVE  /\ Shorts(samples) \in Seq(Nat)
         /\ Len(Shorts(samples)) = 2 * n
         /\ \A j \in 1..n :
              Shorts(samples)[2 * (j - 1) + 1]
                + 256 * Shorts(samples)[2 * (j - 1) + 2] = samples[j]
<1> DEFINE Byte(k) == ShortLE(samples[(k + 1) \div 2])[IF k % 2 = 1 THEN 1 ELSE 2]
           s == [k \in 1..2 * n |-> Byte(k)]
<1>1. Shorts(samples) = s
  BY SMT DEF Shorts
<1>2. ASSUME NEW k \in 1..2 * n PROVE Byte(k) \in Nat
  <2>1. (k + 1) \div 2 \in 1..n
    BY SMT
  <2>2. samples[(k + 1) \div 2] \in Nat /\ samples[(k + 1) \div 2] < 65536
    BY <2>1, SMT
  <2> DEFINE x == samples[(k + 1) \div 2]
  <2>3. x \in Nat /\ x < 65536
    BY <2>2, SMT
  <2> HIDE DEF x
  <2>4. ShortLE(x)[1] \in Nat /\ ShortLE(x)[2] \in Nat
    BY <2>3, SMT DEF ShortLE
  <2> QED
    BY <2>4, SMT DEF x
<1>3. s \in [1..2 * n -> Nat] /\ 2 * n \in Nat
  <2> HIDE DEF Byte
  <2> QED
    BY <1>2, SMT
<1>4. s \in Seq(Nat) /\ Len(s) = 2 * n
  <2> HIDE DEF s
  <2> QED
    BY <1>3, SMT
<1>5. ASSUME NEW j \in 1..n
      PROVE  s[2 * (j - 1) + 1] + 256 * s[2 * (j - 1) + 2] = samples[j]
  <2>1. /\ 2 * (j - 1) + 1 \in 1..2 * n
        /\ 2 * (j - 1) + 2 \in 1..2 * n
        /\ (2 * (j - 1) + 1 + 1) \div 2 = j
        /\ (2 * (j - 1) + 2 + 1) \div 2 = j
        /\ (2 * (j - 1) + 1) % 2 = 1
        /\ (2 * (j - 1) + 2) % 2 # 1
    BY SMT
  <2>2. s[2 * (j - 1) + 1] = Byte(2 * (j - 1) + 1)
    BY <2>1, SMT
  <2>3. s[2 * (j - 1) + 2] = Byte(2 * (j - 1) + 2)
    BY <2>1, SMT
  <2>4. Byte(2 * (j - 1) + 1) = ShortLE(samples[j])[1]
    BY <2>1, SMT
  <2>5. Byte(2 * (j - 1) + 2) = ShortLE(samples[j])[2]
    BY <2>1, SMT
  <2> HIDE DEF s, Byte
  <2>6. samples[j] \in Nat /\ samples[j] < 65536
    BY SMT
  <2> QED
    BY <2>2, <2>3, <2>4, <2>5, <2>6, ShortRoundTrip, SMT
<1> HIDE DEF s
<1> QED
  BY <1>1, <1>4, <1>5, SMT

-----------------------------------------------------------------------------
(* The writer.                                                             *)

(* A header that says what the samples are.                                *)
Header(bytes) ==
    /\ LongAt(bytes, 24) = 44100
    /\ LongAt(bytes, 28) = 88200
    /\ ShortAt(bytes, 32) = 2

(* The fields at an offset depend on the bytes there alone.                *)
LEMMA SamePart ==
  ASSUME NEW s, NEW t, NEW o \in Nat,
         \A k \in o + 1..o + 4 : s[k] = t[k]
  PROVE  LongAt(s, o) = LongAt(t, o) /\ ShortAt(s, o) = ShortAt(t, o)
<1>1. s[o + 1] = t[o + 1] /\ s[o + 2] = t[o + 2]
  OBVIOUS
<1>2. s[o + 3] = t[o + 3] /\ s[o + 4] = t[o + 4]
  OBVIOUS
<1>3. o + 2 + 1 = o + 3 /\ o + 2 + 2 = o + 4
  OBVIOUS
<1> QED
  BY <1>1, <1>2, <1>3, SMT DEF LongAt, ShortAt

(* What the header says depends on bytes 25 to 36 alone.                   *)
LEMMA SameHeader ==
  ASSUME NEW s, NEW t, \A k \in 25..36 : s[k] = t[k], Header(t)
  PROVE  Header(s)
<1>1. \A k \in 24 + 1..24 + 4 : s[k] = t[k]
  BY SMT
<1>2. \A k \in 28 + 1..28 + 4 : s[k] = t[k]
  BY SMT
<1>3. \A k \in 32 + 1..32 + 4 : s[k] = t[k]
  BY SMT
<1>4. LongAt(s, 24) = LongAt(t, 24)
  BY <1>1, SamePart, SMT
<1>5. LongAt(s, 28) = LongAt(t, 28)
  BY <1>2, SamePart, SMT
<1>6. ShortAt(s, 32) = ShortAt(t, 32)
  BY <1>3, SamePart, SMT
<1> QED
  BY <1>4, <1>5, <1>6, SMT DEF Header

(* A long that was written at an offset is read there.                     *)
LEMMA WrittenLong ==
  ASSUME NEW s, NEW o \in Nat, NEW d \in Nat, d <= 2147483647,
         \A k \in 1..4 : s[o + k] = LongLE(d)[k]
  PROVE  LongAt(s, o) = d
<1>1. /\ s[o + 1] = LongLE(d)[1] /\ s[o + 2] = LongLE(d)[2]
      /\ s[o + 3] = LongLE(d)[3] /\ s[o + 4] = LongLE(d)[4]
  BY SMT
<1>2. LongAt(s, o) = s[o + 1] + 256 * s[o + 2] + 65536 * (s[o + 3] + 256 * s[o + 4])
  <2>1. o + 2 + 1 = o + 3 /\ o + 2 + 2 = o + 4
    OBVIOUS
  <2> QED
    BY <2>1, SMT DEF LongAt, ShortAt
<1> QED
  BY <1>1, <1>2, LongRoundTrip, SMT

(* A short that was written at an offset is read there.                    *)
LEMMA WrittenShort ==
  ASSUME NEW s, NEW o \in Nat, NEW d \in Nat, d < 65536,
         \A k \in 1..2 : s[o + k] = ShortLE(d)[k]
  PROVE  ShortAt(s, o) = d
<1>1. s[o + 1] = ShortLE(d)[1] /\ s[o + 2] = ShortLE(d)[2]
  BY SMT
<1> QED
  BY <1>1, ShortRoundTrip, SMT DEF ShortAt

(* The sizes of the fields.                                                *)
LEMMA FieldBytes ==
  ASSUME NEW d \in Nat
  PROVE  Bytes(LongLE(d), 4) /\ Bytes(ShortLE(d), 2)
<1>1. /\ d % 256 \in Nat /\ (d \div 256) % 256 \in Nat
      /\ (d \div 65536) % 256 \in Nat /\ (d \div 16777216) % 256 \in Nat
  BY SMT
<1> QED
  BY <1>1, SMT DEF LongLE, ShortLE, Bytes

(* Where the fields of a new header are, part by part.                     *)
LEMMA Opened ==
  ASSUME NEW rate \in Nat, NEW spf \in Nat, NEW bytesRate, NEW block, NEW writer,
         bytesRate = rate * spf * 2, block = spf * 2,
         writer = OpenWriter(rate, spf)
  PROVE  /\ Bytes(writer.bytes, 44)
         /\ writer = [bytes |-> writer.bytes, dataSize |-> 0, dataSizeOffset |-> 40]
         /\ \A k \in 1..4 : writer.bytes[24 + k] = LongLE(rate)[k]
         /\ \A k \in 1..4 : writer.bytes[28 + k] = LongLE(bytesRate)[k]
         /\ \A k \in 1..2 : writer.bytes[32 + k] = ShortLE(block)[k]
<1> DEFINE h1 == ChunkType.RIFF \o LongLE(0)
           h2 == h1 \o ChunkType.WAVE
           h3 == h2 \o ChunkType.FMT
           h4 == h3 \o LongLE(16)
           h5 == h4 \o ShortLE(1)
           h6 == h5 \o ShortLE(spf)
           h7 == h6 \o LongLE(rate)
           h8 == h7 \o LongLE(bytesRate)
           h9 == h8 \o ShortLE(block)
           h10 == h9 \o ShortLE(16)
           head == h10 \o ChunkType.DATA
           bytes == head \o LongLE(0)
<1>1. bytesRate \in Nat /\ block \in Nat
  <2>1. rate * spf \in Nat
    BY SMT
  <2> QED
    BY <2>1, SMT
<1>2. /\ Bytes(ChunkType.RIFF, 4) /\ Bytes(ChunkType.WAVE, 4)
      /\ Bytes(ChunkType.FMT, 4) /\ Bytes(ChunkType.DATA, 4)
  BY DEF ChunkType, Bytes
<1>3. \A d \in Nat : Bytes(LongLE(d), 4) /\ Bytes(ShortLE(d), 2)
  BY FieldBytes
<1>4. writer = [bytes |-> bytes, dataSize |-> 0, dataSizeOffset |-> Len(head)]
  BY DEF OpenWriter
<1> HIDE DEF h1
<1>5. Bytes(h1, 8) /\ Joins(h1, ChunkType.RIFF, 4, LongLE(0), 4)
  <2>1. Bytes(LongLE(0), 4)
    BY <1>1, <1>2, <1>3
  <2>2. 4 + 4 = 8
    OBVIOUS
  <2> QED
    BY <1>2, <2>1, <2>2, Joined DEF h1
<1> HIDE DEF h2
<1>6. Bytes(h2, 12) /\ Joins(h2, h1, 8, ChunkType.WAVE, 4)
  <2>1. Bytes(ChunkType.WAVE, 4)
    BY <1>1, <1>2, <1>3
  <2>2. 8 + 4 = 12
    OBVIOUS
  <2> QED
    BY <1>5, <2>1, <2>2, Joined DEF h2
<1> HIDE DEF h3
<1>7. Bytes(h3, 16) /\ Joins(h3, h2, 12, ChunkType.FMT, 4)
  <2>1. Bytes(ChunkType.FMT, 4)
    BY <1>1, <1>2, <1>3
  <2>2. 12 + 4 = 16
    OBVIOUS
  <2> QED
    BY <1>6, <2>1, <2>2, Joined DEF h3
<1> HIDE DEF h4
<1>8. Bytes(h4, 20) /\ Joins(h4, h3, 16, LongLE(16), 4)
  <2>1. Bytes(LongLE(16), 4)
    BY <1>1, <1>2, <1>3
  <2>2. 16 + 4 = 20
    OBVIOUS
  <2> QED
    BY <1>7, <2>1, <2>2, Joined DEF h4
<1> HIDE DEF h5
<1>9. Bytes(h5, 22) /\ Joins(h5, h4, 20, ShortLE(1), 2)
  <2>1. Bytes(ShortLE(1), 2)
    BY <1>1, <1>2, <1>3
  <2>2. 20 + 2 = 22
    OBVIOUS
  <2> QED
    BY <1>8, <2>1, <2>2, Joined DEF h5
<1> HIDE DEF h6
<1>10. Bytes(h6, 24) /\ Joins(h6, h5, 22, ShortLE(spf), 2)
  <2>1. Bytes(ShortLE(spf), 2)
    BY <1>1, <1>2, <1>3
  <2>2. 22 + 2 = 24
    OBVIOUS
  <2> QED
    BY <1>9, <2>1, <2>2, Joined DEF h6
<1> HIDE DEF h7
<1>11. Bytes(h7, 28) /\ Joins(h7, h6, 24, LongLE(rate), 4)
  <2>1. Bytes(LongLE(rate), 4)
    BY <1>1, <1>2, <1>3
  <2>2. 24 + 4 = 28
    OBVIOUS
  <2> QED
    BY <1>10, <2>1, <2>2, Joined DEF h7
<1> HIDE DEF h8
<1>12. Bytes(h8, 32) /\ Joins(h8, h7, 28, LongLE(bytesRate), 4)
  <2>1. Bytes(LongLE(bytesRate), 4)
    BY <1>1, <1>2, <1>3
  <2>2. 28 + 4 = 32
    OBVIOUS
  <2> QED
    BY <1>11, <2>1, <2>2, Joined DEF h8
<1> HIDE DEF h9
<1>13. Bytes(h9, 34) /\ Joins(h9, h8, 32, ShortLE(block), 2)
  <2>1. Bytes(ShortLE(block), 2)
    BY <1>1, <1>2, <1>3
  <2>2. 32 + 2 = 34
    OBVIOUS
  <2> QED
    BY <1>12, <2>1, <2>2, Joined DEF h9
<1> HIDE DEF h10
<1>14. Bytes(h10, 36) /\ Joins(h10, h9, 34, ShortLE(16), 2)
  <2>1. Bytes(ShortLE(16), 2)
    BY <1>1, <1>2, <1>3
  <2>2. 34 + 2 = 36
    OBVIOUS
  <2> QED
    BY <1>13, <2>1, <2>2, Joined DEF h10
<1> HIDE DEF head
<1>15. Bytes(head, 40) /\ Joins(head, h10, 36, ChunkType.DATA, 4)
  <2>1. Bytes(ChunkType.DATA, 4)
    BY <1>1, <1>2, <1>3
  <2>2. 36 + 4 = 40
    OBVIOUS
  <2> QED
    BY <1>14, <2>1, <2>2, Joined DEF head
<1> HIDE DEF bytes
<1>16. Bytes(bytes, 44) /\ Joins(bytes, head, 40, LongLE(0), 4)
  <2>1. Bytes(LongLE(0), 4)
    BY <1>1, <1>2, <1>3
  <2>2. 40 + 4 = 44
    OBVIOUS
  <2> QED
    BY <1>15, <2>1, <2>2, Joined DEF bytes
<1>17. \A k \in 1..34 : bytes[k] = h9[k]
  <2>1. \A k \in 1..34 : k \in 1..36 /\ k \in 1..40
    OBVIOUS
  <2> QED
    BY <1>14, <1>15, <1>16, <2>1 DEF Joins
<1>18. \A k \in 1..2 : bytes[32 + k] = ShortLE(block)[k]
  <2>1. \A k \in 1..2 : 32 + k \in 1..34
    OBVIOUS
  <2> QED
    BY <1>13, <1>17, <2>1 DEF Joins
<1>19. \A k \in 1..4 : bytes[28 + k] = LongLE(bytesRate)[k]
  <2>1. \A k \in 1..4 : 28 + k \in 1..34 /\ 28 + k \in 1..32
    OBVIOUS
  <2>2. \A k \in 1..4 : bytes[28 + k] = h8[28 + k]
    BY <1>13, <1>17, <2>1 DEF Joins
  <2> QED
    BY <1>12, <2>2 DEF Joins
<1>20. \A k \in 1..4 : bytes[24 + k] = LongLE(rate)[k]
  <2>1. \A k \in 1..4 : 24 + k \in 1..34 /\ 24 + k \in 1..32 /\ 24 + k \in 1..28
    OBVIOUS
  <2>2. \A k \in 1..4 : bytes[24 + k] = h7[24 + k]
    BY <1>12, <1>13, <1>17, <2>1 DEF Joins
  <2> QED
    BY <1>11, <2>2 DEF Joins
<1>21. Len(head) = 40
  BY <1>15 DEF Bytes
<1>22. writer.bytes = bytes
  BY <1>4
<1> QED
  BY <1>4, <1>16, <1>18, <1>19, <1>20, <1>21, <1>22

(* The long d at offset o of a file of size m, the rest as it was.         *)
IsPatched(new, m, bytes, o, d) ==
    /\ \A k \in 1..4 : new[o + k] = LongLE(d)[k]
    /\ \A k \in 1..m : k \notin o + 1..o + 4 => new[k] = bytes[k]

(* A long that is patched in changes its four bytes and no others.         *)
LEMMA PatchedBytes ==
  ASSUME NEW m \in Nat, NEW bytes, Bytes(bytes, m),
         NEW o \in Nat, o + 4 <= m, NEW d \in Nat
  PROVE  /\ Bytes(Patched(bytes, o, LongLE(d)), m)
         /\ IsPatched(Patched(bytes, o, LongLE(d)), m, bytes, o, d)
<1> DEFINE field == LongLE(d)
           new == Patched(bytes, o, field)
<1>1. /\ DOMAIN bytes = 1..m
      /\ \A k \in 1..m : bytes[k] \in Nat
  BY LenProperties DEF Bytes
<1>2. /\ DOMAIN field = 1..4
      /\ \A k \in 1..4 : field[k] \in Nat
  <2>1. field \in Seq(Nat) /\ Len(field) = 4
    BY FieldBytes DEF Bytes
  <2> HIDE DEF field
  <2> QED
    BY <2>1, LenProperties
<1> HIDE DEF field
<1>3. new = [k \in 1..m |-> IF k - o \in 1..4 THEN field[k - o] ELSE bytes[k]]
  BY <1>1, <1>2 DEF Patched
<1> HIDE DEF new
<1>4. \A k \in 1..4 : new[o + k] = field[k]
  <2>1. \A k \in 1..4 : o + k \in 1..m /\ (o + k) - o = k
    OBVIOUS
  <2> QED
    BY <1>3, <2>1
<1>5. \A k \in 1..m : k \notin o + 1..o + 4 => new[k] = bytes[k]
  <2>1. \A k \in 1..m : k \notin o + 1..o + 4 => k - o \notin 1..4
    OBVIOUS
  <2> QED
    BY <1>3, <2>1
<1>6. Bytes(new, m)
  <2>1. \A k \in 1..m : new[k] \in Nat
    BY <1>1, <1>2, <1>3
  <2>2. new \in [1..m -> Nat]
    BY <1>3, <2>1
  <2> QED
    BY <2>2 DEF Bytes
<1> QED
  BY <1>4, <1>5, <1>6 DEF IsPatched, new, field

(* The samples in the first n blocks.                                      *)
Samples(n) == n * FRAMES_PER_BUFFER

(* How the count of samples grows with a block.                            *)
LEMMA SamplesCount ==
  ASSUME NEW n \in Nat
  PROVE  /\ FRAMES_PER_BUFFER \in Nat \ {0}
         /\ Samples(n) \in Nat
         /\ Samples(n + 1) = Samples(n) + FRAMES_PER_BUFFER
         /\ Samples(0) = 0
<1> DEFINE F == FRAMES_PER_BUFFER
<1>1. F \in Nat \ {0}
  BY BlockAssumption, SMT
<1> HIDE DEF F
<1>2. n * F \in Nat /\ (n + 1) * F = n * F + F /\ 0 * F = 0
  BY <1>1, SMT
<1> QED
  BY <1>1, <1>2 DEF Samples, F

(* More blocks, more samples.                                              *)
LEMMA SamplesGrow ==
  ASSUME NEW m \in Nat, NEW n \in Nat, m <= n
  PROVE  Samples(m) <= Samples(n)
<1> DEFINE F == FRAMES_PER_BUFFER
<1>1. F \in Nat
  BY SamplesCount
<1> HIDE DEF F
<1>2. (n - m) * F >= 0 /\ n * F = m * F + (n - m) * F
  BY <1>1, SMT
<1>3. m * F <= n * F
  BY <1>1, <1>2, SMT
<1> QED
  BY <1>3 DEF Samples, F

IsBlock(block) ==
    /\ Len(block) = FRAMES_PER_BUFFER
    /\ \A j \in 1..FRAMES_PER_BUFFER : block[j] \in Nat /\ block[j] < 65536

Offset(i, j) == 44 + 2 * (Samples(i - 1) + j - 1)

(* The writer with n blocks in its file.                                   *)
WrittenUpTo(blocks, writer, n) ==
    /\ writer = [bytes |-> writer.bytes, dataSize |-> 2 * Samples(n),
                 dataSizeOffset |-> 40]
    /\ Bytes(writer.bytes, 44 + 2 * Samples(n))
    /\ Header(writer.bytes)
    /\ \A i \in 1..n, j \in 1..FRAMES_PER_BUFFER :
         ShortAt(writer.bytes, Offset(i, j)) = blocks[i][j]

(* A sample is behind the header and inside the file.                      *)
LEMMA OffsetInside ==
  ASSUME NEW n \in Nat, NEW i \in 1..n, NEW j \in 1..FRAMES_PER_BUFFER
  PROVE  Offset(i, j) \in Nat /\ Offset(i, j) >= 44
         /\ Offset(i, j) + 2 <= 44 + 2 * Samples(n)
<1> DEFINE F == FRAMES_PER_BUFFER
           m == i - 1
<1>1. m \in Nat /\ m + 1 = i /\ m + 1 <= n
  OBVIOUS
<1> HIDE DEF m
<1>2. /\ F \in Nat
      /\ Samples(m) \in Nat
      /\ Samples(m + 1) = Samples(m) + F
  BY <1>1, SamplesCount
<1>3. Samples(n) \in Nat
  BY SamplesCount
<1>4. Samples(m + 1) <= Samples(n)
  BY <1>1, SamplesGrow
<1>5. Offset(i, j) = 44 + 2 * (Samples(m) + j - 1)
  BY <1>1 DEF Offset, m
<1>6. j \in 1..F
  OBVIOUS
<1> HIDE DEF F
<1> QED
  BY <1>2, <1>3, <1>4, <1>5, <1>6

(* A sample depends on its two bytes alone.                                *)
LEMMA SameShort ==
  ASSUME NEW s, NEW t, NEW o, s[o + 1] = t[o + 1], s[o + 2] = t[o + 2]
  PROVE  ShortAt(s, o) = ShortAt(t, o)
  BY DEF ShortAt

(* One more block: what was written stays, and the new samples are behind  *)
(* it.                                                                     *)
LEMMA WriteOneMore ==
  ASSUME NEW blocks, NEW n \in Nat, NEW w, WrittenUpTo(blocks, w, n),
         IsBlock(blocks[n + 1])
  PROVE  WrittenUpTo(blocks, Appended(w, blocks[n + 1]), n + 1)
<1> DEFINE F == FRAMES_PER_BUFFER
           samples == blocks[n + 1]
           s == w.bytes
           t == Shorts(samples)
           u == s \o t
           m == 44 + 2 * Samples(n)
           new == Appended(w, samples)
<1>1. F \in Nat /\ Samples(n) \in Nat /\ Samples(n + 1) = Samples(n) + F
  BY SamplesCount
<1>2. /\ Bytes(t, 2 * F)
      /\ \A j \in 1..F : t[2 * (j - 1) + 1] + 256 * t[2 * (j - 1) + 2] = samples[j]
  <2>1. Len(samples) = F /\ \A j \in 1..F : samples[j] \in Nat /\ samples[j] < 65536
    BY SMT DEF IsBlock
  <2> HIDE DEF F, samples
  <2> QED
    BY <1>1, <2>1, ShortsBytes, SMT DEF Bytes
<1>3. Bytes(s, m)
  BY DEF WrittenUpTo
<1>4. Bytes(u, m + 2 * F) /\ Joins(u, s, m, t, 2 * F)
  <2>1. m \in Nat /\ 2 * F \in Nat
    BY <1>1
  <2> HIDE DEF s, t, m, F
  <2> QED
    BY <1>2, <1>3, <2>1, Joined
<1>5. m + 2 * F = 44 + 2 * Samples(n + 1)
  BY <1>1
<1>6. /\ new = [bytes |-> u, dataSize |-> 2 * Samples(n + 1), dataSizeOffset |-> 40]
  <2>1. w = [bytes |-> s, dataSize |-> 2 * Samples(n), dataSizeOffset |-> 40]
    BY DEF WrittenUpTo
  <2>2. Len(samples) = F
    BY SMT DEF IsBlock
  <2>3. 2 * Samples(n) + 2 * Len(samples) = 2 * Samples(n + 1)
    BY <1>1, <2>2
  <2>4. new = [w EXCEPT !.bytes = @ \o t, !.dataSize = @ + 2 * Len(samples)]
    BY DEF Appended
  <2> HIDE DEF s, t, samples, new, F
  <2> QED
    BY <2>1, <2>3, <2>4
<1> HIDE DEF new, u, t, s, samples
<1>7. new.bytes = u
  BY <1>6
<1>8. Header(u)
  <2>1. \A k \in 25..36 : k \in 1..m
    BY <1>1
  <2>2. \A k \in 25..36 : u[k] = s[k]
    BY <1>4, <2>1 DEF Joins
  <2>3. Header(s)
    BY DEF WrittenUpTo, s
  <2> QED
    BY <2>2, <2>3, SameHeader, SMT
<1>9. ASSUME NEW i \in 1..n + 1, NEW j \in 1..F
      PROVE  ShortAt(u, Offset(i, j)) = blocks[i][j]
  <2>1. CASE i \in 1..n
    <3> DEFINE o == Offset(i, j)
    <3>1. o \in Nat /\ o >= 44 /\ o + 2 <= m
      BY <2>1, OffsetInside
    <3> HIDE DEF o, m
    <3>2. o + 1 \in 1..m /\ o + 2 \in 1..m
      BY <1>1, <3>1 DEF m
    <3>3. u[o + 1] = s[o + 1] /\ u[o + 2] = s[o + 2]
      BY <1>4, <3>2 DEF Joins
    <3>4. ShortAt(s, o) = blocks[i][j]
      BY <2>1 DEF WrittenUpTo, s, o
    <3> QED
      BY <3>3, <3>4, SameShort DEF o
  <2>2. CASE i = n + 1
    <3> DEFINE k == 2 * (j - 1)
               o == Offset(i, j)
    <3>1. k \in Nat /\ k + 1 \in 1..2 * F /\ k + 2 \in 1..2 * F
      BY <1>1
    <3>2. i - 1 = n
      BY <2>2
    <3>3. o = m + k
      BY <1>1, <3>2 DEF Offset
    <3> HIDE DEF k, o, m
    <3>4. o + 1 = m + (k + 1) /\ o + 2 = m + (k + 2)
      BY <1>1, <3>1, <3>3 DEF m
    <3>5. u[m + (k + 1)] = t[k + 1] /\ u[m + (k + 2)] = t[k + 2]
      BY <1>4, <3>1 DEF Joins
    <3>6. t[k + 1] + 256 * t[k + 2] = samples[j]
      BY <1>2 DEF k
    <3>7. ShortAt(u, o) = samples[j]
      BY <3>4, <3>5, <3>6 DEF ShortAt
    <3> QED
      BY <2>2, <3>7 DEF o, samples
  <2> QED
    BY <2>1, <2>2
<1>10. new = [bytes |-> new.bytes, dataSize |-> 2 * Samples(n + 1), dataSizeOffset |-> 40]
  BY <1>6
<1>11. Bytes(new.bytes, 44 + 2 * Samples(n + 1))
  BY <1>4, <1>5, <1>7
<1> QED
  BY <1>7, <1>8, <1>9, <1>10, <1>11 DEF WrittenUpTo, new, samples

(* The header of a recording: 44100 samples a second, on one channel.      *)
LEMMA HeaderWritten ==
  LET writer == OpenWriter(44100, 1)
  IN  /\ Bytes(writer.bytes, 44)
      /\ writer = [bytes |-> writer.bytes, dataSize |-> 0, dataSizeOffset |-> 40]
      /\ Header(writer.bytes)
<1> DEFINE rate == 44100
           bytesRate == rate * 1 * 2
           block == 1 * 2
           writer == OpenWriter(rate, 1)
           bytes == writer.bytes
<1>1. /\ rate \in Nat /\ rate <= 2147483647
      /\ bytesRate = 88200 /\ bytesRate \in Nat /\ bytesRate <= 2147483647
      /\ block = 2 /\ block \in Nat /\ block < 65536
  BY SMT
<1>2. bytesRate = rate * 1 * 2 /\ block = 1 * 2 /\ writer = OpenWriter(rate, 1)
  BY SMT
<1>3. rate = 44100
  BY SMT
<1> HIDE DEF rate, bytesRate, block, writer
<1>4. /\ Bytes(bytes, 44)
      /\ writer = [bytes |-> bytes, dataSize |-> 0, dataSizeOffset |-> 40]
      /\ \A k \in 1..4 : bytes[24 + k] = LongLE(rate)[k]
      /\ \A k \in 1..4 : bytes[28 + k] = LongLE(bytesRate)[k]
      /\ \A k \in 1..2 : bytes[32 + k] = ShortLE(block)[k]
  BY <1>1, <1>2, Opened, SMT
<1> HIDE DEF bytes
<1>5. LongAt(bytes, 24) = rate
  BY <1>1, <1>4, WrittenLong, SMT
<1>6. LongAt(bytes, 28) = bytesRate
  BY <1>1, <1>4, WrittenLong, SMT
<1>7. ShortAt(bytes, 32) = block
  BY <1>1, <1>4, WrittenShort, SMT
<1>8. Header(bytes)
  BY <1>1, <1>3, <1>5, <1>6, <1>7, SMT DEF Header
<1> QED
  BY <1>4, <1>8, SMT DEF writer, bytes, rate

(* The file that is closed is the one a player reads.                      *)
LEMMA Closed ==
  ASSUME NEW blocks, NEW n \in Nat, NEW w, WrittenUpTo(blocks, w, n),
         44 + 2 * Samples(n) <= 2147483647
  PROVE  /\ Bytes(CloseWriter(w), 44 + 2 * Samples(n))
         /\ LongAt(CloseWriter(w), 4) = 36 + 2 * Samples(n)
         /\ LongAt(CloseWriter(w), 40) = 2 * Samples(n)
         /\ Header(CloseWriter(w))
         /\ \A i \in 1..n, j \in 1..FRAMES_PER_BUFFER :
              ShortAt(CloseWriter(w), Offset(i, j)) = blocks[i][j]
<1> DEFINE file == CloseWriter(w)
           size == 44 + 2 * Samples(n)
           d == 2 * Samples(n)
           riff == size - 8
           once == Patched(w.bytes, 40, LongLE(d))
           twice == Patched(once, 4, LongLE(riff))
<1>1. /\ d \in Nat /\ d <= 2147483647 /\ d = size - 44
      /\ riff \in Nat /\ riff <= 2147483647
      /\ size \in Nat /\ 40 + 4 <= size /\ 4 + 4 <= size /\ size >= 44
  <2>1. Samples(n) \in Nat
    BY SamplesCount
  <2> QED
    BY <2>1, SMT
<1> HIDE DEF size
<1>2. file = twice
  <2>1. w.dataSize = d /\ w.dataSizeOffset = 40
    BY DEF WrittenUpTo
  <2>2. HeaderSize = 44
    BY DEF HeaderSize
  <2> HIDE DEF d
  <2>3. d + HeaderSize - 8 = riff
    BY <1>1, <2>2, SMT
  <2> HIDE DEF riff
  <2> QED
    BY <2>1, <2>3, SMT DEF CloseWriter
<1>3. Bytes(w.bytes, size)
  BY SMT DEF WrittenUpTo, size
<1> HIDE DEF d, riff, twice, once, file
<1>4. Bytes(once, size) /\ IsPatched(once, size, w.bytes, 40, d)
  <2> DEFINE o == 40
  <2>1. o \in Nat /\ o + 4 <= size /\ once = Patched(w.bytes, o, LongLE(d))
    BY <1>1, SMT DEF once
  <2> HIDE DEF o
  <2>2. Bytes(once, size) /\ IsPatched(once, size, w.bytes, o, d)
    BY <1>1, <1>3, <2>1, PatchedBytes, SMT
  <2> QED
    BY <2>2, SMT DEF o
<1>5. Bytes(twice, size) /\ IsPatched(twice, size, once, 4, riff)
  <2> DEFINE o == 4
  <2>1. o \in Nat /\ o + 4 <= size /\ twice = Patched(once, o, LongLE(riff))
    BY <1>1, SMT DEF twice
  <2> HIDE DEF o
  <2>2. Bytes(twice, size) /\ IsPatched(twice, size, once, o, riff)
    BY <1>1, <1>4, <2>1, PatchedBytes, SMT
  <2> QED
    BY <2>2, SMT DEF o
<1>6. LongAt(file, 4) = riff
  BY <1>1, <1>2, <1>5, WrittenLong, SMT DEF IsPatched
<1>7. LongAt(file, 40) = d
  <2>1. \A k \in 1..4 : 40 + k \in 1..size /\ 40 + k \notin 4 + 1..4 + 4
    BY <1>1, SMT
  <2>2. \A k \in 1..4 : twice[40 + k] = LongLE(d)[k]
    BY <1>4, <1>5, <2>1, SMT DEF IsPatched
  <2> QED
    BY <1>1, <1>2, <2>2, WrittenLong, SMT
<1>8. \A k \in 1..size : k \notin 5..8 /\ k \notin 41..44 => twice[k] = w.bytes[k]
  BY <1>4, <1>5, SMT DEF IsPatched
<1>9. Header(file)
  <2>1. \A k \in 25..36 : k \in 1..size /\ k \notin 5..8 /\ k \notin 41..44
    BY <1>1, SMT
  <2>2. \A k \in 25..36 : file[k] = w.bytes[k]
    BY <1>2, <1>8, <2>1, SMT
  <2>3. Header(w.bytes)
    BY SMT DEF WrittenUpTo
  <2> DEFINE old == w.bytes
  <2> HIDE DEF old
  <2> QED
    BY <2>2, <2>3, SameHeader, SMT DEF old
<1>10. ASSUME NEW i \in 1..n, NEW j \in 1..FRAMES_PER_BUFFER
       PROVE  ShortAt(file, Offset(i, j)) = blocks[i][j]
  <2> DEFINE o == Offset(i, j)
             old == w.bytes
  <2>1. o \in Nat /\ o >= 44 /\ o + 2 <= size
    BY OffsetInside, SMT DEF size
  <2>2. ShortAt(old, o) = blocks[i][j]
    BY SMT DEF WrittenUpTo
  <2> HIDE DEF o
  <2>3. /\ o + 1 \in 1..size /\ o + 1 \notin 5..8 /\ o + 1 \notin 41..44
        /\ o + 2 \in 1..size /\ o + 2 \notin 5..8 /\ o + 2 \notin 41..44
    BY <1>1, <2>1, SMT
  <2>4. file[o + 1] = old[o + 1] /\ file[o + 2] = old[o + 2]
    BY <1>2, <1>8, <2>3, SMT
  <2> HIDE DEF old
  <2> QED
    BY <2>2, <2>4, SameShort, SMT DEF o
<1>11. LongAt(file, 4) = 36 + 2 * Samples(n) /\ LongAt(file, 40) = 2 * Samples(n)
  BY <1>6, <1>7, SamplesCount, SMT DEF riff, d, size
<1>12. Bytes(file, 44 + 2 * Samples(n))
  BY <1>2, <1>5, SMT DEF size
<1> QED
  BY <1>9, <1>10, <1>11, <1>12, SMT DEF file

(* The loop of generateAudioFile has written all blocks at its end.        *)
LEMMA Recorded ==
  ASSUME NEW blocks, NEW n \in Nat, Len(blocks) = n,
         \A i \in 1..n : IsBlock(blocks[i])
  PROVE  \E w : WrittenUpTo(blocks, w, n) /\ Recording(blocks) = CloseWriter(w)
<1> DEFINE Writers == [bytes : Seq(Nat), dataSize : Nat, dataSizeOffset : Nat]
           base == OpenWriter(44100, 1)
           Step(i, w) == Appended(w, blocks[i])
           step == [i \in 1..n |-> [w \in Writers |-> Step(i, w)]]
           Loop(f) == f = [i \in 0..n |-> IF i = 0 THEN base ELSE Step(i, f[i - 1])]
           writer == CHOOSE f : Loop(f)
<1>1. /\ Bytes(base.bytes, 44)
      /\ base = [bytes |-> base.bytes, dataSize |-> 0, dataSizeOffset |-> 40]
      /\ Header(base.bytes)
  BY HeaderWritten, SMT
<1>2. Recording(blocks) = CloseWriter(writer[n])
  BY SMT DEF Recording
<1> HIDE DEF base
<1>3. base \in Writers
  BY <1>1 DEF Bytes
<1>4. ASSUME NEW i \in 1..n, NEW w \in Writers PROVE Step(i, w) \in Writers
  <2> DEFINE samples == blocks[i]
             t == Shorts(samples)
  <2>1. IsBlock(samples)
    OBVIOUS
  <2>2. t \in Seq(Nat) /\ Len(samples) \in Nat
    <3>1. /\ Len(samples) = FRAMES_PER_BUFFER
          /\ \A j \in 1..FRAMES_PER_BUFFER : samples[j] \in Nat /\ samples[j] < 65536
      BY <2>1, SMT DEF IsBlock
    <3>2. FRAMES_PER_BUFFER \in Nat
      BY SamplesCount
    <3> HIDE DEF samples
    <3> QED
      BY <3>1, <3>2, ShortsBytes, SMT
  <2>3. Step(i, w) = [w EXCEPT !.bytes = @ \o t, !.dataSize = @ + 2 * Len(samples)]
    BY DEF Appended
  <2> HIDE DEF t, samples, Step
  <2>4. w.bytes \o t \in Seq(Nat) /\ w.dataSize + 2 * Len(samples) \in Nat
    BY <2>2, ConcatProperties
  <2> QED
    BY <2>3, <2>4
<1>5. step \in [1..n -> [Writers -> Writers]]
  <2> HIDE DEF Writers, Step
  <2> QED
    BY <1>4
<1>6. \E f : Loop(f)
  <2>1. PICK f : Ran(f, Writers, base, n, step)
    <3> HIDE DEF Writers, step
    <3> QED
      BY <1>3, <1>5, LoopExists, Zenon
  <2>2. \A i \in 1..n : f[i] = Step(i, f[i - 1])
    <3> HIDE DEF Writers, Step
    <3> QED
      BY <2>1 DEF Ran
  <2>3. \A i \in 0..n : i = 0 \/ i \in 1..n
    OBVIOUS
  <2>4. Loop(f)
    <3> HIDE DEF step, Writers, Step
    <3> QED
      BY <2>1, <2>2, <2>3 DEF Ran
  <2> QED
    BY <2>4
<1>7. Loop(writer)
  BY <1>6
<1> HIDE DEF writer
<1>8. writer[0] = base
  BY <1>7
<1>9. \A i \in 1..n : writer[i] = Appended(writer[i - 1], blocks[i])
  <2>1. \A i \in 1..n : i \in 0..n /\ i # 0
    OBVIOUS
  <2> QED
    BY <1>7, <2>1
<1> DEFINE T == {i \in 0..n : WrittenUpTo(blocks, writer[i], i)}
<1>10. 0 \in T
  <2>1. 2 * Samples(0) = 0 /\ 44 + 2 * Samples(0) = 44
    <3>1. Samples(0) = 0
      BY SamplesCount, Zenon
    <3> QED
      BY <3>1
  <2>2. WrittenUpTo(blocks, base, 0)
    BY <1>1, <2>1 DEF WrittenUpTo
  <2> QED
    BY <1>8, <2>2
<1>11. ASSUME NEW i \in 1..n, i - 1 \in T
       PROVE  i \in T
  <2> DEFINE m == i - 1
             w == writer[m]
  <2>1. m \in Nat /\ m + 1 = i
    OBVIOUS
  <2>2. WrittenUpTo(blocks, w, m)
    BY <1>11
  <2>3. writer[i] = Appended(w, blocks[i])
    BY <1>9
  <2> HIDE DEF m, w
  <2>4. IsBlock(blocks[m + 1])
    BY <2>1
  <2>5. WrittenUpTo(blocks, Appended(w, blocks[m + 1]), m + 1)
    BY <2>1, <2>2, <2>4, WriteOneMore
  <2> QED
    BY <2>1, <2>3, <2>5
<1>12. n \in T
  <2> HIDE DEF T
  <2>1. \A i \in 1..n : i - 1 \in T => i \in T
    BY <1>11
  <2>2. \A i \in 0..n : i \in T
    BY <1>10, <2>1, Induction, Zenon
  <2> QED
    BY <2>2
<1> QED
  BY <1>2, <1>12

(* An input of the kind "blocks" is one of Recordings.                     *)
LEMMA BlocksPicked ==
  ASSUME Picked, input.kind = "blocks"
  PROVE  input.blocks \in Recordings
<1>1. ASSUME NEW c, input = [kind |-> "cut", file |-> c.file, length |-> c.length]
      PROVE  FALSE
  BY <1>1
<1>2. ASSUME NEW f, input = [kind |-> "rules", file |-> f]
      PROVE  FALSE
  BY <1>2
<1>3. ASSUME NEW f, input = [kind |-> "user", file |-> f]
      PROVE  FALSE
  BY <1>3
<1>4. input # [kind |-> "none"]
  OBVIOUS
<1>5. PICK b \in Recordings : input = [kind |-> "blocks", blocks |-> b]
  BY <1>1, <1>2, <1>3, <1>4 DEF Picked
<1> QED
  BY <1>5

(* WavReads (pa_write_wav.cpp:146): a recording of any number of blocks of *)
(* any size has the sizes of the file and of the samples in its header,    *)
(* and every sample where a player looks for it.                           *)
THEOREM WavAlwaysReads == Spec => []WavReads
<1>1. Picked => WavReads
  <2> DEFINE blocks == input.blocks
             n == Len(blocks)
             file == Recording(blocks)
             size == 44 + 2 * Samples(n)
  <2> SUFFICES ASSUME Picked, input.kind = "blocks" PROVE WavReads
    BY DEF WavReads
  <2>1. blocks \in Recordings
    BY BlocksPicked
  <2> HIDE DEF blocks
  <2>2. n \in Nat
    BY <2>1, BlockAssumption, SMT DEF IsList
  <2>3. \A i \in 1..n : IsBlock(blocks[i])
    BY <2>1, BlockAssumption, SMT DEF IsBlock
  <2>4. size <= 2147483647
    BY <2>1, BlockAssumption, SMT DEF HeaderSize, Samples
  <2> HIDE DEF n
  <2>5. PICK w : WrittenUpTo(blocks, w, n) /\ file = CloseWriter(w)
    BY <2>2, <2>3, Recorded, SMT DEF n
  <2> HIDE DEF file, size
  <2>6. /\ Bytes(file, size)
        /\ LongAt(file, 4) = size - 8
        /\ LongAt(file, 40) = size - 44
        /\ Header(file)
        /\ \A i \in 1..n, j \in 1..FRAMES_PER_BUFFER :
             ShortAt(file, Offset(i, j)) = blocks[i][j]
    <3>1. size = 44 + 2 * Samples(n) /\ Samples(n) \in Nat
      BY <2>2, SamplesCount, SMT DEF size
    <3>2. 44 + 2 * Samples(n) <= 2147483647
      BY <2>4, <3>1, SMT
    <3> HIDE DEF n
    <3>3. /\ Bytes(file, 44 + 2 * Samples(n))
          /\ LongAt(file, 4) = 36 + 2 * Samples(n)
          /\ LongAt(file, 40) = 2 * Samples(n)
          /\ Header(file)
          /\ \A i \in 1..n, j \in 1..FRAMES_PER_BUFFER :
               ShortAt(file, Offset(i, j)) = blocks[i][j]
      BY <2>2, <2>5, <3>2, Closed, SMT
    <3> QED
      BY <3>1, <3>3, SMT
  <2>7. Len(file) = size /\ size = 44 + 2 * (n * FRAMES_PER_BUFFER)
    BY <2>6, SMT DEF Bytes, size, Samples
  <2>8. LongAt(file, 28) = LongAt(file, 24) * ShortAt(file, 32)
    BY <2>6, SMT DEF Header
  <2>9. \A i \in 1..n, j \in 1..FRAMES_PER_BUFFER :
          ShortAt(file, 44 + 2 * ((i - 1) * FRAMES_PER_BUFFER + j - 1)) = blocks[i][j]
    BY <2>6, SMT DEF Offset, Samples
  <2> QED
    BY <2>6, <2>7, <2>8, <2>9, SMT DEF WavReads, file, n, blocks
<1> QED
  BY <1>1, InputPicked, PTL
=============================================================================
