------------------------ MODULE ProviderAdapterProofs ------------------------
(***************************************************************************)
(* Proofs about ProviderAdapter for any number of calls, any usage         *)
(* metadata, cumulative or in pieces, and streams of any length.  The      *)
(* invariant adds to the types that final_usage is one of the reports so   *)
(* far, and has room for all of them if they are cumulative (Fits), and    *)
(* that the last item of a call that is over holds it (Handed).            *)
(* Told adds the texts: the caller has heard what the SDK has said, and an *)
(* item with no text is the last one.  From both follows what the caller   *)
(* sees of every step (View), a step of ProviderContract or none.          *)
(***************************************************************************)
EXTENDS ProviderAdapter, DataLemmas

Block     == UNION {Content(k) : k \in Nat}
Delivered == [content : Block, metadata : Metadata]
Delta     == {NormalizeContent(content) : content \in Block} \cup {<<>>}
Given     == [delta : Delta, final : BOOLEAN, usage : Usage \cup {None}]

Types ==
  /\ TypeOK
  /\ sdk \in [Call -> Seq(Delivered)]
  /\ given \in [Call -> Seq(Given)]

\* The usage for what the SDK reported so far: none if nothing was, else one of
\* the reports, and the largest if each contains those before it.
Fits(c, usage) ==
  /\ usage = None <=> \A i \in DOMAIN sdk[c] : DOMAIN sdk[c][i].metadata = {}
  /\ usage # None =>
       \E i \in DOMAIN sdk[c] : usage = UsageFromMetadata(sdk[c][i].metadata)
  /\ Cumulative(c) => \A i \in DOMAIN sdk[c] : Covers(usage, sdk[c][i].metadata)

Early(c) == phase[c] \in {"idle", "build", "answer"}

Kept(c) ==
  /\ phase[c] \in {"answer", "returned"} => ~ask[c].stream
  /\ phase[c] \in {"chunk", "text", "final", "exhausted"} => ask[c].stream
  /\ Early(c) => sdk[c] = <<>> /\ final_usage[c] = None
  /\ phase[c] \in {"chunk", "text", "final", "exhausted"} => Fits(c, final_usage[c])

Handed(c) ==
  /\ Closed(c) => Len(given[c]) > 0
  /\ phase[c] = "returned" => Fits(c, LastUsage(c))
  /\ phase[c] \in {"final", "exhausted"} => LastUsage(c) = final_usage[c]

IInv == Types /\ \A c \in Call : Kept(c) /\ Handed(c)

-----------------------------------------------------------------------------
(* What is reported.                                                       *)

\* usage_metadata has numbers, and a field that is missing counts as zero.
LEMMA TokensType ==
  ASSUME NEW m \in Metadata, NEW f \in Field
  PROVE  Tokens(m, f) \in Nat
BY AdapterAssumption DEF Tokens

\* What a report is converted to, and that it has room for the report.
LEMMA Converted ==
  ASSUME NEW m \in Metadata
  PROVE  /\ UsageFromMetadata(m) \in Usage \cup {None}
         /\ UsageFromMetadata(m) # None <=> DOMAIN m # {}
         /\ Covers(UsageFromMetadata(m), m)
<1>1. /\ Tokens(m, "input_tokens") \in Nat /\ Tokens(m, "output_tokens") \in Nat
      /\ Tokens(m, "total_tokens") \in Nat
  BY TokensType DEF Field
<1>2. CASE DOMAIN m = {}
  BY <1>2 DEF UsageFromMetadata, Covers
<1>3. CASE DOMAIN m # {}
  <2>1. UsageFromMetadata(m) = [prompt |-> Tokens(m, "input_tokens"),
                                completion |-> Tokens(m, "output_tokens"),
                                total |-> Tokens(m, "total_tokens")]
    BY <1>3 DEF UsageFromMetadata
  <2>2. UsageFromMetadata(m) \in Usage
    BY <1>1, <2>1 DEF Usage
  <2>3. UsageFromMetadata(m) # None
    BY <2>2, AdapterAssumption DEF Usage
  <2> QED
    BY <1>1, <1>3, <2>1, <2>2, <2>3 DEF Covers
<1> QED
  BY <1>2, <1>3

\* A report that has no less in any field than an earlier one covers it too.
LEMMA CoversEarlier ==
  ASSUME NEW m \in Metadata, NEW n \in Metadata, DOMAIN m # {},
         \A f \in DOMAIN n : f \in DOMAIN m /\ n[f] <= m[f]
  PROVE  Covers(UsageFromMetadata(m), n)
<1>1. ASSUME NEW f \in Field PROVE Tokens(n, f) <= Tokens(m, f)
  <2>1. Tokens(m, f) \in Nat /\ Tokens(n, f) \in Nat
    BY TokensType
  <2> QED
    BY <2>1 DEF Tokens
<1>2. UsageFromMetadata(m) = [prompt |-> Tokens(m, "input_tokens"),
                              completion |-> Tokens(m, "output_tokens"),
                              total |-> Tokens(m, "total_tokens")]
  BY DEF UsageFromMetadata
<1> QED
  BY <1>1, <1>2, Converted DEF Covers, Field

-----------------------------------------------------------------------------
(* One step of one call.                                                   *)

Same(d) ==
  /\ phase'[d] = phase[d] /\ ask'[d] = ask[d] /\ sdk'[d] = sdk[d]
  /\ final_usage'[d] = final_usage[d] /\ given'[d] = given[d]

\* Nothing fits when nothing was delivered.
LEMMA NothingFits ==
  ASSUME NEW c \in Call, sdk[c] = <<>>
  PROVE  Fits(c, None)
BY EmptySeq DEF Fits

\* What fits depends on what was delivered and given, and on nothing else.
LEMMA FitsSame ==
  ASSUME NEW c \in Call, sdk'[c] = sdk[c], final_usage'[c] = final_usage[c],
         given'[c] = given[c]
  PROVE  /\ Fits(c, final_usage[c])' <=> Fits(c, final_usage[c])
         /\ Fits(c, LastUsage(c))' <=> Fits(c, LastUsage(c))
         /\ LastUsage(c)' = LastUsage(c)
<1>1. Cumulative(c)' <=> Cumulative(c)
  BY Zenon DEF Cumulative
<1>2. LastUsage(c)' = LastUsage(c)
  BY Zenon DEF LastUsage
<1> QED
  BY <1>1, <1>2, Zenon DEF Fits

\* A step of one call is no business of the others.
LEMMA OneMoves ==
  ASSUME IInv, NEW c \in Call, Types', Kept(c)', Handed(c)',
         \A d \in Call \ {c} : Same(d)
  PROVE  IInv'
<1>1. ASSUME NEW d \in Call \ {c} PROVE Kept(d)' /\ Handed(d)'
  <2>1. /\ sdk'[d] = sdk[d] /\ final_usage'[d] = final_usage[d] /\ given'[d] = given[d]
        /\ phase'[d] = phase[d] /\ ask'[d] = ask[d] /\ Kept(d) /\ Handed(d)
    BY <1>1 DEF Same, IInv
  <2> QED
    BY <1>1, <2>1, FitsSame DEF Kept, Handed, Early, Closed
<1> QED
  BY <1>1 DEF IInv

\* No call has begun.
LEMMA InitInv == Init => IInv
<1> SUFFICES ASSUME Init PROVE IInv
  OBVIOUS
<1>1. Types
  BY DEF Init, Types, TypeOK
<1>2. \A c \in Call : Kept(c) /\ Handed(c)
  BY DEF Init, Kept, Handed, Early, Closed
<1> QED
  BY <1>1, <1>2 DEF IInv

\* The request of a call is fixed when it begins.
LEMMA StartStep ==
  ASSUME IInv, NEW c \in Call, Start(c)
  PROVE  IInv'
<1>1. PICK p \in ProviderName, s \in BOOLEAN :
        ask' = [ask EXCEPT ![c] = [provider |-> p, stream |-> s]]
  BY DEF Start
<1>2. /\ phase[c] = "idle" /\ phase' = [phase EXCEPT ![c] = "build"]
      /\ sdk' = sdk /\ final_usage' = final_usage /\ given' = given
  BY DEF Start, Go
<1>3. Types'
  BY <1>1, <1>2, AdapterAssumption DEF IInv, Types, TypeOK
<1>4. phase'[c] = "build" /\ sdk'[c] = <<>> /\ final_usage'[c] = None
  BY <1>2 DEF IInv, Types, TypeOK, Kept, Early
<1>5. Kept(c)' /\ Handed(c)'
  BY <1>4 DEF Kept, Handed, Early, Closed
<1>6. \A d \in Call \ {c} : Same(d)
  BY <1>1, <1>2 DEF IInv, Types, TypeOK, Same
<1> QED
  BY <1>3, <1>5, <1>6, OneMoves

\* Steps that neither deliver nor give anything.
LEMMA PhaseStep ==
  ASSUME IInv, NEW c \in Call,
         \/ Build(c) \/ BuildRaises(c) \/ AnswerUnusable(c) \/ SdkFails(c)
         \/ Resume(c) \/ Exhaust(c) \/ Leave(c)
  PROVE  IInv'
<1>1. PICK to : phase' = [phase EXCEPT ![c] = to]
                /\ \/ phase[c] = "build" /\ to = IF ask[c].stream THEN "chunk" ELSE "answer"
                   \/ phase[c] = "text" /\ to = "chunk"
                   \/ phase[c] = "final" /\ to = "exhausted"
                   \/ phase[c] # "idle" /\ to \in {"raised", "failed", "left"}
  BY DEF Build, BuildRaises, AnswerUnusable, SdkFails, Resume, Exhaust, Leave, Go,
         Awaiting, Suspended
<1>2. ask' = ask /\ sdk' = sdk /\ final_usage' = final_usage /\ given' = given
  BY DEF Build, BuildRaises, AnswerUnusable, SdkFails, Resume, Exhaust, Leave
<1>3. to \in {"chunk", "answer", "exhausted", "raised", "failed", "left"} /\ phase[c] # "idle"
  BY <1>1
<1>4. Types'
  BY <1>1, <1>2, <1>3 DEF IInv, Types, TypeOK, Awaiting, Suspended, Ended
<1>5. phase'[c] = to
  BY <1>1 DEF IInv, Types, TypeOK
<1>s. /\ Fits(c, final_usage[c])' <=> Fits(c, final_usage[c])
      /\ Fits(c, LastUsage(c))' <=> Fits(c, LastUsage(c))
      /\ LastUsage(c)' = LastUsage(c)
  BY <1>2, FitsSame
<1>6. Kept(c)'
  <2>1. Kept(c)
    BY DEF IInv
  <2>2. CASE phase[c] = "build"
    <3>1. sdk[c] = <<>> /\ final_usage[c] = None
      BY <2>1, <2>2 DEF Kept, Early
    <3>2. Fits(c, final_usage[c])
      BY <3>1, NothingFits
    <3> QED
      BY <1>1, <1>2, <1>s, <1>5, <2>2, <3>1, <3>2 DEF Kept, Early
  <2>3. CASE phase[c] # "build"
    BY <1>1, <1>2, <1>s, <1>5, <2>1, <2>3 DEF Kept, Early
  <2> QED
    BY <2>2, <2>3
<1>7. Handed(c)'
  BY <1>1, <1>2, <1>s, <1>5 DEF IInv, Handed, Closed
<1>8. \A d \in Call \ {c} : Same(d)
  BY <1>1, <1>2 DEF IInv, Types, TypeOK, Same
<1> QED
  BY <1>4, <1>6, <1>7, <1>8, OneMoves

\* What is given is given last.
LEMMA GivenLast ==
  ASSUME Types, NEW c \in Call, NEW item \in Given, Give(c, item)
  PROVE  /\ given' \in [Call -> Seq(Given)]
         /\ Len(given'[c]) > 0 /\ given'[c][Len(given'[c])] = item
         /\ \A d \in Call \ {c} : given'[d] = given[d]
<1>1. given \in [Call -> Seq(Given)] /\ given' = [given EXCEPT ![c] = Append(given[c], item)]
  BY DEF Types, Give
<1>2. given'[c] = Append(given[c], item) /\ given[c] \in Seq(Given)
  BY <1>1
<1> QED
  BY <1>1, <1>2

\* What is delivered is delivered last.
LEMMA DeliveredLast ==
  ASSUME Types, NEW c \in Call, NEW content \in Block, NEW m \in Metadata,
         Deliver(c, content, m)
  PROVE  /\ sdk' \in [Call -> Seq(Delivered)]
         /\ sdk'[c] = Append(sdk[c], [content |-> content, metadata |-> m])
         /\ \A d \in Call \ {c} : sdk'[d] = sdk[d]
<1>1. [content |-> content, metadata |-> m] \in Delivered
  BY DEF Delivered
<1> QED
  BY <1>1 DEF Types, Deliver

\* What a sequence of records holds after one more, entry by entry.
LEMMA OneMore ==
  ASSUME Types, NEW c \in Call, NEW content, NEW m,
         sdk'[c] = Append(sdk[c], [content |-> content, metadata |-> m])
  PROVE  /\ DOMAIN sdk[c] \subseteq DOMAIN sdk'[c]
         /\ \A i \in DOMAIN sdk[c] : /\ sdk'[c][i].metadata = sdk[c][i].metadata
                                    /\ sdk[c][i].metadata \in Metadata
         /\ \E n \in DOMAIN sdk'[c] :
              /\ sdk'[c][n].metadata = m
              /\ \A i \in DOMAIN sdk'[c] : i <= n /\ (i = n \/ i \in DOMAIN sdk[c])
<1> DEFINE s == sdk[c]
           d == [content |-> content, metadata |-> m]
<1>1. s \in Seq(Delivered) /\ sdk'[c] = Append(s, d) /\ d.metadata = m
  BY DEF Types
<1> HIDE DEF s, d
<1>2. /\ DOMAIN s = 1 .. Len(s) /\ Len(s) \in Nat
      /\ DOMAIN sdk'[c] = 1 .. (Len(s) + 1)
      /\ sdk'[c][Len(s) + 1] = d
      /\ \A i \in 1 .. Len(s) : sdk'[c][i] = s[i] /\ s[i] \in Delivered
  BY <1>1
<1>3. \A i \in DOMAIN s : sdk'[c][i].metadata = s[i].metadata /\ s[i].metadata \in Metadata
  BY <1>2 DEF Delivered
<1>4. \E n \in DOMAIN sdk'[c] :
        /\ sdk'[c][n].metadata = m
        /\ \A i \in DOMAIN sdk'[c] : i <= n /\ (i = n \/ i \in DOMAIN s)
  <2>1. Len(s) + 1 \in DOMAIN sdk'[c]
    BY <1>2
  <2>2. sdk'[c][Len(s) + 1].metadata = m
    BY <1>1, <1>2
  <2>3. \A i \in DOMAIN sdk'[c] : i <= Len(s) + 1 /\ (i = Len(s) + 1 \/ i \in DOMAIN s)
    BY <1>2
  <2> QED
    BY <2>1, <2>2, <2>3
<1>5. DOMAIN s \subseteq DOMAIN sdk'[c]
  BY <1>2
<1> QED
  BY <1>3, <1>4, <1>5 DEF s

\* The latest report that says something fits all that were delivered.
LEMMA FoldFits ==
  ASSUME Types, NEW c \in Call, NEW content, NEW m \in Metadata,
         NEW usage, NEW u, Fits(c, usage), u = Fold(usage, m),
         sdk'[c] = Append(sdk[c], [content |-> content, metadata |-> m])
  PROVE  Fits(c, u)'
<1>1. PICK n \in DOMAIN sdk'[c] :
        /\ sdk'[c][n].metadata = m
        /\ \A i \in DOMAIN sdk'[c] : i <= n /\ (i = n \/ i \in DOMAIN sdk[c])
  BY OneMore
<1>2. /\ DOMAIN sdk[c] \subseteq DOMAIN sdk'[c]
      /\ \A i \in DOMAIN sdk[c] : /\ sdk'[c][i].metadata = sdk[c][i].metadata
                                 /\ sdk[c][i].metadata \in Metadata
  BY OneMore
<1>3. Cumulative(c)' => Cumulative(c)
  BY <1>2 DEF Cumulative
<1>4. CASE DOMAIN m = {}
  <2>1. u = usage
    BY <1>4, Converted DEF Fold
  <2>2. Covers(u, m)
    BY <1>4 DEF Covers
  <2> QED
    BY <1>1, <1>2, <1>3, <1>4, <2>1, <2>2 DEF Fits
<1>5. CASE DOMAIN m # {}
  <2>1. u = UsageFromMetadata(m) /\ u # None /\ Covers(u, m)
    BY <1>5, Converted DEF Fold
  <2>2. ASSUME Cumulative(c)', NEW i \in DOMAIN sdk[c]
        PROVE  Covers(u, sdk[c][i].metadata)
    <3>1. \A f \in DOMAIN sdk'[c][i].metadata :
            f \in DOMAIN m /\ sdk'[c][i].metadata[f] <= m[f]
      BY <1>1, <1>2, <1>5, <2>2 DEF Cumulative
    <3> QED
      BY <1>2, <1>5, <2>1, <3>1, CoversEarlier
  <2>3. Cumulative(c)' => \A i \in DOMAIN sdk'[c] : Covers(u, sdk'[c][i].metadata)
    BY <1>1, <1>2, <2>1, <2>2
  <2> QED
    BY <1>1, <1>5, <2>1, <2>3 DEF Fits
<1> QED
  BY <1>4, <1>5

\* The usage of an item is a usage or none.
LEMMA UsagesGiven ==
  ASSUME NEW g \in Seq(Given), NEW i \in DOMAIN g
  PROVE  g[i].usage \in Usage \cup {None}
<1>1. g[i] \in Given
  OBVIOUS
<1> QED
  BY <1>1 DEF Given

\* What an item of the adapters is.
LEMMA ItemType ==
  ASSUME NEW k \in Nat, NEW content \in Content(k), NEW final \in BOOLEAN,
         NEW usage \in Usage \cup {None}
  PROVE  /\ content \in Block
         /\ Item(NormalizeContent(content), final, usage) \in Given
         /\ Item(<<>>, final, usage) \in Given
<1>1. content \in Block
  BY DEF Block
<1>2. NormalizeContent(content) \in Delta /\ <<>> \in Delta
  BY <1>1 DEF Delta
<1> QED
  BY <1>1, <1>2 DEF Item, Given

\* An answer has the usage of the one message there is.
LEMMA AnswersStep ==
  ASSUME IInv, NEW c \in Call, Answers(c)
  PROVE  IInv'
<1>1. PICK content \in Content(1), m \in Metadata :
        /\ Deliver(c, content, m)
        /\ Give(c, Item(NormalizeContent(content), TRUE, UsageFromMetadata(m)))
  BY DEF Answers
<1>2. /\ phase[c] = "answer" /\ phase' = [phase EXCEPT ![c] = "returned"]
      /\ ask' = ask /\ final_usage' = final_usage
  BY DEF Answers, Go
<1>3. /\ Types /\ ~ask[c].stream /\ sdk[c] = <<>>
      /\ UsageFromMetadata(m) \in Usage \cup {None}
      /\ UsageFromMetadata(m) = Fold(None, m)
  BY <1>2, Converted DEF IInv, Kept, Early, Fold
<1>t. PICK item : item = Item(NormalizeContent(content), TRUE, UsageFromMetadata(m))
  OBVIOUS
<1>4. content \in Block /\ item \in Given /\ item.usage = UsageFromMetadata(m)
  BY <1>3, <1>t, ItemType DEF Item
<1>5. /\ given' \in [Call -> Seq(Given)]
      /\ Len(given'[c]) > 0 /\ given'[c][Len(given'[c])] = item
      /\ \A d \in Call \ {c} : given'[d] = given[d]
  BY <1>1, <1>3, <1>4, <1>t, GivenLast
<1>6. /\ sdk' \in [Call -> Seq(Delivered)]
      /\ sdk'[c] = Append(sdk[c], [content |-> content, metadata |-> m])
      /\ \A d \in Call \ {c} : sdk'[d] = sdk[d]
  BY <1>1, <1>3, <1>4, DeliveredLast
<1>7. Types'
  <2>1. \A d \in Call : \A i \in DOMAIN given'[d] : given'[d][i].usage \in Usage \cup {None}
    BY <1>5, UsagesGiven
  <2> QED
    BY <1>2, <1>3, <1>5, <1>6, <2>1 DEF Types, TypeOK, Ended
<1>8. phase'[c] = "returned"
  BY <1>2, <1>3 DEF Types, TypeOK
<1>9. Kept(c)'
  BY <1>2, <1>3, <1>8 DEF Kept, Early
<1>10. Fits(c, item.usage)'
  <2>1. Fits(c, None)
    BY <1>3, NothingFits
  <2> QED
    BY <1>3, <1>4, <1>6, <2>1, FoldFits
<1>11. Handed(c)'
  BY <1>5, <1>8, <1>10 DEF Handed, LastUsage
<1>12. \A d \in Call \ {c} : Same(d)
  BY <1>2, <1>3, <1>5, <1>6 DEF Types, TypeOK, Same
<1> QED
  BY <1>7, <1>9, <1>11, <1>12, OneMoves

\* The usage that is kept while chunks arrive fits what they report.
LEMMA ArriveKeeps ==
  ASSUME IInv, NEW c \in Call, NEW content \in Block, Arrive(c, content),
         Fits(c, final_usage[c])
  PROVE  /\ Fits(c, final_usage[c])'
         /\ final_usage' \in [Call -> Usage \cup {None}]
         /\ sdk' \in [Call -> Seq(Delivered)] /\ ask' = ask
         /\ \A d \in Call \ {c} : sdk'[d] = sdk[d] /\ final_usage'[d] = final_usage[d]
<1>1. PICK m \in Metadata :
        /\ Deliver(c, content, m)
        /\ final_usage' = [final_usage EXCEPT ![c] = Fold(final_usage[c], m)]
  BY DEF Arrive
<1>2. /\ Types /\ ask' = ask /\ final_usage \in [Call -> Usage \cup {None}]
  BY DEF IInv, Arrive, Types, TypeOK
<1>u. PICK u : u = Fold(final_usage[c], m)
  OBVIOUS
<1>3. u \in Usage \cup {None}
  BY <1>2, <1>u, Converted DEF Fold
<1>4. /\ sdk' \in [Call -> Seq(Delivered)]
      /\ sdk'[c] = Append(sdk[c], [content |-> content, metadata |-> m])
      /\ \A d \in Call \ {c} : sdk'[d] = sdk[d]
  BY <1>1, <1>2, DeliveredLast
<1>5. /\ final_usage' \in [Call -> Usage \cup {None}] /\ final_usage'[c] = u
      /\ \A d \in Call \ {c} : final_usage'[d] = final_usage[d]
  BY <1>1, <1>2, <1>3, <1>u
<1>6. Fits(c, u)'
  BY <1>2, <1>4, <1>u, FoldFits
<1>7. Fits(c, final_usage[c])'
  BY <1>5, <1>6, Zenon DEF Fits
<1> QED
  BY <1>2, <1>4, <1>5, <1>7

\* A chunk with a text, or without one.
LEMMA PullStep ==
  ASSUME IInv, NEW c \in Call, PullText(c) \/ PullSilence(c)
  PROVE  IInv'
<1>1. PICK content \in Content(Len(sdk[c]) + 1), to \in {"text", "chunk"} :
        /\ Arrive(c, content)
        /\ phase[c] = "chunk" /\ phase' = [phase EXCEPT ![c] = to]
        /\ \/ Give(c, Item(NormalizeContent(content), FALSE, None))
           \/ given' = given
  BY DEF PullText, PullSilence, Go, IInv, Types, TypeOK
<1>2. /\ Types /\ Len(sdk[c]) + 1 \in Nat /\ ask[c].stream
      /\ Fits(c, final_usage[c])
  BY <1>1 DEF IInv, Types, Kept
<1>3. content \in Block /\ Item(NormalizeContent(content), FALSE, None) \in Given
  BY <1>2, ItemType
<1>4. /\ Fits(c, final_usage[c])'
      /\ final_usage' \in [Call -> Usage \cup {None}]
      /\ sdk' \in [Call -> Seq(Delivered)] /\ ask' = ask
      /\ \A d \in Call \ {c} : sdk'[d] = sdk[d] /\ final_usage'[d] = final_usage[d]
  BY <1>1, <1>2, <1>3, ArriveKeeps
<1>5. given' \in [Call -> Seq(Given)] /\ \A d \in Call \ {c} : given'[d] = given[d]
  BY <1>1, <1>2, <1>3, GivenLast DEF Types
<1>6. Types'
  <2>1. \A d \in Call : \A i \in DOMAIN given'[d] : given'[d][i].usage \in Usage \cup {None}
    BY <1>5, UsagesGiven
  <2> QED
    BY <1>1, <1>2, <1>4, <1>5, <2>1 DEF Types, TypeOK, Awaiting, Suspended
<1>7. phase'[c] \in {"text", "chunk"}
  BY <1>1, <1>2 DEF Types, TypeOK
<1>8. Kept(c)' /\ Handed(c)'
  BY <1>2, <1>4, <1>7 DEF Kept, Handed, Early, Closed
<1>9. \A d \in Call \ {c} : Same(d)
  BY <1>1, <1>2, <1>4, <1>5 DEF Types, TypeOK, Same
<1> QED
  BY <1>6, <1>8, <1>9, OneMoves

\* The final item has the usage that was kept.
LEMMA EndStep ==
  ASSUME IInv, NEW c \in Call, PullEnd(c)
  PROVE  IInv'
<1>1. /\ phase[c] = "chunk" /\ phase' = [phase EXCEPT ![c] = "final"]
      /\ Give(c, Item(<<>>, TRUE, final_usage[c]))
      /\ ask' = ask /\ sdk' = sdk /\ final_usage' = final_usage
  BY DEF PullEnd, Go
<1>2. /\ Types /\ ask[c].stream /\ Fits(c, final_usage[c])
      /\ final_usage[c] \in Usage \cup {None}
  BY <1>1 DEF IInv, Types, TypeOK, Kept
<1>t. PICK item : item = Item(<<>>, TRUE, final_usage[c])
  OBVIOUS
<1>3. item \in Given /\ item.usage = final_usage[c]
  <2>1. <<>> \in Delta
    BY DEF Delta
  <2> QED
    BY <1>2, <1>t, <2>1 DEF Item, Given
<1>4. /\ given' \in [Call -> Seq(Given)]
      /\ Len(given'[c]) > 0 /\ given'[c][Len(given'[c])] = item
      /\ \A d \in Call \ {c} : given'[d] = given[d]
  BY <1>1, <1>2, <1>3, <1>t, GivenLast
<1>5. Types'
  <2>1. \A d \in Call : \A i \in DOMAIN given'[d] : given'[d][i].usage \in Usage \cup {None}
    BY <1>4, UsagesGiven
  <2> QED
    BY <1>1, <1>2, <1>4, <2>1 DEF Types, TypeOK, Suspended
<1>6. phase'[c] = "final"
  BY <1>1, <1>2 DEF Types, TypeOK
<1>7. Kept(c)'
  BY <1>1, <1>2, <1>6 DEF Kept, Early, Fits, Cumulative
<1>8. Handed(c)'
  BY <1>1, <1>3, <1>4, <1>6 DEF Handed, LastUsage
<1>9. \A d \in Call \ {c} : Same(d)
  BY <1>1, <1>2, <1>4 DEF Types, TypeOK, Same
<1> QED
  BY <1>5, <1>7, <1>8, <1>9, OneMoves

\* Every step keeps the invariant.
LEMMA NextInv == IInv /\ [Next]_vars => IInv'
<1> SUFFICES ASSUME IInv, [Next]_vars PROVE IInv'
  OBVIOUS
<1>1. ASSUME NEW c \in Call, Step(c) PROVE IInv'
  BY <1>1, StartStep, PhaseStep, AnswersStep, PullStep, EndStep DEF Step
<1>2. CASE UNCHANGED vars
  <2>1. /\ phase' = phase /\ ask' = ask /\ sdk' = sdk
        /\ final_usage' = final_usage /\ given' = given
    BY <1>2 DEF vars
  <2>2. Types'
    BY <2>1, Zenon DEF IInv, Types, TypeOK
  <2>3. ASSUME NEW c \in Call PROVE Kept(c)' /\ Handed(c)'
    <3>1. Kept(c) /\ Handed(c)
      BY DEF IInv
    <3>2. Fits(c, final_usage[c])' <=> Fits(c, final_usage[c])
      BY <2>1 DEF Fits, Cumulative
    <3>3. LastUsage(c)' = LastUsage(c)
      BY <2>1 DEF LastUsage
    <3>4. Fits(c, LastUsage(c))' <=> Fits(c, LastUsage(c))
      BY <2>1, <3>3 DEF Fits, Cumulative
    <3>5. Kept(c)'
      BY <2>1, <3>1, <3>2 DEF Kept, Early
    <3>6. Handed(c)'
      BY <2>1, <3>1, <3>3, <3>4 DEF Handed, Closed
    <3> QED
      BY <3>5, <3>6
  <2> QED
    BY <2>2, <2>3 DEF IInv
<1> QED
  BY <1>1, <1>2 DEF Next, Quiet

\* The invariant holds in every reachable state.
THEOREM Invariance == Spec => []IInv
BY InitInv, NextInv, PTL DEF Spec

\* Every variable keeps its type, whatever an SDK delivers.
THEOREM TypeCorrectness == Spec => []TypeOK
<1>1. IInv => TypeOK
  BY DEF IInv, Types
<1> QED
  BY <1>1, Invariance, PTL

\* Whatever an SDK reports, cumulative or in pieces, and however long the stream
\* is: the caller of a complete call gets one of the reports unless there was
\* none, and one that covers them all if they are cumulative.  That it need not
\* cover reports in pieces is what AllTokensCounted is violated by.
THEOREM UsageIsAReport == Spec => []UsageKept
<1>1. IInv => UsageKept
  <2> SUFFICES ASSUME IInv, NEW c \in Call, Closed(c)
               PROVE  Fits(c, LastUsage(c))
    BY DEF UsageKept, Fits
  <2>1. Kept(c) /\ Handed(c)
    BY DEF IInv
  <2>2. CASE phase[c] = "returned"
    BY <2>1, <2>2 DEF Handed
  <2>3. CASE phase[c] \in {"final", "exhausted"}
    BY <2>1, <2>3 DEF Kept, Handed
  <2> QED
    BY <2>2, <2>3 DEF Closed
<1> QED
  BY <1>1, Invariance, PTL

-----------------------------------------------------------------------------
(* What is said and what is heard.                                         *)

Deltas(c)   == [i \in DOMAIN given[c] |-> given[c][i].delta]
Contents(c) == [i \in DOMAIN sdk[c] |-> sdk[c][i].content]

\* Texts come before the end, and what was given is what was said.
NoEmptyText(c) == \A i \in DOMAIN given[c] : given[c][i].delta = <<>> => given[c][i].final

Told(c) ==
  /\ Heard(c) = Said(c)
  /\ NoEmptyText(c)
  /\ Early(c) => given[c] = <<>>
  /\ phase[c] \in {"chunk", "text"} => ~HasFinal(c)

TInv == IInv /\ \A c \in Call : Told(c)

\* A content is a sequence of blocks, and its delta one of texts.
LEMMA BlockType ==
  ASSUME NEW content \in Block
  PROVE  content \in Seq(Nat \cup {None}) /\ NormalizeContent(content) \in Seq(Nat)
<1>1. PICK k \in Nat : content \in Content(k)
  BY DEF Block
<1>2. content \in Seq(Nat \cup {None})
  <2>1. 2 * k \in Nat /\ 2 * k + 1 \in Nat
    OBVIOUS
  <2>2. \A a, b \in Nat : /\ <<>> \in Seq(Nat \cup {None})
                          /\ <<a>> \in Seq(Nat \cup {None})
                          /\ <<None>> \in Seq(Nat \cup {None})
                          /\ <<a, None, b>> \in Seq(Nat \cup {None})
    OBVIOUS
  <2>3. content \in {<<>>, <<2 * k>>, <<None>>, <<2 * k, None, 2 * k + 1>>}
    BY <1>1 DEF Content
  <2> DEFINE a == 2 * k
             b == 2 * k + 1
  <2> HIDE DEF a, b
  <2>4. content \in {<<>>, <<a>>, <<None>>, <<a, None, b>>} /\ a \in Nat /\ b \in Nat
    BY <2>1, <2>3 DEF a, b
  <2> QED
    BY <2>2, <2>4
<1>3. NormalizeContent(content) \in Seq((Nat \cup {None}) \cap Nat)
  <2>1. \A s \in Seq(Nat \cup {None}) : Filter(s, Nat) \in Seq((Nat \cup {None}) \cap Nat)
    BY FilterKeeps
  <2> QED
    BY <1>2, <2>1 DEF NormalizeContent
<1>4. (Nat \cup {None}) \cap Nat = Nat
  OBVIOUS
<1> QED
  BY <1>2, <1>3, <1>4

\* So are the deltas that are given.
LEMMA DeltaType == Delta \subseteq Seq(Nat)
<1>1. <<>> \in Seq(Nat)
  OBVIOUS
<1> QED
  BY <1>1, BlockType DEF Delta

\* A projection of a sequence grows with the sequence.
LEMMA DeltasType ==
  ASSUME Types, NEW c \in Call
  PROVE  Deltas(c) \in Seq(Seq(Nat)) /\ Heard(c) \in Seq(Nat)
<1>1. given[c] \in Seq(Given)
  BY DEF Types
<1>2. \A i \in DOMAIN given[c] : given[c][i].delta \in Seq(Nat)
  <2> SUFFICES ASSUME NEW i \in DOMAIN given[c] PROVE given[c][i].delta \in Seq(Nat)
    OBVIOUS
  <2>1. given[c][i] \in Given
    BY <1>1
  <2> QED
    BY <2>1, DeltaType DEF Given
<1>3. DOMAIN given[c] = 1 .. Len(given[c]) /\ Len(given[c]) \in Nat
  BY <1>1
<1>4. Deltas(c) \in [1 .. Len(given[c]) -> Seq(Nat)]
  BY <1>2, <1>3 DEF Deltas
<1>5. Deltas(c) \in Seq(Seq(Nat))
  BY <1>3, <1>4
<1>6. FlattenSeq(Deltas(c)) \in Seq(Nat)
  BY <1>5, FlattenSeqType
<1> QED
  BY <1>5, <1>6 DEF Heard, Deltas

\* The contents are sequences of blocks.
LEMMA ContentsType ==
  ASSUME Types, NEW c \in Call
  PROVE  Contents(c) \in Seq(Seq(Nat \cup {None}))
<1>1. sdk[c] \in Seq(Delivered)
  BY DEF Types
<1>2. \A i \in DOMAIN sdk[c] : sdk[c][i].content \in Seq(Nat \cup {None})
  <2> SUFFICES ASSUME NEW i \in DOMAIN sdk[c] PROVE sdk[c][i].content \in Seq(Nat \cup {None})
    OBVIOUS
  <2>1. sdk[c][i] \in Delivered
    BY <1>1
  <2> QED
    BY <2>1, BlockType DEF Delivered
<1>3. DOMAIN sdk[c] = 1 .. Len(sdk[c]) /\ Len(sdk[c]) \in Nat
  BY <1>1
<1>4. Contents(c) \in [1 .. Len(sdk[c]) -> Seq(Nat \cup {None})]
  BY <1>2, <1>3 DEF Contents
<1> QED
  BY <1>3, <1>4

\* What is given is heard after what was heard before.
LEMMA GivenIsHeard ==
  ASSUME Types, NEW c \in Call, NEW item \in Given, Give(c, item)
  PROVE  /\ Heard(c)' = Heard(c) \o item.delta
         /\ item.delta \in Seq(Nat)
         /\ HasFinal(c)' <=> HasFinal(c) \/ item.final
         /\ NoEmptyText(c) /\ (item.delta = <<>> => item.final) => NoEmptyText(c)'
<1> DEFINE g == given[c]
           n == Len(g) + 1
<1>1. g \in Seq(Given) /\ given'[c] = Append(g, item)
  BY DEF Types, Give
<1> HIDE DEF g
<1>2. /\ DOMAIN g = 1 .. Len(g) /\ Len(g) \in Nat
      /\ DOMAIN Append(g, item) = 1 .. n
      /\ Append(g, item)[n] = item
      /\ \A i \in 1 .. Len(g) : Append(g, item)[i] = g[i]
  BY <1>1
<1>3. item.delta \in Seq(Nat)
  BY DeltaType DEF Given
<1>d. PICK d : d = item.delta
  OBVIOUS
<1>4. /\ DOMAIN given'[c] = 1 .. n /\ given'[c][n] = item
      /\ \A i \in 1 .. Len(g) : given'[c][i] = g[i]
  BY <1>1, <1>2
<1>5. Deltas(c)' = Append(Deltas(c), d)
  <2>1. Deltas(c)' = [i \in 1 .. n |-> given'[c][i].delta]
    BY <1>4 DEF Deltas
  <2>2. Deltas(c) = [i \in 1 .. Len(g) |-> g[i].delta]
    BY <1>2 DEF Deltas, g
  <2>3. Append([i \in 1 .. Len(g) |-> g[i].delta], d)
          = [i \in 1 .. n |-> IF i \in 1 .. Len(g) THEN g[i].delta ELSE d]
    BY <1>2
  <2>4. \A i \in 1 .. n : given'[c][i].delta = IF i \in 1 .. Len(g) THEN g[i].delta ELSE d
    BY <1>2, <1>4, <1>d
  <2> QED
    BY <2>1, <2>2, <2>3, <2>4
<1>6. Deltas(c) \in Seq(Seq(Nat))
  BY DeltasType
<1>7. Heard(c)' = Heard(c) \o item.delta
  <2>1. Heard(c) = FlattenSeq(Deltas(c)) /\ Heard(c)' = FlattenSeq(Deltas(c)')
    BY Zenon DEF Heard, Deltas
  <2>2. FlattenSeq(Append(Deltas(c), d)) = FlattenSeq(Deltas(c)) \o d
    BY <1>3, <1>d, <1>6, FlattenSeqMore
  <2> QED
    BY <1>5, <1>d, <2>1, <2>2
<1>8. HasFinal(c)' <=> HasFinal(c) \/ item.final
  BY <1>2, <1>4 DEF HasFinal, g
<1>9. NoEmptyText(c) /\ (item.delta = <<>> => item.final) => NoEmptyText(c)'
  BY <1>2, <1>4 DEF NoEmptyText, g
<1> QED
  BY <1>3, <1>7, <1>8, <1>9

\* What is delivered is said after what was said before.
LEMMA DeliveredIsSaid ==
  ASSUME Types, NEW c \in Call, NEW content \in Block, NEW m \in Metadata,
         Deliver(c, content, m)
  PROVE  Said(c)' = Said(c) \o NormalizeContent(content)
<1> DEFINE s == sdk[c]
           n == Len(s) + 1
           B == Nat \cup {None}
<1>d. PICK d : d = [content |-> content, metadata |-> m]
  OBVIOUS
<1>1. s \in Seq(Delivered) /\ sdk'[c] = Append(s, d) /\ d \in Delivered
  BY <1>d DEF Types, Deliver, Delivered
<1> HIDE DEF s, B
<1>2. /\ DOMAIN s = 1 .. Len(s) /\ Len(s) \in Nat
      /\ DOMAIN Append(s, d) = 1 .. n
      /\ Append(s, d)[n] = d
      /\ \A i \in 1 .. Len(s) : Append(s, d)[i] = s[i]
  BY <1>1
<1>3. content \in Seq(B)
  BY BlockType DEF B
<1>4. /\ DOMAIN sdk'[c] = 1 .. n /\ sdk'[c][n] = d
      /\ \A i \in 1 .. Len(s) : sdk'[c][i] = s[i]
  BY <1>1, <1>2
<1>5. Contents(c)' = Append(Contents(c), content)
  <2>1. Contents(c)' = [i \in 1 .. n |-> sdk'[c][i].content]
    BY <1>4 DEF Contents
  <2>2. Contents(c) = [i \in 1 .. Len(s) |-> s[i].content]
    BY <1>2 DEF Contents, s
  <2>3. Append([i \in 1 .. Len(s) |-> s[i].content], content)
          = [i \in 1 .. n |-> IF i \in 1 .. Len(s) THEN s[i].content ELSE content]
    BY <1>2
  <2>4. \A i \in 1 .. n : sdk'[c][i].content = IF i \in 1 .. Len(s) THEN s[i].content ELSE content
    BY <1>2, <1>4, <1>d
  <2> QED
    BY <2>1, <2>2, <2>3, <2>4
<1>6. Contents(c) \in Seq(Seq(B))
  BY ContentsType DEF B
<1> DEFINE F == FlattenSeq(Contents(c))
<1>7. F \in Seq(B)
  BY <1>6, FlattenSeqType
<1>8. FlattenSeq(Append(Contents(c), content)) = F \o content
  BY <1>3, <1>6, FlattenSeqMore
<1>9. Filter(F \o content, Nat) = Filter(F, Nat) \o Filter(content, Nat)
  <2> HIDE DEF F
  <2> QED
    BY <1>3, <1>7, FilterConcat
<1>10. Said(c) = Filter(F, Nat) /\ Said(c)' = Filter(FlattenSeq(Contents(c)'), Nat)
  BY Zenon DEF Said, Contents
<1> QED
  BY <1>5, <1>8, <1>9, <1>10 DEF NormalizeContent

-----------------------------------------------------------------------------
(* One step of one call, as its caller sees it.                            *)

Volume(c) == Len(Heard(c))

\* The steps the contract knows, and the step it does not see.
View(c) ==
  \/ StateOf(c)' = StateOf(c) /\ Volume(c)' = Volume(c)
  \/ StateOf(c) = "new" /\ StateOf(c)' = "open" /\ Volume(c)' = Volume(c)
  \/ StateOf(c) = "open" /\ StateOf(c)' = "open" /\ Volume(c)' > Volume(c)
  \/ /\ StateOf(c) = "open" /\ StateOf(c)' = "complete"
     /\ Volume(c)' = Volume(c) \/ (Volume(c) = 0 /\ Volume(c)' > Volume(c))
  \/ StateOf(c) = "open" /\ StateOf(c)' = "failed" /\ Volume(c)' = Volume(c)
  \/ /\ Volume(c) = 0 /\ StateOf(c) = "open" /\ StateOf(c)' = "raised"
     /\ Volume(c)' = Volume(c)
  \/ /\ StateOf(c) \in {"open", "complete"} /\ StateOf(c)' = "left"
     /\ Volume(c)' = Volume(c)

\* Nothing given is nothing heard, and no end.
LEMMA NothingGiven ==
  ASSUME NEW c \in Call, given[c] = <<>>
  PROVE  Heard(c) = <<>> /\ Volume(c) = 0 /\ ~HasFinal(c) /\ NoEmptyText(c)
<1>1. Deltas(c) = <<>>
  BY DEF Deltas
<1>2. FlattenSeq(<<>>) = <<>>
  BY FlattenSeqAppend
<1>3. Heard(c) = <<>>
  BY <1>1, <1>2, Zenon DEF Heard, Deltas
<1> QED
  BY <1>3, EmptySeq DEF Volume, HasFinal, NoEmptyText

\* Nothing delivered is nothing said.
LEMMA NothingSaid ==
  ASSUME NEW c \in Call, sdk[c] = <<>>
  PROVE  Said(c) = <<>>
<1>1. Contents(c) = <<>>
  BY DEF Contents
<1>2. FlattenSeq(<<>>) = <<>> /\ Filter(<<>>, Nat) = <<>>
  BY FlattenSeqAppend, FilterEmpty
<1> QED
  BY <1>1, <1>2, Zenon DEF Said, Contents

\* What happens to nothing but the phase of a call changes nothing of what is
\* said and heard.
LEMMA SilentStep ==
  ASSUME NEW c \in Call, sdk' = sdk, given' = given
  PROVE  /\ Heard(c)' = Heard(c) /\ Said(c)' = Said(c) /\ Volume(c)' = Volume(c)
         /\ HasFinal(c)' = HasFinal(c) /\ NoEmptyText(c)' = NoEmptyText(c)
BY Zenon DEF Heard, Said, Volume, HasFinal, NoEmptyText

\* Steps that neither deliver nor give anything.
LEMMA PhaseTells ==
  ASSUME TInv, NEW c \in Call,
         \/ Start(c) \/ Build(c) \/ BuildRaises(c) \/ AnswerUnusable(c) \/ SdkFails(c)
         \/ Resume(c) \/ Exhaust(c) \/ Leave(c)
  PROVE  Told(c)' /\ View(c)
<1>1. sdk' = sdk /\ given' = given
  BY DEF Start, Build, BuildRaises, AnswerUnusable, SdkFails, Resume, Exhaust, Leave
<1>2. Types /\ Told(c)
  BY DEF TInv, IInv
<1>3. \/ phase[c] = "idle" /\ phase'[c] = "build"
      \/ phase[c] = "build" /\ phase'[c] \in {"chunk", "answer"}
      \/ phase[c] \in {"build", "answer"} /\ phase'[c] = "raised"
      \/ phase[c] \in {"answer", "chunk"} /\ phase'[c] = "failed"
      \/ phase[c] = "text" /\ phase'[c] = "chunk"
      \/ phase[c] = "final" /\ phase'[c] = "exhausted"
      \/ phase[c] \in {"answer", "chunk", "text", "final"} /\ phase'[c] = "left"
  BY <1>2 DEF Types, TypeOK, Go, Awaiting, Suspended,
     Start, Build, BuildRaises, AnswerUnusable, SdkFails, Resume, Exhaust, Leave
<1>4. /\ Heard(c)' = Heard(c) /\ Said(c)' = Said(c) /\ Volume(c)' = Volume(c)
      /\ HasFinal(c)' = HasFinal(c) /\ NoEmptyText(c)' = NoEmptyText(c)
  BY <1>1, SilentStep
<1>5. phase[c] \in {"idle", "build", "answer"} =>
        given[c] = <<>> /\ Volume(c) = 0 /\ ~HasFinal(c)
  BY <1>2, NothingGiven DEF Told, Early
<1>6. phase[c] \in {"chunk", "text"} => ~HasFinal(c)
  BY <1>2 DEF Told
<1>7. Told(c)'
  BY <1>1, <1>2, <1>3, <1>4, <1>5, <1>6 DEF Told, Early
<1>8. View(c)
  BY <1>3, <1>4, <1>5, <1>6 DEF View, StateOf
<1> QED
  BY <1>7, <1>8

\* The length of what is heard, before and after an item is given.
LEMMA VolumeGrows ==
  ASSUME NEW s \in Seq(Nat), NEW t \in Seq(Nat)
  PROVE  /\ Len(s \o t) \in Nat /\ Len(s) \in Nat
         /\ t = <<>> => s \o t = s /\ Len(s \o t) = Len(s)
         /\ t # <<>> => Len(s \o t) > Len(s)
         /\ s = <<>> => s \o t = t
<1>1. Len(s \o t) = Len(s) + Len(t) /\ Len(s) \in Nat /\ Len(t) \in Nat
  BY ConcatProperties, LenProperties
<1>2. t = <<>> => s \o t = s
  BY ConcatEmptySeq
<1>3. s = <<>> => s \o t = t
  BY ConcatEmptySeq
<1>4. t # <<>> => Len(t) > 0
  BY <1>1, EmptySeq
<1> QED
  BY <1>1, <1>2, <1>3, <1>4

\* An answer says and gives one message.
LEMMA AnswersTells ==
  ASSUME TInv, NEW c \in Call, Answers(c)
  PROVE  Told(c)' /\ View(c)
<1>1. PICK content \in Content(1), m \in Metadata :
        /\ Deliver(c, content, m)
        /\ Give(c, Item(NormalizeContent(content), TRUE, UsageFromMetadata(m)))
  BY DEF Answers
<1>2. Types /\ Told(c) /\ phase[c] = "answer" /\ phase'[c] = "returned"
  BY DEF TInv, IInv, Types, TypeOK, Answers, Go
<1>3. PICK item : item = Item(NormalizeContent(content), TRUE, UsageFromMetadata(m))
  OBVIOUS
<1>4. /\ content \in Block /\ item \in Given /\ item.final = TRUE
      /\ item.delta = NormalizeContent(content)
  <2>1. UsageFromMetadata(m) \in Usage \cup {None}
    BY Converted
  <2> QED
    BY <1>3, <2>1, ItemType DEF Item
<1>5. /\ Heard(c)' = Heard(c) \o item.delta /\ item.delta \in Seq(Nat)
      /\ HasFinal(c)' /\ (NoEmptyText(c) => NoEmptyText(c)')
  BY <1>1, <1>2, <1>3, <1>4, GivenIsHeard
<1>6. Said(c)' = Said(c) \o NormalizeContent(content)
  BY <1>1, <1>2, <1>4, DeliveredIsSaid
<1>7. Told(c)'
  BY <1>2, <1>4, <1>5, <1>6 DEF Told, Early
<1>8. Volume(c)' = Volume(c) \/ (Volume(c) = 0 /\ Volume(c)' > Volume(c))
  <2>1. Heard(c) = <<>> /\ Volume(c) = 0 /\ Heard(c) \in Seq(Nat)
    BY <1>2, NothingGiven, DeltasType DEF Told, Early
  <2>2. Heard(c)' = item.delta
    BY <1>5, <2>1, VolumeGrows
  <2>3. Volume(c)' \in Nat
    BY <1>5, <2>2, LenProperties DEF Volume
  <2> QED
    BY <2>1, <2>3
<1>9. ~HasFinal(c)
  BY <1>2, NothingGiven DEF Told, Early
<1>10. View(c)
  BY <1>2, <1>5, <1>8, <1>9 DEF View, StateOf
<1> QED
  BY <1>7, <1>10

\* A chunk with a text is heard; one without is not.
LEMMA PullTells ==
  ASSUME TInv, NEW c \in Call, PullText(c) \/ PullSilence(c)
  PROVE  Told(c)' /\ View(c)
<1>1. PICK content \in Content(Len(sdk[c]) + 1) :
        /\ Arrive(c, content)
        /\ phase[c] = "chunk"
        /\ \/ /\ NormalizeContent(content) # <<>> /\ phase'[c] = "text"
              /\ Give(c, Item(NormalizeContent(content), FALSE, None))
           \/ NormalizeContent(content) = <<>> /\ phase'[c] = "chunk" /\ given' = given
  BY DEF PullText, PullSilence, Go, TInv, IInv, Types, TypeOK
<1>2. Types /\ Told(c) /\ Len(sdk[c]) + 1 \in Nat
  BY DEF TInv, IInv, Types
<1>3. content \in Block /\ Item(NormalizeContent(content), FALSE, None) \in Given
  BY <1>2, ItemType
<1>4. PICK m \in Metadata : Deliver(c, content, m)
  BY <1>1 DEF Arrive
<1>5. Said(c)' = Said(c) \o NormalizeContent(content)
  BY <1>2, <1>3, <1>4, DeliveredIsSaid
<1>6. NormalizeContent(content) \in Seq(Nat) /\ Heard(c) \in Seq(Nat)
  BY <1>2, <1>3, BlockType, DeltasType
<1>7. CASE NormalizeContent(content) # <<>>
  <2>1. PICK item : item = Item(NormalizeContent(content), FALSE, None)
    OBVIOUS
  <2>2. /\ item \in Given /\ Give(c, item) /\ item.final = FALSE
        /\ item.delta = NormalizeContent(content)
    BY <1>1, <1>3, <1>7, <2>1 DEF Item
  <2>3. /\ Heard(c)' = Heard(c) \o item.delta
        /\ HasFinal(c)' <=> HasFinal(c)
        /\ NoEmptyText(c) => NoEmptyText(c)'
    BY <1>2, <1>7, <2>2, GivenIsHeard
  <2>4. Told(c)'
    BY <1>1, <1>2, <1>5, <1>7, <2>2, <2>3 DEF Told, Early
  <2>5. Volume(c)' > Volume(c)
    BY <1>6, <1>7, <2>2, <2>3, VolumeGrows DEF Volume
  <2>6. View(c)
    BY <1>1, <1>2, <1>7, <2>3, <2>5 DEF View, StateOf, Told
  <2> QED
    BY <2>4, <2>6
<1>8. CASE NormalizeContent(content) = <<>>
  <2>1. /\ given' = given /\ phase'[c] = "chunk"
    BY <1>1, <1>8
  <2>2. /\ Heard(c)' = Heard(c) /\ HasFinal(c)' = HasFinal(c)
        /\ NoEmptyText(c)' = NoEmptyText(c) /\ Volume(c)' = Volume(c)
    BY <2>1, Zenon DEF Heard, HasFinal, NoEmptyText, Volume
  <2>3. Said(c)' = Said(c)
    BY <1>2, <1>5, <1>6, <1>8, VolumeGrows DEF Told
  <2>4. Told(c)'
    BY <1>1, <1>2, <2>1, <2>2, <2>3 DEF Told, Early
  <2>5. View(c)
    BY <1>1, <2>1, <2>2 DEF View, StateOf
  <2> QED
    BY <2>4, <2>5
<1> QED
  BY <1>7, <1>8

\* The final item has no text.
LEMMA EndTells ==
  ASSUME TInv, NEW c \in Call, PullEnd(c)
  PROVE  Told(c)' /\ View(c)
<1>1. /\ Types /\ Told(c) /\ phase[c] = "chunk" /\ phase'[c] = "final"
      /\ Give(c, Item(<<>>, TRUE, final_usage[c])) /\ sdk' = sdk
      /\ final_usage[c] \in Usage \cup {None}
  BY DEF TInv, IInv, Types, TypeOK, PullEnd, Go
<1>2. PICK item : item = Item(<<>>, TRUE, final_usage[c])
  OBVIOUS
<1>3. item \in Given /\ item.final = TRUE /\ item.delta = <<>>
  <2>1. <<>> \in Delta
    BY DEF Delta
  <2> QED
    BY <1>1, <1>2, <2>1 DEF Item, Given
<1>4. /\ Heard(c)' = Heard(c) \o <<>> /\ HasFinal(c)'
      /\ NoEmptyText(c) => NoEmptyText(c)'
  BY <1>1, <1>2, <1>3, GivenIsHeard
<1>5. Heard(c)' = Heard(c) /\ Volume(c)' = Volume(c)
  <2>1. Heard(c) \in Seq(Nat) /\ <<>> \in Seq(Nat)
    BY <1>1, DeltasType
  <2> QED
    BY <1>4, <2>1, VolumeGrows DEF Volume
<1>6. Said(c)' = Said(c)
  BY <1>1, Zenon DEF Said
<1>7. Told(c)'
  BY <1>1, <1>4, <1>5, <1>6 DEF Told, Early
<1>8. View(c)
  BY <1>1, <1>4, <1>5 DEF View, StateOf, Told
<1> QED
  BY <1>7, <1>8

\* Every step of a call.
LEMMA StepTells ==
  ASSUME TInv, NEW c \in Call, Step(c)
  PROVE  Told(c)' /\ View(c)
BY PhaseTells, AnswersTells, PullTells, EndTells DEF Step

\* A step of one call changes nothing of another.
LEMMA OthersSame ==
  ASSUME Types, NEW c \in Call, Step(c), NEW d \in Call \ {c}
  PROVE  Same(d)
<1>1. CASE Start(c)
  BY <1>1 DEF Start, Go, Types, TypeOK, Same
<1>2. CASE Build(c) \/ BuildRaises(c) \/ AnswerUnusable(c) \/ SdkFails(c)
             \/ Resume(c) \/ Exhaust(c) \/ Leave(c)
  BY <1>2 DEF Build, BuildRaises, AnswerUnusable, SdkFails, Resume, Exhaust, Leave, Go,
     Types, TypeOK, Same
<1>3. CASE Answers(c)
  BY <1>3 DEF Answers, Deliver, Give, Go, Types, TypeOK, Same
<1>4. CASE PullText(c) \/ PullSilence(c)
  BY <1>4 DEF PullText, PullSilence, Arrive, Deliver, Give, Go, Types, TypeOK, Same
<1>5. CASE PullEnd(c)
  BY <1>5 DEF PullEnd, Give, Go, Types, TypeOK, Same
<1> QED
  BY <1>1, <1>2, <1>3, <1>4, <1>5 DEF Step

\* What is the same for a call is the same for its caller.
LEMMA SameSame ==
  ASSUME NEW d \in Call, Same(d)
  PROVE  /\ Told(d) => Told(d)'
         /\ StateOf(d)' = StateOf(d) /\ Volume(d)' = Volume(d)
<1>1. /\ Heard(d)' = Heard(d) /\ Said(d)' = Said(d) /\ HasFinal(d)' = HasFinal(d)
      /\ NoEmptyText(d)' = NoEmptyText(d) /\ Volume(d)' = Volume(d)
  BY Zenon DEF Same, Heard, Said, HasFinal, NoEmptyText, Volume
<1>2. phase'[d] = phase[d] /\ given'[d] = given[d]
  BY DEF Same
<1>3. StateOf(d)' = StateOf(d)
  BY <1>1, <1>2, Zenon DEF StateOf
<1>4. Told(d) => Told(d)'
  BY <1>1, <1>2, Zenon DEF Told, Early
<1> QED
  BY <1>1, <1>3, <1>4

\* What is said is heard, in every reachable state.
LEMMA Telling == Spec => []TInv
<1>1. Init => TInv
  <2> SUFFICES ASSUME Init PROVE TInv
    OBVIOUS
  <2>1. \A c \in Call : phase[c] = "idle" /\ given[c] = <<>> /\ sdk[c] = <<>>
    BY DEF Init
  <2>2. \A c \in Call : Told(c)
    BY <2>1, NothingGiven, NothingSaid DEF Told, Early
  <2> QED
    BY <2>2, InitInv DEF TInv
<1>2. TInv /\ [Next]_vars => TInv'
  <2> SUFFICES ASSUME TInv, [Next]_vars PROVE TInv'
    OBVIOUS
  <2>1. IInv'
    BY NextInv DEF TInv
  <2>2. ASSUME NEW c \in Call, Step(c) PROVE \A d \in Call : Told(d)'
    <3>1. Told(c)'
      BY <2>2, StepTells
    <3>2. ASSUME NEW d \in Call \ {c} PROVE Told(d)'
      <4>1. Same(d)
        BY <2>2, OthersSame DEF TInv, IInv
      <4> QED
        BY <4>1, SameSame DEF TInv
    <3> QED
      BY <3>1, <3>2
  <2>3. CASE UNCHANGED vars
    <3>1. \A d \in Call : Same(d)
      BY <2>3 DEF vars, Same
    <3> QED
      BY <2>1, <3>1, SameSame DEF TInv
  <2> QED
    BY <2>1, <2>2, <2>3 DEF TInv, Next, Quiet
<1> QED
  BY <1>1, <1>2, PTL DEF Spec

\* The caller of an adapter hears exactly what the provider has said so far,
\* in its order and once, whatever blocks the SDK mixes in and however the
\* call ends.
THEOREM NoTextIsLost == Spec => []TextKept
<1>1. TInv => TextKept
  BY Zenon DEF TInv, Told, TextKept, NoEmptyText
<1> QED
  BY <1>1, Telling, PTL

-----------------------------------------------------------------------------
(* The contract.                                                           *)

\* No call has begun for its caller either.
LEMMA InitMaps == Init => Abstract!Init
<1> SUFFICES ASSUME Init PROVE Abstract!Init
  OBVIOUS
<1>1. ASSUME NEW c \in Call PROVE StateOf(c) = "new" /\ Len(Heard(c)) = 0
  BY NothingGiven DEF Init, StateOf, Volume
<1> QED
  BY <1>1 DEF Abstract!Init

\* A step of a call is a step of the contract, or none of its business.
LEMMA StepMaps ==
  ASSUME TInv, NEW c \in Call, Step(c)
  PROVE  [Abstract!Next]_(Abstract!contract)
<1> DEFINE S == [d \in Call |-> StateOf(d)]
           T == [d \in Call |-> Len(Heard(d))]
<1>1. View(c)
  BY StepTells
<1>2. \A d \in Call \ {c} : StateOf(d)' = StateOf(d) /\ Volume(d)' = Volume(d)
  BY OthersSame, SameSame DEF TInv, IInv
<1>3. S' = [S EXCEPT ![c] = StateOf(c)'] /\ S[c] = StateOf(c)
  BY <1>2
<1>4. T' = [T EXCEPT ![c] = T'[c]] /\ T[c] = Volume(c) /\ T'[c] = Volume(c)'
  BY <1>2 DEF Volume
<1>5. StateOf(c)' = StateOf(c) => S' = S
  BY <1>2
<1>6. Volume(c)' = Volume(c) => T' = T
  BY <1>2 DEF Volume
<1>7. CASE StateOf(c)' = StateOf(c) /\ Volume(c)' = Volume(c)
  BY <1>5, <1>6, <1>7 DEF Abstract!contract
<1>8. CASE StateOf(c) = "new" /\ StateOf(c)' = "open" /\ Volume(c)' = Volume(c)
  <2>1. Abstract!Begin(c)
    BY <1>3, <1>6, <1>8 DEF Abstract!Begin, Abstract!Moves
  <2> QED
    BY <2>1 DEF Abstract!Next
<1>9. CASE StateOf(c) = "open" /\ StateOf(c)' = "open" /\ Volume(c)' > Volume(c)
  <2>1. Abstract!Give(c)
    BY <1>3, <1>4, <1>5, <1>9 DEF Abstract!Give, Abstract!Grow
  <2> QED
    BY <2>1 DEF Abstract!Next
<1>10. CASE /\ StateOf(c) = "open" /\ StateOf(c)' = "complete"
            /\ Volume(c)' = Volume(c) \/ (Volume(c) = 0 /\ Volume(c)' > Volume(c))
  <2>1. Abstract!Complete(c)
    BY <1>3, <1>4, <1>6, <1>10 DEF Abstract!Complete, Abstract!Moves, Abstract!Grow
  <2> QED
    BY <2>1 DEF Abstract!Next
<1>11. CASE StateOf(c) = "open" /\ StateOf(c)' = "failed" /\ Volume(c)' = Volume(c)
  <2>1. Abstract!Fail(c)
    BY <1>3, <1>6, <1>11 DEF Abstract!Fail, Abstract!Moves
  <2> QED
    BY <2>1 DEF Abstract!Next
<1>12. CASE /\ Volume(c) = 0 /\ StateOf(c) = "open" /\ StateOf(c)' = "raised"
            /\ Volume(c)' = Volume(c)
  <2>1. Abstract!Raise(c)
    BY <1>3, <1>4, <1>6, <1>12 DEF Abstract!Raise, Abstract!Moves
  <2> QED
    BY <2>1 DEF Abstract!Next
<1>13. CASE /\ StateOf(c) \in {"open", "complete"} /\ StateOf(c)' = "left"
            /\ Volume(c)' = Volume(c)
  <2>1. Abstract!Leave(c)
    BY <1>3, <1>6, <1>13 DEF Abstract!Leave
  <2> QED
    BY <2>1 DEF Abstract!Next
<1> QED
  BY <1>1, <1>7, <1>8, <1>9, <1>10, <1>11, <1>12, <1>13 DEF View

\* Every adapter keeps the contract of a provider: texts, then one end, and an
\* exception of another kind only before the first text.
THEOREM AdaptersKeepTheContract == Spec => Contract
<1>1. TInv /\ [Next]_vars => [Abstract!Next]_(Abstract!contract)
  <2> SUFFICES ASSUME TInv, [Next]_vars PROVE [Abstract!Next]_(Abstract!contract)
    OBVIOUS
  <2>1. CASE UNCHANGED vars
    <3>1. \A d \in Call : Same(d)
      BY <2>1 DEF vars, Same
    <3>2. \A d \in Call : StateOf(d)' = StateOf(d) /\ Len(Heard(d))' = Len(Heard(d))
      BY <3>1, SameSame DEF Volume
    <3> QED
      BY <3>2 DEF Abstract!contract
  <2> QED
    BY <2>1, StepMaps DEF Next, Quiet
<1> QED
  BY <1>1, InitMaps, Telling, PTL DEF Spec, Contract, Abstract!Spec

=============================================================================
