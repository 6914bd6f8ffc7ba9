------------------------- MODULE PublicationProofs -------------------------
(***************************************************************************)
(* Proofs about Publication, for any requests, terms, rates and number of  *)
(* contracts and codes: what a signature consumes, what it publishes, and  *)
(* that the contest lives the life promised by EventLife.                  *)
(***************************************************************************)
EXTENDS Publication, FiniteSetTheorems, TLAPS

PubSteps == {"idle", "drafting", "generating", "signing", "comparing", "stale", "coding",
             "publishing", "retitling", "moving", "pricing", "counting", "deleting"}
PubReqs  == [at : PubSteps, status : PubStates, terms : Terms \cup {Unread},
             contract : 0..MaxContracts, code : 0..MaxSent,
             new : {"nothing"} \cup Rates \cup PubStates]
Papers   == [state : PaperStates, terms : Terms \cup {Unread}, rate : Rates \cup {Unread}]

IsSigned(c) == pubContract[c].state = "SIGNED"

\* What a request holds, which was true of the contest when it was read.
RequestFine(q) ==
    /\ q.at = "counting" => q.status \in {"DRAFT", "CLOSED"} /\ q.new = "ARCHIVED"
    /\ q.at = "moving" => \/ q.new = q.status
                          \/ q.new = "ARCHIVED" /\ q.status \in {"DRAFT", "CLOSED", "ARCHIVED"}
    /\ q.at \in {"retitling", "pricing"} => q.status = "DRAFT"
    /\ q.at = "retitling" => q.terms \in Terms
    /\ q.at \in {"generating", "pricing"} => q.new \in Rates
    /\ q.at \in {"comparing", "stale", "coding", "publishing"} =>
          q.contract \in Contracts /\ pubContract[q.contract].state # "none"

\* What a signature has read of the contest, or compared the contract with.
TermsFine(q) ==
    ~pubDrifted /\ ~pubStale =>
        /\ q.at \in {"signing", "comparing"} => q.terms = pubTerms
        /\ q.at \in {"coding", "publishing"} => pubContract[q.contract].terms = pubTerms

ShapeInv ==
    /\ pubStatus \in PubStates /\ pubTerms \in Terms /\ pubRate \in Rates
    /\ pubContract \in [Contracts -> Papers]
    /\ \A c \in Contracts : pubContract[c].state # "none" => pubContract[c].rate \in Rates
    /\ pubReq \in [PubRequests -> PubReqs]
    /\ \A r \in PubRequests : RequestFine(pubReq[r]) /\ TermsFine(pubReq[r])

\* A signature consumes a code that no other has consumed.
CodeInv ==
    /\ pubSent \in 0..MaxSent
    /\ pubCode \subseteq 1..pubSent /\ pubSpent \subseteq 1..pubSent
    /\ pubCode \cap pubSpent = {}
    /\ CodeSpentBySignature

\* As long as no write was stale, a draft is not signed, what is or was on line
\* is, and with a rate of its own, and the signed terms are those shown.
LifeInv ==
    ~pubStale =>
        /\ pubStatus = "DRAFT" => \A c \in Contracts : ~IsSigned(c)
        /\ pubStatus \in {"ACTIVE", "CLOSED"} => \E c \in Contracts : IsSigned(c)
        /\ (\E c \in Contracts : IsSigned(c)) => pubOwn
        /\ pubStatus \in {"ACTIVE", "CLOSED"} /\ ~pubDrifted =>
              \A c \in Contracts : IsSigned(c) => pubContract[c].terms = pubTerms

PubInv == ShapeInv /\ CodeInv /\ LifeInv

LEMMA Idle ==
    /\ NoPub \in PubReqs /\ NoPub.at = "idle"
    /\ RequestFine(NoPub) /\ TermsFine(NoPub) /\ RequestFine(NoPub)' /\ TermsFine(NoPub)'
  BY PubAssumption DEF NoPub, PubReq, PubReqs, PubSteps, PubStates, RequestFine, TermsFine

LEMMA FiniteSigned == IsFiniteSet(Signed)
<1>1. IsFiniteSet(Contracts)
  BY PubAssumption, FS_Interval DEF Contracts
<1> QED
  BY <1>1, FS_Subset DEF Signed

LEMMA PubInitInv == PubInit => PubInv
<1> SUFFICES ASSUME PubInit PROVE PubInv
  OBVIOUS
<1>1. pubReq \in [PubRequests -> PubReqs] /\ \A r \in PubRequests : pubReq[r] = NoPub
  BY Idle DEF PubInit
<1>2. /\ Blank \in Papers /\ Blank.state = "none"
      /\ pubContract \in [Contracts -> Papers] /\ \A c \in Contracts : pubContract[c] = Blank
  BY DEF PubInit, Blank, Paper, Papers, PaperStates, Unread
<1>3. ShapeInv
  <2>1. \A r \in PubRequests : RequestFine(pubReq[r]) /\ TermsFine(pubReq[r])
    BY <1>1, Idle
  <2> QED
    BY <1>1, <1>2, <2>1 DEF PubInit, ShapeInv, PubStates
<1>4. \A c \in Contracts : ~IsSigned(c)
  BY <1>2 DEF IsSigned
<1>5. CodeInv
  <2>1. Signed = {} /\ pubSpent = {}
    BY <1>4 DEF Signed, IsSigned, PubInit
  <2> QED
    BY <2>1, PubAssumption DEF PubInit, CodeInv, CodeSpentBySignature
<1>6. LifeInv
  BY <1>4 DEF PubInit, LifeInv
<1> QED
  BY <1>3, <1>5, <1>6 DEF PubInv

\* One request changes.
LEMMA OneRequest ==
    ASSUME PubInv, NEW r \in PubRequests, NEW q \in PubReqs, PubSet(r, q)
    PROVE  /\ pubReq' \in [PubRequests -> PubReqs] /\ pubReq'[r] = q
           /\ \A s \in PubRequests : s # r => pubReq'[s] = pubReq[s]
  BY DEF PubInv, ShapeInv, PubSet

\* A step that only reads the contest and its contracts.
LEMMA Reads ==
    ASSUME PubInv, NEW r \in PubRequests, NEW q \in PubReqs, PubSet(r, q),
           UNCHANGED <<pubStatus, pubTerms, rates, pubContract, codes, ghosts>>,
           RequestFine(q), TermsFine(q)
    PROVE  PubInv'
<1>1. /\ pubReq' \in [PubRequests -> PubReqs] /\ pubReq'[r] = q
      /\ \A s \in PubRequests : s # r => pubReq'[s] = pubReq[s]
  BY OneRequest
<1>2. UNCHANGED <<pubStatus, pubTerms, pubRate, pubOwn, pubContract, pubSent, pubCode,
                  pubSpent, pubDrifted, pubStale>>
  BY DEF rates, codes, ghosts
<1>3. ASSUME NEW s \in PubRequests PROVE RequestFine(pubReq[s])' /\ TermsFine(pubReq[s])'
  <2>1. RequestFine(pubReq'[s]) /\ TermsFine(pubReq'[s])
    BY <1>1 DEF PubInv, ShapeInv
  <2> QED
    BY <1>2, <2>1 DEF RequestFine, TermsFine
<1>4. ShapeInv'
  BY <1>1, <1>2, <1>3 DEF PubInv, ShapeInv
<1>5. CodeInv' /\ LifeInv'
  BY <1>2 DEF PubInv, CodeInv, CodeSpentBySignature, Signed, LifeInv, IsSigned
<1> QED
  BY <1>4, <1>5 DEF PubInv

\* A request ends, and contracts change, which a signature or its absence survives.
LEMMA Rewrites ==
    ASSUME PubInv, NEW r \in PubRequests, PubDone(r),
           UNCHANGED <<pubTerms, rates, codes, ghosts>>,
           pubStatus' \in {pubStatus, "deleted"},
           pubContract' \in [Contracts -> Papers],
           \A c \in Contracts : pubContract[c].state # "none" =>
              /\ pubContract'[c].state # "none"
              /\ pubContract'[c].terms = pubContract[c].terms
              /\ pubContract'[c].rate = pubContract[c].rate,
           \A c \in Contracts : pubContract[c].state = "none" /\ pubContract'[c].state # "none" =>
              pubContract'[c].rate \in Rates,
           \A c \in Contracts : pubContract'[c].state = "SIGNED" <=> pubContract[c].state = "SIGNED"
    PROVE  PubInv'
<1>1. /\ pubReq' \in [PubRequests -> PubReqs] /\ pubReq'[r] = NoPub
      /\ \A s \in PubRequests : s # r => pubReq'[s] = pubReq[s]
  BY OneRequest, Idle DEF PubDone
<1>2. UNCHANGED <<pubTerms, pubRate, pubOwn, pubSent, pubCode, pubSpent, pubDrifted, pubStale>>
  BY DEF rates, codes, ghosts
<1>3. ASSUME NEW s \in PubRequests PROVE RequestFine(pubReq[s])' /\ TermsFine(pubReq[s])'
  <2>1. CASE s = r
    <3>1. RequestFine(NoPub)' /\ TermsFine(NoPub)' /\ NoPub.at = "idle"
      BY Idle
    <3> HIDE DEF NoPub
    <3> QED
      BY <1>1, <2>1, <3>1 DEF RequestFine, TermsFine
  <2>2. CASE s # r
    <3>1. pubReq'[s] = pubReq[s] /\ RequestFine(pubReq[s]) /\ TermsFine(pubReq[s])
      BY <1>1, <2>2 DEF PubInv, ShapeInv
    <3> QED
      BY <1>2, <3>1 DEF RequestFine, TermsFine
  <2> QED
    BY <2>1, <2>2
<1>4. ShapeInv'
  BY <1>1, <1>2, <1>3 DEF PubInv, ShapeInv, PubStates
<1>5. Signed' = Signed
  BY DEF Signed
<1>6. CodeInv'
  BY <1>2, <1>5 DEF PubInv, CodeInv, CodeSpentBySignature
<1>7. LifeInv'
  BY <1>2 DEF PubInv, LifeInv, IsSigned
<1> QED
  BY <1>4, <1>6, <1>7 DEF PubInv

LEMMA GenerateKeeps ==
    ASSUME PubInv, NEW r \in PubRequests, Generate(r)
    PROVE  PubInv'
<1> DEFINE q == pubReq[r]
<1>1. q.terms \in Terms \cup {Unread} /\ q.new \in Rates
  BY DEF PubInv, ShapeInv, PubReqs, Generate, PubAt, RequestFine
<1>2. PubDone(r) /\ pubStatus' = pubStatus /\ UNCHANGED <<pubTerms, rates, codes, ghosts>>
  BY DEF Generate
<1>3. CASE UNCHANGED pubContract
  BY <1>2, <1>3, Rewrites DEF PubInv, ShapeInv
<1>4. ASSUME NEW c \in Contracts, pubContract[c].state = "none",
             pubContract' = [b \in Contracts |->
                 IF b = c THEN Paper("PENDING", q.terms, q.new)
                 ELSE IF pubContract[b].state = "PENDING"
                 THEN [pubContract[b] EXCEPT !.state = "SUPERSEDED"]
                 ELSE pubContract[b]]
      PROVE  PubInv'
  <2> DEFINE new == Paper("PENDING", q.terms, q.new)
  <2>1. new \in Papers /\ new.state = "PENDING" /\ new.rate \in Rates
    BY <1>1 DEF Paper, Papers, PaperStates
  <2>2. ASSUME NEW b \in Contracts
        PROVE  LET old == [pubContract[b] EXCEPT !.state = "SUPERSEDED"]
               IN  /\ old \in Papers /\ old.state = "SUPERSEDED"
                   /\ old.terms = pubContract[b].terms /\ old.rate = pubContract[b].rate
    <3>1. pubContract[b] \in Papers
      BY DEF PubInv, ShapeInv
    <3> QED
      BY <3>1 DEF Papers, PaperStates
  <2>3. pubContract'[c] = new
    BY <1>4
  <2>4. ASSUME NEW b \in Contracts, b # c
        PROVE  /\ pubContract'[b] \in Papers
               /\ pubContract'[b].terms = pubContract[b].terms
               /\ pubContract'[b].rate = pubContract[b].rate
               /\ pubContract'[b].state # "none" <=> pubContract[b].state # "none"
               /\ pubContract'[b].state = "SIGNED" <=> pubContract[b].state = "SIGNED"
    BY <1>4, <2>2, <2>4 DEF PubInv, ShapeInv
  <2> HIDE DEF new
  <2>5. pubContract' \in [Contracts -> Papers]
    <3>1. \A b \in Contracts : pubContract'[b] \in Papers
      BY <2>1, <2>3, <2>4
    <3>2. pubContract' = [b \in Contracts |-> pubContract'[b]]
      BY <1>4
    <3> QED
      BY <3>1, <3>2
  <2> QED
    BY <1>2, <1>4, <2>1, <2>3, <2>4, <2>5, Rewrites
<1> QED
  BY <1>3, <1>4 DEF Generate

LEMMA SupersedeKeeps ==
    ASSUME PubInv, NEW r \in PubRequests, SupersedeStale(r)
    PROVE  PubInv'
<1>1. PubDone(r) /\ pubStatus' = pubStatus /\ UNCHANGED <<pubTerms, rates, codes, ghosts>>
  BY DEF SupersedeStale
<1>2. PICK c \in Contracts : c = pubReq[r].contract
  BY DEF PubInv, ShapeInv, SupersedeStale, PubAt, RequestFine
<1>3. pubContract[c] \in Papers
  BY DEF PubInv, ShapeInv
<1>4. CASE UNCHANGED pubContract
  BY <1>1, <1>4, Rewrites DEF PubInv, ShapeInv
<1>5. CASE /\ pubContract[c].state = "PENDING"
           /\ pubContract' = [pubContract EXCEPT ![c].state = "SUPERSEDED"]
  <2> DEFINE old == [pubContract[c] EXCEPT !.state = "SUPERSEDED"]
  <2>1. /\ old \in Papers /\ old.state = "SUPERSEDED"
        /\ old.terms = pubContract[c].terms /\ old.rate = pubContract[c].rate
    BY <1>3 DEF Papers, PaperStates
  <2>2. pubContract' = [pubContract EXCEPT ![c] = old]
    BY <1>5
  <2> HIDE DEF old
  <2>3. /\ pubContract' \in [Contracts -> Papers] /\ pubContract'[c] = old
        /\ \A b \in Contracts : b # c => pubContract'[b] = pubContract[b]
    BY <2>1, <2>2 DEF PubInv, ShapeInv
  <2> QED
    BY <1>1, <1>5, <2>1, <2>3, Rewrites
<1> QED
  BY <1>2, <1>4, <1>5 DEF SupersedeStale

LEMMA DeletionKeeps ==
    ASSUME PubInv, NEW r \in PubRequests, DeleteEvent(r)
    PROVE  PubInv'
<1>1. PubDone(r) /\ UNCHANGED <<pubTerms, rates, codes, ghosts>>
  BY DEF DeleteEvent
<1>2. CASE UNCHANGED <<pubStatus, pubContract>>
  BY <1>1, <1>2, Rewrites DEF PubInv, ShapeInv
<1>3. CASE /\ Signed = {} /\ pubStatus' = "deleted"
           /\ pubContract' = [c \in Contracts |->
                  IF pubContract[c].state = "none" THEN pubContract[c]
                  ELSE [pubContract[c] EXCEPT !.state = "deleted"]]
  <2>1. ASSUME NEW b \in Contracts
        PROVE  LET old == [pubContract[b] EXCEPT !.state = "deleted"]
               IN  /\ old \in Papers /\ old.state = "deleted"
                   /\ old.terms = pubContract[b].terms /\ old.rate = pubContract[b].rate
    <3>1. pubContract[b] \in Papers
      BY DEF PubInv, ShapeInv
    <3> QED
      BY <3>1 DEF Papers, PaperStates
  <2>2. ASSUME NEW b \in Contracts
        PROVE  /\ pubContract'[b] \in Papers
               /\ pubContract'[b].terms = pubContract[b].terms
               /\ pubContract'[b].rate = pubContract[b].rate
               /\ pubContract'[b].state # "none" <=> pubContract[b].state # "none"
               /\ pubContract'[b].state # "SIGNED" /\ pubContract[b].state # "SIGNED"
    BY <1>3, <2>1 DEF PubInv, ShapeInv, Signed
  <2>3. pubContract' \in [Contracts -> Papers]
    <3>1. pubContract' = [b \in Contracts |-> pubContract'[b]]
      BY <1>3
    <3> QED
      BY <2>2, <3>1
  <2> QED
    BY <1>1, <1>3, <2>2, <2>3, Rewrites
<1> QED
  BY <1>2, <1>3 DEF DeleteEvent

\* What was written is what was read, unless the write was stale.
LEMMA WriteFresh ==
    ASSUME NEW r \in PubRequests, WritesContest(r), ~pubStale'
    PROVE  ~pubStale /\ pubStatus = pubReq[r].status
  BY Zenon DEF WritesContest

LEMMA WriteTermsKeeps ==
    ASSUME PubInv, NEW r \in PubRequests, WriteTerms(r)
    PROVE  PubInv'
<1>1. /\ pubReq' \in [PubRequests -> PubReqs] /\ pubReq'[r] = NoPub
      /\ \A s \in PubRequests : s # r => pubReq'[s] = pubReq[s]
  BY OneRequest, Idle DEF PubDone, WriteTerms, WritesContest
<1>2. /\ UNCHANGED <<pubStatus, pubRate, pubOwn, pubContract, pubSent, pubCode, pubSpent>>
      /\ pubTerms' \in Terms /\ pubReq[r].status = "DRAFT"
  BY DEF WriteTerms, rates, codes, PubInv, ShapeInv, RequestFine, PubAt
<1>3. ~pubStale' => ~pubStale /\ pubStatus = "DRAFT"
  BY <1>2, WriteFresh DEF WriteTerms
<1>4. ~pubDrifted' => \A s \in PubRequests : pubReq[s].at \notin Signing
  BY Zenon DEF WriteTerms
<1>5. ASSUME NEW s \in PubRequests PROVE RequestFine(pubReq[s])' /\ TermsFine(pubReq[s])'
  <2>1. CASE s = r
    <3>1. RequestFine(NoPub)' /\ TermsFine(NoPub)' /\ NoPub.at = "idle"
      BY Idle
    <3> HIDE DEF NoPub
    <3> QED
      BY <1>1, <2>1, <3>1 DEF RequestFine, TermsFine
  <2>2. CASE s # r
    <3>1. pubReq'[s] = pubReq[s] /\ RequestFine(pubReq[s])
      BY <1>1, <2>2 DEF PubInv, ShapeInv
    <3> QED
      BY <1>2, <1>4, <3>1 DEF RequestFine, TermsFine, Signing
  <2> QED
    BY <2>1, <2>2
<1>6. ShapeInv'
  BY <1>1, <1>2, <1>5 DEF PubInv, ShapeInv
<1>7. CodeInv'
  BY <1>2 DEF PubInv, CodeInv, CodeSpentBySignature, Signed
<1>8. LifeInv'
  BY <1>2, <1>3 DEF PubInv, LifeInv, IsSigned
<1> QED
  BY <1>6, <1>7, <1>8 DEF PubInv

\* The writing of a status or of a commission.
LEMMA WriteOtherKeeps ==
    ASSUME PubInv, NEW r \in PubRequests, WritesContest(r),
           UNCHANGED <<pubTerms, pubContract, codes, pubDrifted>>,
           \/ /\ PubAt(r, "moving") /\ pubStatus' = pubReq[r].new
              /\ UNCHANGED rates
           \/ /\ PubAt(r, "pricing") /\ pubStatus' = pubStatus
              /\ pubRate' = pubReq[r].new /\ pubOwn' = TRUE
    PROVE  PubInv'
<1>1. /\ pubReq' \in [PubRequests -> PubReqs] /\ pubReq'[r] = NoPub
      /\ \A s \in PubRequests : s # r => pubReq'[s] = pubReq[s]
  BY OneRequest, Idle DEF PubDone, WritesContest
<1>2. UNCHANGED <<pubTerms, pubContract, pubSent, pubCode, pubSpent, pubDrifted>>
  BY DEF codes
<1>3. pubStatus' \in PubStates /\ pubRate' \in Rates
  BY DEF PubInv, ShapeInv, RequestFine, PubAt, rates, PubReqs, PubStates
<1>4. ~pubStale' => ~pubStale /\ pubStatus = pubReq[r].status
  BY WriteFresh
<1>5. ASSUME NEW s \in PubRequests PROVE RequestFine(pubReq[s])' /\ TermsFine(pubReq[s])'
  <2>1. CASE s = r
    <3>1. RequestFine(NoPub)' /\ TermsFine(NoPub)' /\ NoPub.at = "idle"
      BY Idle
    <3> HIDE DEF NoPub
    <3> QED
      BY <1>1, <2>1, <3>1 DEF RequestFine, TermsFine
  <2>2. CASE s # r
    <3>1. pubReq'[s] = pubReq[s] /\ RequestFine(pubReq[s]) /\ TermsFine(pubReq[s])
      BY <1>1, <2>2 DEF PubInv, ShapeInv
    <3> QED
      BY <1>2, <1>4, <3>1 DEF RequestFine, TermsFine
  <2> QED
    BY <2>1, <2>2
<1>6. ShapeInv'
  BY <1>1, <1>2, <1>3, <1>5 DEF PubInv, ShapeInv
<1>7. CodeInv'
  BY <1>2 DEF PubInv, CodeInv, CodeSpentBySignature, Signed
<1>8. LifeInv'
  <2> SUFFICES ASSUME ~pubStale' PROVE LifeInv'
    BY DEF LifeInv
  <2>1. ~pubStale /\ pubStatus = pubReq[r].status /\ RequestFine(pubReq[r])
    BY <1>4 DEF PubInv, ShapeInv
  <2>2. CASE PubAt(r, "moving") /\ pubStatus' = pubReq[r].new /\ UNCHANGED rates
    <3>1. pubStatus' = pubStatus \/ pubStatus' = "ARCHIVED"
      BY <2>1, <2>2 DEF RequestFine, PubAt
    <3> QED
      BY <1>2, <2>1, <2>2, <3>1 DEF PubInv, LifeInv, IsSigned, rates
  <2>3. CASE pubStatus' = pubStatus /\ pubOwn' = TRUE
    BY <1>2, <2>1, <2>3 DEF PubInv, LifeInv, IsSigned
  <2> QED
    BY <2>2, <2>3
<1> QED
  BY <1>6, <1>7, <1>8 DEF PubInv

\* The transaction of a signature: all of it, or nothing.
Publishes(r) ==
    LET q == pubReq[r]
    IN  /\ q.code \in pubCode
        /\ pubContract[q.contract].state = "PENDING"
        /\ pubStatus = "DRAFT"
        /\ pubCode' = pubCode \ {q.code}
        /\ pubSpent' = pubSpent \cup {q.code}
        /\ pubContract' = [pubContract EXCEPT ![q.contract].state = "SIGNED"]
        /\ pubStatus' = "ACTIVE"
        /\ pubRate' = pubContract[q.contract].rate
        /\ pubOwn' = TRUE

\* What a signature does to the contract it signs.
LEMMA OneSigned ==
    ASSUME PubInv, NEW r \in PubRequests, PubAt(r, "publishing"), Publishes(r)
    PROVE  LET c == pubReq[r].contract
           IN  /\ c \in Contracts /\ pubContract[c].state = "PENDING"
               /\ pubContract' \in [Contracts -> Papers]
               /\ pubContract'[c].state = "SIGNED"
               /\ pubContract'[c].terms = pubContract[c].terms
               /\ pubContract'[c].rate = pubContract[c].rate /\ pubContract[c].rate \in Rates
               /\ \A b \in Contracts : b # c => pubContract'[b] = pubContract[b]
<1>1. PICK c \in Contracts : c = pubReq[r].contract
  BY DEF PubInv, ShapeInv, PubAt, RequestFine
<1> DEFINE new == [pubContract[c] EXCEPT !.state = "SIGNED"]
<1>2. pubContract[c] \in Papers /\ pubContract[c].state = "PENDING" /\ pubContract[c].rate \in Rates
  BY <1>1 DEF PubInv, ShapeInv, Publishes
<1>3. /\ new \in Papers /\ new.state = "SIGNED"
      /\ new.terms = pubContract[c].terms /\ new.rate = pubContract[c].rate
  BY <1>2 DEF Papers, PaperStates
<1>4. pubContract' = [pubContract EXCEPT ![c] = new]
  BY <1>1 DEF Publishes
<1> HIDE DEF new
<1>5. /\ pubContract' \in [Contracts -> Papers] /\ pubContract'[c] = new
      /\ \A b \in Contracts : b # c => pubContract'[b] = pubContract[b]
  BY <1>3, <1>4 DEF PubInv, ShapeInv
<1> QED
  BY <1>1, <1>2, <1>3, <1>5

LEMMA SignKeeps ==
    ASSUME PubInv, NEW r \in PubRequests, SignAndPublish(r)
    PROVE  PubInv'
<1>1. PubDone(r) /\ UNCHANGED <<pubTerms, pubSent, ghosts>> /\ PubAt(r, "publishing")
  BY DEF SignAndPublish
<1>2. CASE UNCHANGED <<pubStatus, rates, pubContract, pubCode, pubSpent>>
  <2>1. UNCHANGED codes
    BY <1>1, <1>2 DEF codes
  <2> QED
    BY <1>1, <1>2, <2>1, Rewrites DEF PubInv, ShapeInv
<1>3. CASE Publishes(r)
  <2>1. /\ pubReq' \in [PubRequests -> PubReqs] /\ pubReq'[r] = NoPub
        /\ \A s \in PubRequests : s # r => pubReq'[s] = pubReq[s]
    BY <1>1, OneRequest, Idle DEF PubDone
  <2>2. UNCHANGED <<pubTerms, pubSent, pubDrifted, pubStale>>
    BY <1>1 DEF ghosts
  <2>3. PICK c \in Contracts :
           /\ c = pubReq[r].contract /\ pubContract[c].state = "PENDING"
           /\ pubContract' \in [Contracts -> Papers]
           /\ pubContract'[c].state = "SIGNED"
           /\ pubContract'[c].terms = pubContract[c].terms
           /\ pubContract'[c].rate = pubContract[c].rate /\ pubContract[c].rate \in Rates
           /\ \A b \in Contracts : b # c => pubContract'[b] = pubContract[b]
    BY <1>1, <1>3, OneSigned
  <2>4. PICK k : k = pubReq[r].code
    OBVIOUS
  <2>5. /\ k \in pubCode /\ pubStatus = "DRAFT"
        /\ pubCode' = pubCode \ {k} /\ pubSpent' = pubSpent \cup {k}
        /\ pubStatus' = "ACTIVE" /\ pubRate' = pubContract[c].rate /\ pubOwn' = TRUE
    BY <1>3, <2>3, <2>4 DEF Publishes
  <2>6. \A b \in Contracts : /\ pubContract'[b].terms = pubContract[b].terms
                             /\ pubContract'[b].rate = pubContract[b].rate
                             /\ pubContract[b].state # "none" => pubContract'[b].state # "none"
                             /\ pubContract'[b].state # "none" => pubContract[b].state # "none"
    BY <2>3
  <2>7. ASSUME NEW s \in PubRequests PROVE RequestFine(pubReq[s])' /\ TermsFine(pubReq[s])'
    <3>1. CASE s = r
      <4>1. RequestFine(NoPub)' /\ TermsFine(NoPub)' /\ NoPub.at = "idle"
        BY Idle
      <4> HIDE DEF NoPub
      <4> QED
        BY <2>1, <3>1, <4>1 DEF RequestFine, TermsFine
    <3>2. CASE s # r
      <4>1. pubReq'[s] = pubReq[s] /\ RequestFine(pubReq[s]) /\ TermsFine(pubReq[s])
        BY <2>1, <3>2 DEF PubInv, ShapeInv
      <4>2. \A b \in Contracts : pubContract[b].state # "none" => pubContract'[b].state # "none"
        BY <2>6
      <4>3. RequestFine(pubReq[s])'
        BY <4>1, <4>2 DEF RequestFine
      <4>4. \A b \in Contracts : pubContract'[b].terms = pubContract[b].terms
        BY <2>6
      <4>5. TermsFine(pubReq[s])'
        BY <2>2, <4>1, <4>4 DEF RequestFine, TermsFine
      <4> QED
        BY <4>3, <4>5
    <3> QED
      BY <3>1, <3>2
  <2>8. ShapeInv'
    BY <2>1, <2>2, <2>3, <2>5, <2>6, <2>7 DEF PubInv, ShapeInv, PubStates
  <2>9. CodeInv'
    <3>1. k \notin pubSpent /\ k \in 1..pubSent
      BY <2>5 DEF PubInv, CodeInv
    <3>2. IsFiniteSet(pubSpent)
      <4>1. pubSent \in Nat
        BY PubAssumption DEF PubInv, CodeInv
      <4>2. IsFiniteSet(1..pubSent)
        BY <4>1, FS_Interval
      <4> QED
        BY <4>2, FS_Subset DEF PubInv, CodeInv
    <3>3. Cardinality(pubSpent') = Cardinality(pubSpent) + 1
      BY <2>5, <3>1, <3>2, FS_AddElement
    <3>4. c \notin Signed /\ Signed' = Signed \cup {c}
      BY <2>3 DEF Signed
    <3>5. Cardinality(Signed') = Cardinality(Signed) + 1
      BY <3>4, FiniteSigned, FS_AddElement
    <3>6. CodeSpentBySignature'
      BY <3>3, <3>5 DEF PubInv, CodeInv, CodeSpentBySignature
    <3> QED
      BY <2>2, <2>5, <3>1, <3>6 DEF PubInv, CodeInv
  <2>10. LifeInv'
    <3> SUFFICES ASSUME ~pubStale' PROVE LifeInv'
      BY DEF LifeInv
    <3>1. \A b \in Contracts : pubContract[b].state # "SIGNED"
      BY <2>2, <2>5 DEF PubInv, LifeInv, IsSigned
    <3>2. ~pubDrifted => pubContract[c].terms = pubTerms
      BY <1>1, <2>2, <2>3 DEF PubInv, ShapeInv, TermsFine, PubAt
    <3>3. \A b \in Contracts : IsSigned(b)' => b = c
      BY <2>3, <3>1 DEF IsSigned
    <3>4. IsSigned(c)'
      BY <2>3 DEF IsSigned
    <3> QED
      BY <2>2, <2>3, <2>5, <3>2, <3>3, <3>4 DEF LifeInv
  <2> QED
    BY <2>8, <2>9, <2>10 DEF PubInv
<1> QED
  BY <1>2, <1>3 DEF SignAndPublish, Publishes

LEMMA PubNextInv == PubInv /\ [PubNext]_pubVars => PubInv'
<1> SUFFICES ASSUME PubInv, [PubNext]_pubVars PROVE PubInv'
  OBVIOUS
<1>1. CASE SetBaseRate
  <2>1. /\ UNCHANGED <<pubStatus, pubTerms, pubOwn, pubContract, pubSent, pubCode, pubSpent,
                       pubReq, pubDrifted, pubStale>>
        /\ pubRate' \in Rates
    BY <1>1 DEF SetBaseRate, codes, ghosts
  <2>2. \A r \in PubRequests : RequestFine(pubReq[r])' /\ TermsFine(pubReq[r])'
    BY <2>1 DEF PubInv, ShapeInv, RequestFine, TermsFine
  <2>3. ShapeInv'
    BY <2>1, <2>2 DEF PubInv, ShapeInv
  <2>4. CodeInv' /\ LifeInv'
    BY <2>1 DEF PubInv, CodeInv, CodeSpentBySignature, Signed, LifeInv, IsSigned
  <2> QED
    BY <2>3, <2>4 DEF PubInv
<1>2. CASE SendSignatureCode
  <2>1. /\ UNCHANGED <<pubStatus, pubTerms, pubRate, pubOwn, pubContract, pubSpent,
                       pubReq, pubDrifted, pubStale>>
        /\ pubSent < MaxSent /\ pubSent' = pubSent + 1 /\ pubCode' = {pubSent'}
    BY <1>2 DEF SendSignatureCode, rates, ghosts
  <2>2. \A r \in PubRequests : RequestFine(pubReq[r])' /\ TermsFine(pubReq[r])'
    BY <2>1 DEF PubInv, ShapeInv, RequestFine, TermsFine
  <2>3. ShapeInv'
    BY <2>1, <2>2 DEF PubInv, ShapeInv
  <2>4. LifeInv' /\ CodeSpentBySignature'
    BY <2>1 DEF PubInv, CodeInv, CodeSpentBySignature, Signed, LifeInv, IsSigned
  <2>5. CodeInv'
    BY <2>1, <2>4, PubAssumption DEF PubInv, CodeInv
  <2> QED
    BY <2>3, <2>4, <2>5 DEF PubInv
<1>3. CASE CloseEvent
  <2>1. /\ UNCHANGED <<pubTerms, pubRate, pubOwn, pubContract, pubSent, pubCode, pubSpent,
                       pubReq, pubDrifted, pubStale>>
        /\ pubStatus = "ACTIVE" /\ pubStatus' = "CLOSED"
    BY <1>3 DEF CloseEvent, rates, codes, ghosts
  <2>2. \A r \in PubRequests : RequestFine(pubReq[r])' /\ TermsFine(pubReq[r])'
    BY <2>1 DEF PubInv, ShapeInv, RequestFine, TermsFine
  <2>3. ShapeInv'
    BY <2>1, <2>2 DEF PubInv, ShapeInv, PubStates
  <2>4. CodeInv' /\ LifeInv'
    BY <2>1 DEF PubInv, CodeInv, CodeSpentBySignature, Signed, LifeInv, IsSigned
  <2> QED
    BY <2>3, <2>4 DEF PubInv
<1>4. ASSUME NEW r \in PubRequests, NEW q \in PubReqs, PubSet(r, q),
             UNCHANGED <<pubStatus, pubTerms, rates, pubContract, codes, ghosts>>,
             RequestFine(q), TermsFine(q)
      PROVE  PubInv'
  BY <1>4, Reads
<1>5. ASSUME NEW r \in PubRequests
      PROVE  pubReq[r] \in PubReqs /\ RequestFine(pubReq[r]) /\ TermsFine(pubReq[r])
  BY DEF PubInv, ShapeInv
<1>6. ASSUME NEW r \in PubRequests, ReadDraft(r) PROVE PubInv'
  <2> DEFINE q == [NoPub EXCEPT !.at = "drafting", !.terms = pubTerms]
  <2>1. q \in PubReqs /\ q.at = "drafting"
    BY Idle DEF PubInv, ShapeInv, PubReqs, PubSteps
  <2> HIDE DEF q
  <2>2. RequestFine(q) /\ TermsFine(q)
    BY <2>1 DEF RequestFine, TermsFine
  <2> QED
    BY <1>4, <1>6, <2>1, <2>2 DEF ReadDraft, q
<1>7. ASSUME NEW r \in PubRequests, ReadRates(r) PROVE PubInv'
  <2> DEFINE q == [pubReq[r] EXCEPT !.at = "generating", !.new = pubRate]
  <2>1. q \in PubReqs /\ q.at = "generating" /\ q.new \in Rates
    BY <1>5 DEF PubInv, ShapeInv, PubReqs, PubSteps
  <2> HIDE DEF q
  <2>2. RequestFine(q) /\ TermsFine(q)
    BY <2>1 DEF RequestFine, TermsFine
  <2> QED
    BY <1>4, <1>7, <2>1, <2>2 DEF ReadRates, q
<1>8. ASSUME NEW r \in PubRequests, ReadContest(r) PROVE PubInv'
  <2> DEFINE q == [NoPub EXCEPT !.at = "signing", !.terms = pubTerms]
  <2>1. q \in PubReqs /\ q.at = "signing" /\ q.terms = pubTerms
    BY Idle DEF PubInv, ShapeInv, PubReqs, PubSteps
  <2> HIDE DEF q
  <2>2. RequestFine(q) /\ TermsFine(q)
    BY <2>1 DEF RequestFine, TermsFine
  <2> QED
    BY <1>4, <1>8, <2>1, <2>2 DEF ReadContest, q
<1>9. ASSUME NEW r \in PubRequests, NEW c \in Contracts, ReadContract(r, c) PROVE PubInv'
  <2> DEFINE q == [pubReq[r] EXCEPT !.at = "comparing", !.contract = c]
  <2>0. c \in 0..MaxContracts
    BY PubAssumption DEF Contracts
  <2>1. q \in PubReqs /\ q.at = "comparing" /\ q.contract = c /\ q.terms = pubReq[r].terms
    BY <1>5, <2>0 DEF PubReqs, PubSteps
  <2> HIDE DEF q
  <2>2. RequestFine(q) /\ TermsFine(q)
    BY <1>5, <1>9, <2>1 DEF RequestFine, TermsFine, ReadContract, PubAt
  <2> QED
    BY <1>4, <1>9, <2>1, <2>2 DEF ReadContract, q
<1>10. ASSUME NEW r \in PubRequests, CompareText(r) PROVE PubInv'
  <2> DEFINE fits == /\ pubContract[pubReq[r].contract].terms = pubReq[r].terms
                     /\ pubContract[pubReq[r].contract].rate = pubRate
             q == [pubReq[r] EXCEPT !.terms = Unread, !.at = IF fits THEN "coding" ELSE "stale"]
  <2>1. /\ q \in PubReqs /\ q.at = (IF fits THEN "coding" ELSE "stale")
        /\ q.contract = pubReq[r].contract
    BY <1>5 DEF PubReqs, PubSteps
  <2>2. PubSet(r, q)
    BY <1>10 DEF CompareText
  <2> HIDE DEF q
  <2>3. RequestFine(q) /\ TermsFine(q)
    BY <1>5, <1>10, <2>1 DEF RequestFine, TermsFine, CompareText, PubAt
  <2> QED
    BY <1>4, <1>10, <2>1, <2>2, <2>3 DEF CompareText
<1>11. ASSUME NEW r \in PubRequests, CheckCode(r) PROVE PubInv'
  <2>1. PICK k \in pubCode : PubSet(r, [pubReq[r] EXCEPT !.at = "publishing", !.code = k])
    BY <1>11 DEF CheckCode
  <2> DEFINE q == [pubReq[r] EXCEPT !.at = "publishing", !.code = k]
  <2>2. k \in 0..MaxSent
    BY PubAssumption DEF PubInv, CodeInv
  <2>3. q \in PubReqs /\ q.at = "publishing" /\ q.contract = pubReq[r].contract
    BY <1>5, <2>2 DEF PubReqs, PubSteps
  <2> HIDE DEF q
  <2>4. RequestFine(q) /\ TermsFine(q)
    BY <1>5, <1>11, <2>3 DEF RequestFine, TermsFine, CheckCode, PubAt
  <2> QED
    BY <1>4, <1>11, <2>1, <2>3, <2>4 DEF CheckCode, q
<1>12. ASSUME NEW r \in PubRequests, ReadUpdate(r) PROVE PubInv'
  <2>1. ASSUME NEW t \in Terms, pubStatus = "DRAFT",
               PubSet(r, PubReq("retitling", pubStatus, t, 0, 0, "nothing"))
        PROVE  PubInv'
    <3> DEFINE q == PubReq("retitling", pubStatus, t, 0, 0, "nothing")
    <3>1. q \in PubReqs /\ q.at = "retitling" /\ q.status = "DRAFT" /\ q.terms \in Terms
      BY <2>1, PubAssumption DEF PubReq, PubReqs, PubSteps, PubStates
    <3> HIDE DEF q
    <3>2. RequestFine(q) /\ TermsFine(q)
      BY <3>1 DEF RequestFine, TermsFine
    <3> QED
      BY <1>4, <1>12, <2>1, <3>1, <3>2 DEF ReadUpdate, q
  <2>2. ASSUME NEW s \in {pubStatus} \cup (IF pubStatus = "ACTIVE" THEN {} ELSE {"ARCHIVED"}),
               PubSet(r, PubReq("moving", pubStatus, Unread, 0, 0, s))
        PROVE  PubInv'
    <3> DEFINE q == PubReq("moving", pubStatus, Unread, 0, 0, s)
    <3>1. q \in PubReqs /\ q.at = "moving" /\ q.status = pubStatus /\ q.new = s
      BY <2>2, PubAssumption DEF PubReq, PubReqs, PubSteps, PubStates, PubInv, ShapeInv
    <3> HIDE DEF q
    <3>2. pubStatus \in PubStates /\ pubStatus # "deleted"
      BY <1>12 DEF ReadUpdate, PubInv, ShapeInv
    <3>3. RequestFine(q) /\ TermsFine(q)
      BY <3>1, <3>2 DEF RequestFine, TermsFine, PubStates
    <3> QED
      BY <1>4, <1>12, <2>2, <3>1, <3>3 DEF ReadUpdate, q
  <2> QED
    BY <1>12, <2>1, <2>2 DEF ReadUpdate
<1>13. ASSUME NEW r \in PubRequests, ReadOverride(r) PROVE PubInv'
  <2>1. PICK b \in Rates : PubSet(r, PubReq("pricing", pubStatus, Unread, 0, 0, b))
    BY <1>13 DEF ReadOverride
  <2> DEFINE q == PubReq("pricing", pubStatus, Unread, 0, 0, b)
  <2>2. q \in PubReqs /\ q.at = "pricing" /\ q.status = "DRAFT" /\ q.new \in Rates
    BY <1>13, PubAssumption DEF ReadOverride, PubReq, PubReqs, PubSteps, PubStates
  <2> HIDE DEF q
  <2>3. RequestFine(q) /\ TermsFine(q)
    BY <2>2 DEF RequestFine, TermsFine
  <2> QED
    BY <1>4, <1>13, <2>1, <2>2, <2>3 DEF ReadOverride, q
<1>14. ASSUME NEW r \in PubRequests, ReadDeletion(r) PROVE PubInv'
  <2> DEFINE q == PubReq("counting", pubStatus, Unread, 0, 0, "ARCHIVED")
  <2>1. /\ q \in PubReqs /\ q.at = "counting" /\ q.status \in {"DRAFT", "CLOSED"}
        /\ q.new = "ARCHIVED"
    BY <1>14, PubAssumption DEF ReadDeletion, PubReq, PubReqs, PubSteps, PubStates
  <2> HIDE DEF q
  <2>2. RequestFine(q) /\ TermsFine(q)
    BY <2>1 DEF RequestFine, TermsFine
  <2> QED
    BY <1>4, <1>14, <2>1, <2>2 DEF ReadDeletion, q
<1>15. ASSUME NEW r \in PubRequests, CountSigned(r) PROVE PubInv'
  <2>1. PICK a \in {"moving", "deleting"} : PubTo(r, a)
    BY <1>15 DEF CountSigned
  <2> DEFINE q == [pubReq[r] EXCEPT !.at = a]
  <2>2. q \in PubReqs /\ q.at = a /\ q.status = pubReq[r].status /\ q.new = pubReq[r].new
    BY <1>5 DEF PubReqs, PubSteps
  <2>3. PubSet(r, q)
    BY <2>1 DEF PubTo, PubSet
  <2> HIDE DEF q
  <2>4. RequestFine(q) /\ TermsFine(q)
    BY <1>5, <1>15, <2>2 DEF RequestFine, TermsFine, CountSigned, PubAt
  <2> QED
    BY <1>4, <1>15, <2>2, <2>3, <2>4 DEF CountSigned
<1>16. ASSUME NEW r \in PubRequests, PubStops(r) PROVE PubInv'
  BY <1>4, <1>16, Idle DEF PubStops, PubDone
<1>17. ASSUME NEW r \in PubRequests, WriteStatus(r) \/ WriteOverride(r) PROVE PubInv'
  BY <1>17, WriteOtherKeeps DEF WriteStatus, WriteOverride
<1>18. CASE UNCHANGED pubVars
  <2>1. UNCHANGED <<pubStatus, pubTerms, pubRate, pubOwn, pubContract, pubSent, pubCode,
                    pubSpent, pubReq, pubDrifted, pubStale>>
    BY <1>18 DEF pubVars, ghosts
  <2>2. \A r \in PubRequests : RequestFine(pubReq[r])' /\ TermsFine(pubReq[r])'
    BY <2>1 DEF PubInv, ShapeInv, RequestFine, TermsFine
  <2>3. ShapeInv'
    BY <2>1, <2>2 DEF PubInv, ShapeInv
  <2>4. CodeInv' /\ LifeInv'
    BY <2>1 DEF PubInv, CodeInv, CodeSpentBySignature, Signed, LifeInv, IsSigned
  <2> QED
    BY <2>3, <2>4 DEF PubInv
<1> QED
  BY <1>1, <1>2, <1>3, <1>6, <1>7, <1>8, <1>9, <1>10, <1>11, <1>12, <1>13, <1>14, <1>15,
     <1>16, <1>17, <1>18, GenerateKeeps, SupersedeKeeps, SignKeeps, WriteTermsKeeps,
     DeletionKeeps DEF PubNext

LEMMA PubAlways == PubSpec => []PubInv
<1> QED
  BY PubInitInv, PubNextInv, PTL DEF PubSpec

\* However many contracts are generated and codes sent, as many codes are spent
\* as contracts are signed (ContractsService.sign).
THEOREM CodePerSignature == PubSpec => []CodeSpentBySignature
<1>1. PubInv => CodeSpentBySignature
  BY DEF PubInv, CodeInv
<1> QED
  BY <1>1, PubAlways, PTL

\* What is on line is what was signed, but for the two races the model marks.
THEOREM AsSigned == PubSpec => []PublishedAsSigned
<1>1. PubInv => PublishedAsSigned
  BY DEF PubInv, LifeInv, IsSigned, Signed, PublishedAsSigned
<1> QED
  BY <1>1, PubAlways, PTL

Offered == {<<c, pubContract[c].rate>> : c \in Signed}

\* The flags are flags.
Flags == pubOwn \in BOOLEAN /\ pubDrifted \in BOOLEAN /\ pubStale \in BOOLEAN

LEMMA FlagsKept == ASSUME Flags, [PubNext]_pubVars PROVE Flags'
<1>1. ASSUME pubOwn' \in {pubOwn, TRUE}, pubDrifted' = pubDrifted, pubStale' = pubStale
      PROVE  Flags'
  BY <1>1 DEF Flags
<1>2. ASSUME NEW r \in PubRequests, SignAndPublish(r) PROVE Flags'
  BY <1>1, <1>2, Zenon DEF SignAndPublish, rates, ghosts
<1>3. ASSUME NEW r \in PubRequests, WriteTerms(r) \/ WriteStatus(r) \/ WriteOverride(r)
      PROVE  Flags'
  <2>1. pubStale' \in BOOLEAN
    BY <1>3, Zenon DEF WriteTerms, WriteStatus, WriteOverride, WritesContest
  <2>2. pubDrifted' \in BOOLEAN
    BY <1>3, Zenon DEF WriteTerms, WriteStatus, WriteOverride, Flags
  <2>3. pubOwn' \in BOOLEAN
    BY <1>3, Zenon DEF WriteTerms, WriteStatus, WriteOverride, rates, Flags
  <2> QED BY <2>1, <2>2, <2>3 DEF Flags
<1>4. CASE UNCHANGED <<pubOwn, ghosts>>
  BY <1>1, <1>4 DEF ghosts
<1> QED
  BY <1>2, <1>3, <1>4
  DEF PubNext, pubVars, rates, SetBaseRate, SendSignatureCode, CloseEvent, ReadDraft,
      ReadRates, Generate, ReadContest, CompareText, SupersedeStale, CheckCode, ReadUpdate,
      ReadOverride, ReadDeletion, CountSigned, DeleteEvent, PubStops, ReadContract

LEMMA FlagsAlways == PubSpec => []Flags
<1>1. PubInit => Flags
  BY DEF PubInit, Flags
<1> QED
  BY <1>1, FlagsKept, PTL DEF PubSpec

\* The contest, its contracts and its codes keep their types.
THEOREM PublicationTypes == PubSpec => []PubTypeOK
<1>1. PubInv /\ Flags => PubTypeOK
  <2> SUFFICES ASSUME PubInv, Flags PROVE PubTypeOK
    OBVIOUS
  <2>1. 1..pubSent \subseteq 1..MaxSent /\ pubSent \in 0..MaxSent
    BY PubAssumption DEF PubInv, CodeInv, PubAssumption
  <2>2. pubCode \subseteq 1..MaxSent /\ pubSpent \subseteq 1..MaxSent
    BY <2>1 DEF PubInv, CodeInv
  <2>3. {pubDrifted, pubStale} \subseteq BOOLEAN /\ pubOwn \in BOOLEAN
    BY DEF Flags
  <2> QED BY <2>1, <2>2, <2>3 DEF PubInv, ShapeInv, Papers, PubTypeOK
<1> QED
  BY <1>1, PubAlways, FlagsAlways, PTL

\* Every step is one of the promised life, or leaves it alone, or is stale.
LEMMA StepLives ==
    ASSUME PubInv, pubStale \in BOOLEAN, [PubNext]_pubVars
    PROVE  [Life!LifeNext]_(Life!lifeVars)
<1> SUFFICES ASSUME ~pubStale' PROVE [Life!LifeNext]_(Life!lifeVars)
  BY DEF Life!LifeNext
<1> DEFINE Goal == [Life!LifeNext]_(Life!lifeVars)
<1>1. ASSUME UNCHANGED <<pubStatus, pubRate, pubStale>>, Offered' = Offered PROVE Goal
  BY <1>1 DEF Offered, Life!lifeVars
<1>2. ASSUME UNCHANGED <<pubStatus, pubContract, rates, pubStale>> PROVE Goal
  <2>1. Offered' = Offered
    BY <1>2 DEF Offered, Signed
  <2> QED
    BY <1>1, <1>2, <2>1 DEF rates
<1>3. (\A c \in Contracts : ~IsSigned(c)) => Signed = {} /\ Offered = {}
  BY DEF IsSigned, Signed, Offered
<1>4. ASSUME SetBaseRate PROVE Goal
  <2>1. /\ ~pubOwn /\ pubRate' \in Rates
        /\ UNCHANGED <<pubStatus, pubContract, pubStale>>
    BY <1>4 DEF SetBaseRate, ghosts
  <2>2. Offered = {} /\ Offered' = {}
    BY <1>3, <2>1 DEF PubInv, LifeInv, Offered, Signed
  <2> QED
    BY <2>1, <2>2 DEF Life!LifeNext, Life!Negotiate, Offered
<1>5. ASSUME CloseEvent PROVE Goal
  <2>1. /\ pubStatus = "ACTIVE" /\ pubStatus' = "CLOSED"
        /\ UNCHANGED <<pubRate, pubContract, pubStale>>
    BY <1>5 DEF CloseEvent, rates, ghosts
  <2>2. Offered' = Offered
    BY <2>1 DEF Offered, Signed
  <2> QED
    BY <2>1, <2>2 DEF Life!LifeNext, Life!Close, Offered
<1>6. ASSUME NEW r \in PubRequests, SignAndPublish(r) PROVE Goal
  <2>1. PubAt(r, "publishing") /\ UNCHANGED pubStale
    BY <1>6 DEF SignAndPublish, ghosts
  <2>2. CASE UNCHANGED <<pubStatus, rates, pubContract>>
    BY <1>2, <2>1, <2>2
  <2>3. CASE Publishes(r)
    <3>1. PICK c \in Contracts :
             /\ c = pubReq[r].contract
             /\ pubContract'[c].state = "SIGNED"
             /\ pubContract'[c].rate = pubContract[c].rate /\ pubContract[c].rate \in Rates
             /\ \A b \in Contracts : b # c => pubContract'[b] = pubContract[b]
      BY <2>1, <2>3, OneSigned
    <3>2. pubStatus = "DRAFT" /\ pubStatus' = "ACTIVE" /\ pubRate' = pubContract[c].rate
      BY <2>3, <3>1 DEF Publishes
    <3>3. \A b \in Contracts : ~IsSigned(b)
      BY <2>1, <3>2 DEF PubInv, LifeInv
    <3>4. Signed' = {c}
      BY <3>1, <3>3 DEF Signed, IsSigned
    <3>5. Offered = {} /\ Offered' = {<<c, pubContract[c].rate>>}
      BY <1>3, <3>1, <3>3, <3>4 DEF Offered
    <3>6. /\ <<c, pubContract[c].rate>> \in Contracts \X Rates
          /\ RateOf(<<c, pubContract[c].rate>>) = pubContract[c].rate
      BY <3>1 DEF RateOf
    <3> QED
      BY <3>2, <3>5, <3>6 DEF Life!LifeNext, Life!Publish, Offered
  <2> QED
    BY <1>6, <2>2, <2>3 DEF SignAndPublish, Publishes
<1>7. ASSUME NEW r \in PubRequests, WriteTerms(r) PROVE Goal
  <2>1. UNCHANGED pubStale
    BY <1>7, Zenon DEF WriteTerms, WritesContest
  <2> QED
    BY <1>2, <1>7, <2>1 DEF WriteTerms
<1>8. ASSUME NEW r \in PubRequests, WriteStatus(r) PROVE Goal
  <2>1. /\ ~pubStale /\ pubStatus = pubReq[r].status /\ PubAt(r, "moving")
        /\ pubStatus' = pubReq[r].new /\ UNCHANGED <<pubRate, pubContract>>
    BY <1>8, WriteFresh DEF WriteStatus, rates
  <2>2. pubStatus' = pubStatus \/ (pubStatus \in {"DRAFT", "CLOSED"} /\ pubStatus' = "ARCHIVED")
    BY <2>1 DEF PubInv, ShapeInv, RequestFine, PubAt
  <2>3. Offered' = Offered
    BY <2>1 DEF Offered, Signed
  <2>4. UNCHANGED pubStale
    BY <1>8, Zenon DEF WriteStatus, WritesContest
  <2>5. CASE pubStatus' = pubStatus
    BY <1>1, <2>1, <2>3, <2>4, <2>5
  <2>6. CASE pubStatus \in {"DRAFT", "CLOSED"} /\ pubStatus' = "ARCHIVED"
    BY <2>1, <2>3, <2>6 DEF Life!LifeNext, Life!Archive, Offered
  <2> QED
    BY <2>2, <2>5, <2>6
<1>9. ASSUME NEW r \in PubRequests, WriteOverride(r) PROVE Goal
  <2>1. /\ ~pubStale /\ pubStatus = pubReq[r].status /\ PubAt(r, "pricing")
        /\ pubRate' = pubReq[r].new /\ UNCHANGED <<pubStatus, pubContract>>
    BY <1>9, WriteFresh DEF WriteOverride
  <2>2. pubStatus = "DRAFT" /\ pubRate' \in Rates
    BY <2>1 DEF PubInv, ShapeInv, RequestFine, PubAt
  <2>3. Offered = {} /\ Offered' = {}
    BY <1>3, <2>1, <2>2 DEF PubInv, LifeInv, Offered, Signed
  <2> QED
    BY <2>1, <2>2, <2>3 DEF Life!LifeNext, Life!Negotiate, Offered
<1>10. ASSUME NEW r \in PubRequests, DeleteEvent(r) PROVE Goal
  <2>1. UNCHANGED <<pubRate, pubStale>>
    BY <1>10 DEF DeleteEvent, rates, ghosts
  <2>2. CASE UNCHANGED <<pubStatus, pubContract>>
    BY <1>2, <1>10, <2>1, <2>2 DEF DeleteEvent
  <2>3. CASE /\ Signed = {} /\ pubStatus # "deleted" /\ pubStatus' = "deleted"
             /\ pubContract' = [c \in Contracts |->
                    IF pubContract[c].state = "none" THEN pubContract[c]
                    ELSE [pubContract[c] EXCEPT !.state = "deleted"]]
    <3>1. pubStatus \in {"DRAFT", "ARCHIVED"}
      BY <2>1, <2>3 DEF PubInv, ShapeInv, LifeInv, Signed, IsSigned, PubStates
    <3>2. ASSUME NEW b \in Contracts PROVE pubContract'[b].state # "SIGNED"
      <4>1. pubContract[b] \in Papers
        BY DEF PubInv, ShapeInv
      <4>2. [pubContract[b] EXCEPT !.state = "deleted"].state = "deleted"
        BY <4>1 DEF Papers
      <4> QED
        BY <2>3, <4>2
    <3>3. Offered = {} /\ Offered' = {}
      BY <2>3, <3>2 DEF Offered, Signed
    <3> QED
      BY <2>1, <2>3, <3>1, <3>3 DEF Life!LifeNext, Life!Delete, Offered
  <2> QED
    BY <1>10, <2>2, <2>3 DEF DeleteEvent
<1>11. ASSUME NEW r \in PubRequests, Generate(r) \/ SupersedeStale(r) PROVE Goal
  <2>1. UNCHANGED <<pubStatus, pubRate, pubStale>>
    BY <1>11 DEF Generate, SupersedeStale, rates, ghosts
  <2>2. ASSUME NEW b \in Contracts
        PROVE  [pubContract[b] EXCEPT !.state = "SUPERSEDED"].state = "SUPERSEDED"
    BY DEF PubInv, ShapeInv, Papers
  <2>3. ASSUME NEW b \in Contracts
        PROVE  /\ pubContract'[b].state = "SIGNED" <=> pubContract[b].state = "SIGNED"
               /\ pubContract[b].state = "SIGNED" => pubContract'[b].rate = pubContract[b].rate
    <3>1. CASE Generate(r)
      <4>1. CASE UNCHANGED pubContract
        BY <4>1
      <4> DEFINE new == Paper("PENDING", pubReq[r].terms, pubReq[r].new)
                 old == [pubContract[b] EXCEPT !.state = "SUPERSEDED"]
      <4>2. ASSUME NEW c \in Contracts, pubContract[c].state = "none",
                   pubContract'[b] = IF b = c THEN new
                                     ELSE IF pubContract[b].state = "PENDING" THEN old
                                     ELSE pubContract[b]
            PROVE  /\ pubContract'[b].state = "SIGNED" <=> pubContract[b].state = "SIGNED"
                   /\ pubContract[b].state = "SIGNED"
                         => pubContract'[b].rate = pubContract[b].rate
        <5>1. new.state = "PENDING" /\ old.state = "SUPERSEDED"
          BY <2>2 DEF Paper
        <5> HIDE DEF new, old
        <5> QED
          BY <4>2, <5>1
      <4> QED
        BY <3>1, <4>1, <4>2 DEF Generate
    <3>2. CASE SupersedeStale(r)
      <4>1. PICK c \in Contracts : c = pubReq[r].contract
        BY <3>2 DEF PubInv, ShapeInv, SupersedeStale, PubAt, RequestFine
      <4>2. CASE UNCHANGED pubContract
        BY <4>2
      <4>3. CASE /\ pubContract[c].state = "PENDING"
                 /\ pubContract' = [pubContract EXCEPT ![c].state = "SUPERSEDED"]
        BY <2>2, <4>3 DEF PubInv, ShapeInv
      <4> QED
        BY <3>2, <4>1, <4>2, <4>3 DEF SupersedeStale
    <3> QED
      BY <1>11, <3>1, <3>2
  <2>4. Signed' = Signed /\ \A c \in Signed : pubContract'[c].rate = pubContract[c].rate
    BY <2>3 DEF Signed
  <2>5. Offered' = Offered
    BY <2>4 DEF Offered
  <2> QED
    BY <1>1, <2>1, <2>5
<1>12. ASSUME SendSignatureCode PROVE Goal
  BY <1>2, <1>12 DEF SendSignatureCode, ghosts
<1>15. ASSUME NEW r \in PubRequests,
              \/ ReadDraft(r) \/ ReadRates(r) \/ ReadContest(r) \/ CompareText(r)
              \/ CheckCode(r) \/ ReadUpdate(r) \/ ReadOverride(r) \/ ReadDeletion(r)
              \/ CountSigned(r) \/ PubStops(r)
              \/ \E c \in Contracts : ReadContract(r, c)
       PROVE  Goal
  <2>1. UNCHANGED <<pubStatus, pubContract, rates, pubStale>>
    BY <1>15 DEF ReadDraft, ReadRates, ReadContest, CompareText, CheckCode,
       ReadUpdate, ReadOverride, ReadDeletion, CountSigned, PubStops, ReadContract, ghosts
  <2> QED
    BY <1>2, <2>1
<1>13. ASSUME UNCHANGED pubVars PROVE Goal
  BY <1>2, <1>13 DEF pubVars, rates, ghosts
<1> HIDE DEF Goal
<1>14. Goal
  BY <1>4, <1>5, <1>6, <1>7, <1>8, <1>9, <1>10, <1>11, <1>12, <1>13,
     <1>15 DEF PubNext
<1> QED
  BY <1>14 DEF Goal

\* Every behaviour of the contest is, as far as no request writes over what it
\* had not read, one of the life that EventLife promises.
THEOREM LivesAsPromised == PubSpec => ImplementsEventLife
<1>1. PubInit => Life!LifeInit
  <2>1. PubInit => Offered = {}
    BY DEF PubInit, Offered, Signed, Blank, Paper
  <2> QED
    BY <2>1 DEF PubInit, Life!LifeInit, Offered
<1>2. PubInv /\ pubStale \in BOOLEAN /\ [PubNext]_pubVars => [Life!LifeNext]_(Life!lifeVars)
  BY StepLives
<1>3. Flags => pubStale \in BOOLEAN
  BY DEF Flags
<1> QED
  BY <1>1, <1>2, <1>3, FlagsAlways, PubAlways, PTL DEF PubSpec, ImplementsEventLife, Life!LifeSpec
=============================================================================
