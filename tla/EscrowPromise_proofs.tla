------------------------ MODULE EscrowPromise_proofs ------------------------
(***************************************************************************)
(* The agentic-commerce contract implements EscrowPromise: seen through    *)
(* the refinement mapping of AgenticCommerce, every step of the contract   *)
(* is a deposit, a payout, a refund, or no step at all.                    *)
(***************************************************************************)
EXTENDS AgenticCommerce_proofs

\* The mapping's entry of job id, and the book it makes.
Entry(id) == [ phase  |-> Phase(jobs[id].status),
               amount |-> jobs[id].budget,
               client |-> paid[id].client,
               payees |-> paid[id].provider + paid[id].treasury ]

Book == [id \in PlainJobs |-> Entry(id)]

(***************************************************************************)
(* An open plain job has paid nothing, and its entry is held in full.      *)
(***************************************************************************)
LEMMA OpenIsHeld ==
    ASSUME IInv, NEW id \in PlainJobs, jobs[id].status \notin Terminal
    PROVE  /\ jobs[id].budget \in Nat \ {0}
           /\ jobs[id].released = 0
           /\ paid[id] = [client |-> 0, provider |-> 0, treasury |-> 0]
           /\ Entry(id) = Promise!Held(jobs[id].budget)
<1>1. id \in JobIds
  BY DEF PlainJobs, IsMilestoneJob
<1>2. jobs[id] \in Job /\ paid[id] \in Payment
  BY <1>1, ElementOfSeq, LenProperties DEF IInv, TypeOK, JobsOK, PaidOK, JobIds
<1>3. paid[id].client + paid[id].provider + paid[id].treasury = 0
      /\ jobs[id].released = 0
  BY DEF IInv, SettledOnce, Disbursed
<1>4. /\ paid[id].client \in Nat /\ paid[id].provider \in Nat
      /\ paid[id].treasury \in Nat
  BY <1>2 DEF Payment
<1>5. paid[id].client = 0 /\ paid[id].provider = 0 /\ paid[id].treasury = 0
  BY <1>3, <1>4, NothingIsThreeNothings
<1>6. paid[id] = [client |-> 0, provider |-> 0, treasury |-> 0]
  BY <1>2, <1>5 DEF Payment
<1>7. Phase(jobs[id].status) = "held"
  BY DEF Phase, Terminal
<1> QED
  BY <1>2, <1>3, <1>5, <1>6, <1>7 DEF Entry, Promise!Held, Job

(***************************************************************************)
(* A step that keeps every entry is a stutter of the promise.              *)
(***************************************************************************)
LEMMA SameBook ==
    ASSUME PlainJobs' = PlainJobs, \A id \in PlainJobs : Entry(id)' = Entry(id)
    PROVE  Book' = Book
BY DEF Book

(***************************************************************************)
(* A step that changes one entry.                                          *)
(***************************************************************************)
LEMMA OneEntryChanged ==
    ASSUME NEW id \in PlainJobs, PlainJobs' = PlainJobs,
           \A k \in PlainJobs \ {id} : Entry(k)' = Entry(k)
    PROVE  /\ Book' = [Book EXCEPT ![id] = Entry(id)']
           /\ Book[id] = Entry(id) /\ Book'[id] = Entry(id)'
           /\ DOMAIN Book' = DOMAIN Book
BY DEF Book

(***************************************************************************)
(* Creating jobs deposits the plain ones among them.                       *)
(***************************************************************************)
LEMMA CreatedDeposits ==
    ASSUME IInv, Created, DOMAIN milestones \subseteq DOMAIN milestones',
           DOMAIN milestones' \cap JobIds \subseteq DOMAIN milestones
    PROVE  Promise!Deposit \/ Book' = Book
<1>1. /\ PlainJobs \subseteq PlainJobs'
      /\ \A id \in PlainJobs' \ PlainJobs : id \in JobIds' \ JobIds
      /\ \A id \in PlainJobs : id \in JobIds
  BY DEF Created, PlainJobs, IsMilestoneJob
<1>2. \A id \in PlainJobs : Entry(id)' = Entry(id)
  BY <1>1 DEF Created, Entry
<1>3. \A id \in PlainJobs' \ PlainJobs :
         /\ jobs'[id].budget > 0
         /\ Entry(id)' = Promise!Held(jobs'[id].budget)
  <2> SUFFICES ASSUME NEW id \in JobIds' \ JobIds
               PROVE  /\ jobs'[id].budget > 0
                      /\ Entry(id)' = Promise!Held(jobs'[id].budget)
    BY <1>1
  <2>1. jobs'[id] \in Job
    BY ElementOfSeq, LenProperties DEF Created, JobsOK, JobIds
  <2>2. /\ jobs'[id].status = "Funded"
        /\ paid'[id] = [client |-> 0, provider |-> 0, treasury |-> 0]
    BY DEF Created, NoPayment
  <2> QED
    BY <2>1, <2>2 DEF Entry, Phase, Promise!Held, Job
<1>4. CASE PlainJobs' = PlainJobs
  BY <1>2, <1>4, SameBook
<1>5. CASE PlainJobs' # PlainJobs
  <2>1. DOMAIN Book = PlainJobs /\ DOMAIN Book' = PlainJobs'
    BY DEF Book
  <2>2. \A id \in PlainJobs : Book'[id] = Book[id]
    BY <1>1, <1>2 DEF Book
  <2>3. \A id \in PlainJobs' \ PlainJobs :
           Book'[id].amount > 0 /\ Book'[id] = Promise!Held(Book'[id].amount)
    BY <1>3 DEF Book, Promise!Held
  <2> QED
    BY <1>1, <1>5, <2>1, <2>2, <2>3 DEF Promise!Deposit, Book, Entry
<1> QED
  BY <1>4, <1>5

(***************************************************************************)
(* A step on one job leaves the entries of the others alone.               *)
(***************************************************************************)
LEMMA OthersKept ==
    ASSUME NEW id \in JobIds, OnlyJob(id),
           DOMAIN milestones \subseteq DOMAIN milestones',
           DOMAIN milestones' \cap JobIds \subseteq DOMAIN milestones
    PROVE  /\ PlainJobs' = PlainJobs
           /\ \A k \in PlainJobs \ {id} : Entry(k)' = Entry(k)
<1>1. PlainJobs' = PlainJobs
  BY DEF OnlyJob, PlainJobs, IsMilestoneJob
<1>2. \A k \in PlainJobs : k \in JobIds
  BY DEF PlainJobs, IsMilestoneJob
<1> QED
  BY <1>1, <1>2 DEF OnlyJob, Entry

(***************************************************************************)
(* Paying a plain job out is a payout of the promise.                      *)
(***************************************************************************)
LEMMA PaidOutPays ==
    ASSUME IInv, NEW id \in PlainJobs, PaidOut(id), PlainJobs' = PlainJobs,
           \A k \in PlainJobs \ {id} : Entry(k)' = Entry(k)
    PROVE  Promise!PayOut(id)
<1>1. jobs[id].status \notin Terminal
  BY DEF PaidOut, OnlyJob
<1>2. /\ jobs[id].budget \in Nat \ {0}
      /\ paid[id] = [client |-> 0, provider |-> 0, treasury |-> 0]
      /\ Entry(id) = Promise!Held(jobs[id].budget)
  BY <1>1, OpenIsHeld
<1>3. PICK client, provider, treasury \in Nat :
         /\ client + provider + treasury = jobs[id].budget
         /\ 2 * client <= jobs[id].budget
         /\ paid'[id] = [client   |-> paid[id].client + client,
                         provider |-> paid[id].provider + provider,
                         treasury |-> paid[id].treasury + treasury]
  BY DEF PaidOut
<1>4. paid'[id] = [client |-> client, provider |-> provider, treasury |-> treasury]
  BY <1>2, <1>3
<1>5. jobs[id] \in Job
  BY ElementOfSeq, LenProperties DEF IInv, TypeOK, JobsOK, JobIds, PlainJobs,
     IsMilestoneJob
<1>6. jobs'[id].status = "Completed" /\ jobs'[id].budget = jobs[id].budget
  BY <1>5 DEF PaidOut, Settled, Job
<1>7. provider + treasury = jobs[id].budget - client
  BY <1>2, <1>3
<1>8. Entry(id)' = [phase |-> "paid", amount |-> jobs[id].budget,
                    client |-> client, payees |-> jobs[id].budget - client]
  BY <1>4, <1>6, <1>7 DEF Entry, Phase
<1>9. /\ Book' = [Book EXCEPT ![id] = Entry(id)']
      /\ Book[id] = Entry(id) /\ Book'[id] = Entry(id)'
      /\ DOMAIN Book' = DOMAIN Book
  BY OneEntryChanged
<1>10. /\ Book[id].phase = "held" /\ Book[id].amount = jobs[id].budget
       /\ Book'[id].client = client
  BY <1>2, <1>8, <1>9 DEF Promise!Held
<1>11. client + (jobs[id].budget - client) = jobs[id].budget
  BY <1>2, <1>3
<1>12. Book' = [Book EXCEPT ![id] =
                  [phase |-> "paid", amount |-> Book[id].amount,
                   client |-> client, payees |-> Book[id].amount - client]]
  BY <1>8, <1>9, <1>10
<1>13. Promise!Dispose(id, "paid", client, Book[id].amount - client)
  BY <1>10, <1>11, <1>12 DEF Promise!Dispose, Book, Entry
<1>14. client \in 0..Book[id].amount /\ 2 * client <= Book[id].amount
  BY <1>2, <1>3, <1>10
<1> QED
  BY <1>13, <1>14 DEF Promise!PayOut, Book, Entry

(***************************************************************************)
(* A refund of the contract (cancel, claim_refund) is one of the promise.  *)
(***************************************************************************)
LEMMA RefundedRefunds ==
    ASSUME IInv, NEW id \in PlainJobs, Refunded(id), PlainJobs' = PlainJobs,
           \A k \in PlainJobs \ {id} : Entry(k)' = Entry(k)
    PROVE  Promise!Refund(id)
<1>1. jobs[id].status \notin Terminal
  BY DEF Refunded, OnlyJob
<1>2. /\ jobs[id].budget \in Nat \ {0} /\ jobs[id].released = 0
      /\ paid[id] = [client |-> 0, provider |-> 0, treasury |-> 0]
      /\ Entry(id) = Promise!Held(jobs[id].budget)
  BY <1>1, OpenIsHeld
<1>3. paid'[id] = [client |-> jobs[id].budget, provider |-> 0, treasury |-> 0]
  BY <1>2 DEF Refunded
<1>4. jobs[id] \in Job
  BY ElementOfSeq, LenProperties DEF IInv, TypeOK, JobsOK, JobIds, PlainJobs,
     IsMilestoneJob
<1>5. jobs'[id].status = "Cancelled" /\ jobs'[id].budget = jobs[id].budget
  BY <1>4 DEF Refunded, Settled, Job
<1>6. Entry(id)' = [phase |-> "refunded", amount |-> jobs[id].budget,
                    client |-> jobs[id].budget, payees |-> 0]
  BY <1>3, <1>5 DEF Entry, Phase
<1>7. Book' = [Book EXCEPT ![id] = Entry(id)'] /\ Book[id] = Entry(id)
  BY OneEntryChanged
<1>8. Book[id].phase = "held" /\ Book[id].amount = jobs[id].budget
  BY <1>2, <1>7 DEF Promise!Held
<1>9. Book' = [Book EXCEPT ![id] =
                 [phase |-> "refunded", amount |-> Book[id].amount,
                  client |-> Book[id].amount, payees |-> 0]]
  BY <1>6, <1>7, <1>8
<1>10. Book[id].amount + 0 = Book[id].amount
  BY <1>2, <1>8
<1> QED
  BY <1>8, <1>9, <1>10 DEF Promise!Refund, Promise!Dispose, Book, Entry

(***************************************************************************)
(* Every plain job is held in full and then disposed of in full, exactly   *)
(* once: the contract implements the promise.                              *)
(***************************************************************************)
THEOREM ContractKeepsPromise == Spec => KeepsPromise
<1>1. Init => Promise!Init
  <2> SUFFICES ASSUME Init PROVE Promise!Init
    OBVIOUS
  <2>1. PlainJobs = {}
    BY DEF Init, JobInit, PlainJobs, IsMilestoneJob, JobIds
  <2> QED
    BY <2>1 DEF Promise!Init
<1>2. ASSUME IInv, [Next]_vars
      PROVE  Promise!Next \/ Book' = Book
  <2>1. /\ DOMAIN milestones \subseteq DOMAIN milestones'
        /\ DOMAIN milestones' \cap JobIds \subseteq DOMAIN milestones
    BY <1>2, StepClass
  <2>2. CASE UNCHANGED <<jobs, paid>>
    <3>1. PlainJobs' = PlainJobs
      BY <2>1, <2>2 DEF PlainJobs, IsMilestoneJob, JobIds
    <3> QED
      BY <2>2, <3>1, SameBook DEF Entry
  <2>3. CASE Created
    BY <1>2, <2>1, <2>3, CreatedDeposits DEF Promise!Next
  <2>4. ASSUME NEW id \in JobIds,
               Moved(id) \/ PaidOut(id) \/ Refunded(id) \/ Released(id)
        PROVE  Promise!Next \/ Book' = Book
    <3>1. OnlyJob(id)
      BY <2>4 DEF Moved, PaidOut, Refunded, Released
    <3>2. /\ PlainJobs' = PlainJobs
          /\ \A k \in PlainJobs \ {id} : Entry(k)' = Entry(k)
      BY <2>1, <3>1, OthersKept
    <3>3. CASE id \notin PlainJobs
      BY <3>2, <3>3, SameBook
    <3>4. CASE id \in PlainJobs /\ Moved(id)
      <4>1. jobs'[id].budget = jobs[id].budget /\ paid'[id] = paid[id]
        BY <3>4 DEF Moved, OnlyJob
      <4>2. Phase(jobs[id].status) = "held" /\ Phase(jobs'[id].status) = "held"
        BY <3>4 DEF Moved, OnlyJob, Phase, Terminal
      <4>3. Entry(id)' = Entry(id)
        BY <4>1, <4>2 DEF Entry, Phase
      <4> QED
        BY <3>2, <4>3, SameBook
    <3>5. CASE id \in PlainJobs /\ PaidOut(id)
      BY <1>2, <3>2, <3>5, PaidOutPays DEF Promise!Next, Book, Entry
    <3>6. CASE id \in PlainJobs /\ Refunded(id)
      BY <1>2, <3>2, <3>6, RefundedRefunds DEF Promise!Next, Book, Entry
    <3>7. CASE Released(id)
      BY <3>3, <3>7 DEF Released, PlainJobs, IsMilestoneJob
    <3> QED
      BY <2>4, <3>3, <3>4, <3>5, <3>6, <3>7
  <2> QED
    BY <1>2, <2>2, <2>3, <2>4, StepClass
<1>3. IInv /\ [Next]_vars => [Promise!Next]_Book
  BY <1>2
<1> QED
  BY <1>1, <1>3, Invariant, PTL DEF Spec, KeepsPromise, Promise!Spec, Book, Entry

=============================================================================
