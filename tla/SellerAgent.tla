------------------------------ MODULE SellerAgent ------------------------------
(***************************************************************************)
(* The seller agents (agents/seller-copywriter, seller-namer, seller-      *)
(* researcher, seller-webbuilder: index.ts): POST /job is answered at      *)
(* once, and the work goes on behind the answer: the model is asked, its   *)
(* text written to a file, and the file submitted to the contract, up to   *)
(* five times.  The language model and the chain are external.             *)
(*                                                                         *)
(* A text is known by the request it was generated for, a file by its      *)
(* name: one per job, or one for all of them.  The texts that were written *)
(* are counted, to tell which of two is the later.                         *)
(***************************************************************************)
EXTENDS Naturals, FiniteSets

CONSTANTS
    Posts,          \* requests that reach POST /job
    JobIds,
    maxAttempts,    \* 5 in the code
    rateLimit       \* requests a client may make in a minute, 5 in the code

\* No request: none has written the file.
NoPost == "none"
\* No deliverable yet.
Unsubmitted == "unsubmitted"

ASSUME SellerAssumption ==
    /\ maxAttempts \in Nat \ {0} /\ rateLimit \in Nat \ {0}
    /\ NoPost \notin Posts /\ Unsubmitted \notin JobIds

VARIABLES
    perJobFile,     \* copywriter and webbuilder; not namer and researcher
    post,           \* request -> [at, job, attempt]
    jobsActive, jobsCompleted, jobsFailed,
    inWindow,       \* the rate limiter's count
    output,         \* file -> the request whose text it holds, NoPost when absent
    written,        \* request -> its text was the n-th to be written, 0 before
    submitted       \* external: the deliverable a job was submitted with, or none

sellerVars == <<perJobFile, post, jobsActive, jobsCompleted, jobsFailed, inWindow, output,
                written, submitted>>
counters == <<jobsActive, jobsCompleted, jobsFailed>>

File(job) == IF perJobFile THEN job ELSE "output"
Files == JobIds \cup {"output"}

SellerStart(own) ==
    /\ perJobFile = own
    /\ post = [p \in Posts |-> [at |-> "new", job |-> NoPost, attempt |-> 0]]
    /\ jobsActive = 0 /\ jobsCompleted = 0 /\ jobsFailed = 0 /\ inWindow = 0
    /\ output = [f \in Files |-> NoPost] /\ written = [p \in Posts |-> 0]
    /\ submitted = [j \in JobIds |-> Unsubmitted]

SellerInit == \E own \in BOOLEAN : SellerStart(own)

-----------------------------------------------------------------------------
\* POST /job.  The limiter counts every request; an invalid job id or prompt is
\* answered 400.
TakePost(p) ==
    /\ post[p].at = "new"
    /\ inWindow' = IF inWindow < rateLimit THEN inWindow + 1 ELSE inWindow
    /\ \/ /\ inWindow < rateLimit
          /\ \E j \in JobIds :
               post' = [post EXCEPT ![p] = [at |-> "generating", job |-> j, attempt |-> 0]]
          /\ jobsActive' = jobsActive + 1
       \/ /\ post' = [post EXCEPT ![p].at = "refused"]
          /\ UNCHANGED jobsActive
    /\ UNCHANGED <<perJobFile, jobsCompleted, jobsFailed, output, written, submitted>>

WindowEnds ==
    /\ inWindow > 0 /\ inWindow' = 0
    /\ UNCHANGED <<perJobFile, post, counters, output, written, submitted>>

\* Mutant: The handler goes on before its file is written, and one day it is not.
GeneratedUnwritten(p) ==
    /\ post[p].at = "generating"
    /\ post' = [post EXCEPT ![p].at = "submitting"]
    /\ UNCHANGED <<perJobFile, counters, inWindow, output, written, submitted>>

\* generate answers, and the text passes the agent's own check.
Generated(p) ==
    /\ post[p].at = "generating"
    /\ output' = [output EXCEPT ![File(post[p].job)] = p]
    /\ written' = [written EXCEPT ![p] = Cardinality({q \in Posts : written[q] > 0}) + 1]
    /\ post' = [post EXCEPT ![p].at = "submitting"]
    /\ UNCHANGED <<perJobFile, counters, inWindow, submitted>>

\* The catch and the finally of the handler.
Fails(p) ==
    /\ post' = [post EXCEPT ![p].at = "failed"]
    /\ jobsFailed' = jobsFailed + 1 /\ jobsActive' = jobsActive - 1
    /\ UNCHANGED jobsCompleted

\* The model cannot be reached or its text is refused.
GenerateFails(p) ==
    /\ post[p].at = "generating" /\ Fails(p)
    /\ UNCHANGED <<perJobFile, inWindow, output, written, submitted>>

\* submit is executed: a job takes one deliverable.
SubmitLands(p) ==
    /\ post[p].at = "submitting" /\ submitted[post[p].job] = Unsubmitted
    /\ submitted' = [submitted EXCEPT ![post[p].job] = File(post[p].job)]
    /\ post' = [post EXCEPT ![p].at = "done"]
    /\ jobsCompleted' = jobsCompleted + 1 /\ jobsActive' = jobsActive - 1
    /\ UNCHANGED <<perJobFile, jobsFailed, inWindow, output, written>>

\* submit throws: it was not executed, or its answer was lost, or the job has its
\* deliverable already.  The last attempt's error is the handler's.
SubmitThrows(p) ==
    /\ post[p].at = "submitting"
    /\ submitted' \in {submitted} \cup
         IF submitted[post[p].job] = Unsubmitted
         THEN {[submitted EXCEPT ![post[p].job] = File(post[p].job)]} ELSE {}
    /\ IF post[p].attempt + 1 = maxAttempts
       THEN Fails(p)
       ELSE post' = [post EXCEPT ![p].attempt = @ + 1] /\ UNCHANGED counters
    /\ UNCHANGED <<perJobFile, inWindow, output, written>>

SellerNext ==
    \/ \E p \in Posts : TakePost(p) \/ Generated(p) \/ GenerateFails(p) \/ SubmitLands(p)
                        \/ SubmitThrows(p)
    \/ WindowEnds

SellerTypeOK ==
    /\ \A p \in Posts : post[p].at \in {"new", "refused", "generating", "submitting",
                                        "done", "failed"}
    /\ jobsActive = Cardinality({p \in Posts : post[p].at \in {"generating", "submitting"}})
    /\ inWindow \in 0..rateLimit
    /\ output \in [Files -> Posts \cup {NoPost}]
    /\ submitted \in [JobIds -> Files \cup {Unsubmitted}]

-----------------------------------------------------------------------------
\* What the client of a submitted job finds in its file, whatever other requests the
\* seller works on, for whichever jobs: with a file per job, a text made for that job.
\* With one file for all (the namer and the researcher, seller-namer/index.ts), where
\* the text of another request replaces it, no text from before the job's own was
\* written: it can be a later client's, and is never a former one's.  And a job is counted
\* as completed once at most, though requests come twice and submissions are repeated
\* whose answers were lost.
DeliverableIsItsJobs ==
    /\ \A j \in JobIds : submitted[j] # Unsubmitted =>
         LET found == output[submitted[j]] IN
         /\ found # NoPost
         /\ \/ post[found].job = j
            \/ ~perJobFile /\ \E p \in Posts : /\ post[p].job = j
                                               /\ written[p] \in 1..(written[found] - 1)
    /\ jobsCompleted <= Cardinality({j \in JobIds : submitted[j] # Unsubmitted})
=============================================================================
