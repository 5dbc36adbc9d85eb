------------------------- MODULE AcquisitionProofs -------------------------
(***************************************************************************)
(* Theorems about Acquisition for every number of attempts and every set   *)
(* of filter and trace modes.  What an attempt may rely on at each place   *)
(* is an inductive invariant of its own for each property: what the page   *)
(* and the file are known to be, when a trace runs, when a browser is      *)
(* open, and where a rejected login leads.                                 *)
(***************************************************************************)
EXTENDS Acquisition, TLAPS

(* The attempt is past the checks of its filters, without an error. *)
Leaving  == {"finish", "close", "store"}
Filtered == pc \in {"download", "validate"} \/ (pc \in Leaving /\ error = NoError)

(* What is known of page and file where the attempt is. *)
Progress ==
    /\ pc \in Steps \cup {"launch", "trace", "store"} => error = NoError
    /\ Filtered /\ config.filters # "none" => page = "wanted"
    /\ pc \in Leaving /\ error = NoError => file = "good"
    /\ pc # "over" => raw = {} /\ outcome = "pending"
    /\ pc \in {"capture", "decide"} => error # NoError

(* A trace runs from the end of the login to the end of the steps, and     *)
(* does not know the login.                                                *)
TraceScope ==
    /\ pc \in {"launch", "login", "trace", "close", "store", "decide", "over"}
           => trace = NotTracing
    /\ "login" \notin trace

(* A browser is open between launch and close at most. *)
BrowserScope == pc \in {"launch", "store", "decide", "over"} => ~browser

(* A rejected login is on its way to the end of the acquisition.           *)
Rejected ==
    \/ rejections = 0
    \/ /\ rejections = 1
       /\ pc \in {"capture", "finish", "close", "decide", "over"}
       /\ error \in {"authentication", "storage"}

IInv ==
    /\ TypeOK
    /\ Progress /\ ReportIsWhatWasAsked
    /\ TraceScope /\ SecretsStayOut
    /\ BrowserScope
    /\ Rejected

-----------------------------------------------------------------------------
(* The initial states are well typed. *)
LEMMA InitTypeOK == Init => TypeOK
<1> SUFFICES ASSUME Init PROVE TypeOK
    OBVIOUS
<1>1. attempt \in 1..MaxAttempts /\ rejections \in Nat /\ raw \subseteq 1..MaxAttempts
    BY AcquisitionAssumption DEF Init
<1>2. evidence \in SUBSET Pieces /\ traces \in SUBSET SUBSET Steps
    BY DEF Init
<1>3. pc \in Steps \cup {"launch", "trace", "capture", "finish", "close", "store",
                         "decide", "over"}
    BY DEF Init
<1>4. page \in PageStates /\ outcome \in Outcomes /\ browser \in BOOLEAN
    BY DEF Init, PageStates, Outcomes
<1> QED BY <1>1, <1>2, <1>3, <1>4 DEF Init, TypeOK

(* Every step keeps every variable within its type; the outcome needs to know
   that an error was on its way. *)
LEMMA StepTypeOK == TypeOK /\ Progress /\ [Next]_vars => TypeOK'
<1> SUFFICES ASSUME TypeOK, Progress, [Next]_vars PROVE TypeOK'
    OBVIOUS
<1> USE AcquisitionAssumption DEF TypeOK, Progress, Retryable, Permanent,
        NoError, Steps, Outcomes, Pieces, PageStates
<1>1. CASE Browse
    <2>1. CASE Launch BY <2>1 DEF Launch
    <2>2. CASE LaunchFails
        <3>1. browser' \in BOOLEAN BY <2>2 DEF LaunchFails
        <3>2. error' \in {NoError} \cup Retryable \cup Permanent BY <2>2 DEF LaunchFails
        <3> QED BY <2>2, <3>1, <3>2 DEF LaunchFails
    <2>3. CASE Login BY <2>3 DEF Login, Continue, Recorded
    <2>4. CASE LoginFails
        BY <2>4 DEF LoginFails, Fails, Converted, Captured, Recorded
    <2>5. CASE StartTrace BY <2>5 DEF StartTrace
    <2>6. CASE StartTraceFails BY <2>6 DEF StartTraceFails
    <2>7. CASE Navigate BY <2>7 DEF Navigate, Continue, Recorded
    <2>8. CASE NavigateFails
        BY <2>8 DEF NavigateFails, Fails, Converted, Captured, Recorded
    <2>9. CASE Download BY <2>9 DEF Download, Recorded
    <2>10. CASE DownloadFails
        BY <2>10 DEF DownloadFails, Fails, Converted, Captured, Recorded
    <2>11. CASE Validate BY <2>11 DEF Validate, Continue, Recorded, IsReport
    <2>12. CASE ValidateFails
        BY <2>12 DEF ValidateFails, Fails, Converted, Captured, Recorded, IsReport
    <2> QED BY <1>1, <2>1, <2>2, <2>3, <2>4, <2>5, <2>6, <2>7, <2>8, <2>9, <2>10, <2>11, <2>12
            DEF Browse
<1>2. CASE Filter
    <2>1. CASE NoFilters BY <2>1 DEF NoFilters, Continue, Recorded
    <2>2. CASE ApplyViaUrl BY <2>2 DEF ApplyViaUrl, Continue, Recorded
    <2>3. CASE ApplyViaWidgets BY <2>3 DEF ApplyViaWidgets, Continue, Recorded
    <2>4. CASE WidgetsUnavailable BY <2>4 DEF WidgetsUnavailable, Continue, Recorded
    <2>5. CASE ApplyFails
        BY <2>5 DEF ApplyFails, Fails, Converted, Captured, Recorded
    <2>6. CASE Results BY <2>6 DEF Results, Continue, Recorded
    <2>7. CASE NoResults BY <2>7 DEF NoResults, Continue, Recorded
    <2>8. CASE ResultsFail
        BY <2>8 DEF ResultsFail, Fails, Converted, Captured, Recorded
    <2>9. CASE Verify BY <2>9 DEF Verify, Continue, Recorded, Accepts
    <2>10. CASE VerifyAgainViaUrl BY <2>10 DEF VerifyAgainViaUrl, Continue, Recorded
    <2>11. CASE VerifyFails
        BY <2>11 DEF VerifyFails, Fails, Converted, Captured, Recorded, Accepts
    <2> QED BY <1>2, <2>1, <2>2, <2>3, <2>4, <2>5, <2>6, <2>7, <2>8, <2>9, <2>10, <2>11
            DEF Filter
<1>3. CASE Leave
    <2>1. CASE Capture BY <2>1 DEF Capture
    <2>2. CASE FinishTrace
        <3>1. traces' \in SUBSET SUBSET Steps
            <4>1. CASE UNCHANGED traces BY <4>1
            <4>2. CASE trace # NotTracing /\ traces' = traces \cup {trace}
                <5>1. trace \in SUBSET Steps BY <4>2
                <5> QED BY <4>2, <5>1
            <4> QED BY <2>2, <4>1, <4>2 DEF FinishTrace
        <3> QED BY <2>2, <3>1 DEF FinishTrace
    <2>3. CASE StoreTraceFails BY <2>3 DEF StoreTraceFails, Keeps
    <2>4. CASE Close
        <3>1. browser' \in BOOLEAN BY <2>4 DEF Close
        <3>2. pc' \in {"store", "decide"} BY <2>4 DEF Close
        <3> QED BY <2>4, <3>1, <3>2 DEF Close
    <2>5. CASE StoreRaw BY <2>5 DEF StoreRaw
    <2>6. CASE StoreRawFails BY <2>6 DEF StoreRawFails
    <2>7. CASE Retry BY <2>7 DEF Retry, Retries
    <2>8. CASE GiveUp BY <2>8 DEF GiveUp, Retries
    <2> QED BY <1>3, <2>1, <2>2, <2>3, <2>4, <2>5, <2>6, <2>7, <2>8
            DEF Leave
<1>4. CASE UNCHANGED vars BY <1>4 DEF vars
<1> QED BY <1>1, <1>2, <1>3, <1>4 DEF Next

(* Every step keeps what is known of the page and the file, so that what is
   returned is what was asked for. *)
LEMMA StepProgress ==
    TypeOK /\ Progress /\ ReportIsWhatWasAsked /\ [Next]_vars => (Progress /\ ReportIsWhatWasAsked)'
<1> SUFFICES ASSUME TypeOK, Progress, ReportIsWhatWasAsked, [Next]_vars
                    PROVE  (Progress /\ ReportIsWhatWasAsked)'
    OBVIOUS
<1> USE AcquisitionAssumption DEF TypeOK, Progress, ReportIsWhatWasAsked,
        Filtered, Leaving, Steps, Retryable, Permanent, NoError
<1>1. CASE Browse
    <2>1. CASE Launch BY <2>1 DEF Launch
    <2>2. CASE LaunchFails BY <2>2 DEF LaunchFails
    <2>3. CASE Login BY <2>3 DEF Login, Continue, Recorded
    <2>4. CASE LoginFails
        BY <2>4 DEF LoginFails, Fails, Converted, Captured, Recorded
    <2>5. CASE StartTrace BY <2>5 DEF StartTrace
    <2>6. CASE StartTraceFails BY <2>6 DEF StartTraceFails
    <2>7. CASE Navigate BY <2>7 DEF Navigate, Continue, Recorded
    <2>8. CASE NavigateFails
        BY <2>8 DEF NavigateFails, Fails, Converted, Captured, Recorded
    <2>9. CASE Download BY <2>9 DEF Download, Recorded
    <2>10. CASE DownloadFails
        BY <2>10 DEF DownloadFails, Fails, Converted, Captured, Recorded
    <2>11. CASE Validate BY <2>11 DEF Validate, Continue, Recorded, IsReport
    <2>12. CASE ValidateFails
        BY <2>12 DEF ValidateFails, Fails, Converted, Captured, Recorded, IsReport
    <2> QED BY <1>1, <2>1, <2>2, <2>3, <2>4, <2>5, <2>6, <2>7, <2>8, <2>9, <2>10, <2>11, <2>12
            DEF Browse
<1>2. CASE Filter
    <2>1. CASE NoFilters BY <2>1 DEF NoFilters, Continue, Recorded
    <2>2. CASE ApplyViaUrl BY <2>2 DEF ApplyViaUrl, Continue, Recorded
    <2>3. CASE ApplyViaWidgets BY <2>3 DEF ApplyViaWidgets, Continue, Recorded
    <2>4. CASE WidgetsUnavailable BY <2>4 DEF WidgetsUnavailable, Continue, Recorded
    <2>5. CASE ApplyFails
        BY <2>5 DEF ApplyFails, Fails, Converted, Captured, Recorded
    <2>6. CASE Results BY <2>6 DEF Results, Continue, Recorded
    <2>7. CASE NoResults BY <2>7 DEF NoResults, Continue, Recorded
    <2>8. CASE ResultsFail
        BY <2>8 DEF ResultsFail, Fails, Converted, Captured, Recorded
    <2>9. CASE Verify BY <2>9 DEF Verify, Continue, Recorded, Accepts
    <2>10. CASE VerifyAgainViaUrl BY <2>10 DEF VerifyAgainViaUrl, Continue, Recorded
    <2>11. CASE VerifyFails
        BY <2>11 DEF VerifyFails, Fails, Converted, Captured, Recorded, Accepts
    <2> QED BY <1>2, <2>1, <2>2, <2>3, <2>4, <2>5, <2>6, <2>7, <2>8, <2>9, <2>10, <2>11
            DEF Filter
<1>3. CASE Leave
    <2>1. CASE Capture BY <2>1 DEF Capture
    <2>2. CASE FinishTrace BY <2>2 DEF FinishTrace, Keeps
    <2>3. CASE StoreTraceFails BY <2>3 DEF StoreTraceFails, Keeps
    <2>4. CASE Close BY <2>4 DEF Close
    <2>5. CASE StoreRaw BY <2>5 DEF StoreRaw
    <2>6. CASE StoreRawFails BY <2>6 DEF StoreRawFails
    <2>7. CASE Retry BY <2>7 DEF Retry, Retries
    <2>8. CASE GiveUp BY <2>8 DEF GiveUp, Retries
    <2> QED BY <1>3, <2>1, <2>2, <2>3, <2>4, <2>5, <2>6, <2>7, <2>8
            DEF Leave
<1>4. CASE UNCHANGED vars BY <1>4 DEF vars
<1> QED BY <1>1, <1>2, <1>3, <1>4 DEF Next

(* Every step keeps the login out of the trace that is running and of those
   that are stored. *)
LEMMA StepTraceScope ==
    TypeOK /\ TraceScope /\ SecretsStayOut /\ [Next]_vars => (TraceScope /\ SecretsStayOut)'
<1> SUFFICES ASSUME TypeOK, TraceScope, SecretsStayOut, [Next]_vars
                    PROVE  (TraceScope /\ SecretsStayOut)'
    OBVIOUS
<1> USE DEF TypeOK, TraceScope, SecretsStayOut, NotTracing, Steps, Retryable,
        Permanent, NoError
<1>1. CASE Browse
    <2>1. CASE Launch BY <2>1 DEF Launch
    <2>2. CASE LaunchFails BY <2>2 DEF LaunchFails
    <2>3. CASE Login BY <2>3 DEF Login, Continue, Recorded
    <2>4. CASE LoginFails
        BY <2>4 DEF LoginFails, Fails, Converted, Captured, Recorded
    <2>5. CASE StartTrace BY <2>5 DEF StartTrace
    <2>6. CASE StartTraceFails BY <2>6 DEF StartTraceFails
    <2>7. CASE Navigate BY <2>7 DEF Navigate, Continue, Recorded
    <2>8. CASE NavigateFails
        BY <2>8 DEF NavigateFails, Fails, Converted, Captured, Recorded
    <2>9. CASE Download BY <2>9 DEF Download, Recorded
    <2>10. CASE DownloadFails
        BY <2>10 DEF DownloadFails, Fails, Converted, Captured, Recorded
    <2>11. CASE Validate BY <2>11 DEF Validate, Continue, Recorded, IsReport
    <2>12. CASE ValidateFails
        BY <2>12 DEF ValidateFails, Fails, Converted, Captured, Recorded, IsReport
    <2> QED BY <1>1, <2>1, <2>2, <2>3, <2>4, <2>5, <2>6, <2>7, <2>8, <2>9, <2>10, <2>11, <2>12
            DEF Browse
<1>2. CASE Filter
    <2>1. CASE NoFilters BY <2>1 DEF NoFilters, Continue, Recorded
    <2>2. CASE ApplyViaUrl BY <2>2 DEF ApplyViaUrl, Continue, Recorded
    <2>3. CASE ApplyViaWidgets BY <2>3 DEF ApplyViaWidgets, Continue, Recorded
    <2>4. CASE WidgetsUnavailable BY <2>4 DEF WidgetsUnavailable, Continue, Recorded
    <2>5. CASE ApplyFails
        BY <2>5 DEF ApplyFails, Fails, Converted, Captured, Recorded
    <2>6. CASE Results BY <2>6 DEF Results, Continue, Recorded
    <2>7. CASE NoResults BY <2>7 DEF NoResults, Continue, Recorded
    <2>8. CASE ResultsFail
        BY <2>8 DEF ResultsFail, Fails, Converted, Captured, Recorded
    <2>9. CASE Verify BY <2>9 DEF Verify, Continue, Recorded, Accepts
    <2>10. CASE VerifyAgainViaUrl BY <2>10 DEF VerifyAgainViaUrl, Continue, Recorded
    <2>11. CASE VerifyFails
        BY <2>11 DEF VerifyFails, Fails, Converted, Captured, Recorded, Accepts
    <2> QED BY <1>2, <2>1, <2>2, <2>3, <2>4, <2>5, <2>6, <2>7, <2>8, <2>9, <2>10, <2>11
            DEF Filter
<1>3. CASE Leave
    <2>1. CASE Capture BY <2>1 DEF Capture
    <2>2. CASE FinishTrace BY <2>2 DEF FinishTrace, Keeps
    <2>3. CASE StoreTraceFails BY <2>3 DEF StoreTraceFails, Keeps
    <2>4. CASE Close BY <2>4 DEF Close
    <2>5. CASE StoreRaw BY <2>5 DEF StoreRaw
    <2>6. CASE StoreRawFails BY <2>6 DEF StoreRawFails
    <2>7. CASE Retry BY <2>7 DEF Retry, Retries
    <2>8. CASE GiveUp BY <2>8 DEF GiveUp, Retries
    <2> QED BY <1>3, <2>1, <2>2, <2>3, <2>4, <2>5, <2>6, <2>7, <2>8
            DEF Leave
<1>4. CASE UNCHANGED vars BY <1>4 DEF vars
<1> QED BY <1>1, <1>2, <1>3, <1>4 DEF Next

(* Every step keeps the browser within its attempt. *)
LEMMA StepBrowserScope == TypeOK /\ BrowserScope /\ [Next]_vars => BrowserScope'
<1> SUFFICES ASSUME TypeOK, BrowserScope, [Next]_vars PROVE BrowserScope'
    OBVIOUS
<1> USE DEF TypeOK, BrowserScope, Steps
<1>1. CASE Browse
    <2>1. CASE Launch BY <2>1 DEF Launch
    <2>2. CASE LaunchFails BY <2>2 DEF LaunchFails
    <2>3. CASE Login BY <2>3 DEF Login, Continue, Recorded
    <2>4. CASE LoginFails
        BY <2>4 DEF LoginFails, Fails, Converted, Captured, Recorded
    <2>5. CASE StartTrace BY <2>5 DEF StartTrace
    <2>6. CASE StartTraceFails BY <2>6 DEF StartTraceFails
    <2>7. CASE Navigate BY <2>7 DEF Navigate, Continue, Recorded
    <2>8. CASE NavigateFails
        BY <2>8 DEF NavigateFails, Fails, Converted, Captured, Recorded
    <2>9. CASE Download BY <2>9 DEF Download, Recorded
    <2>10. CASE DownloadFails
        BY <2>10 DEF DownloadFails, Fails, Converted, Captured, Recorded
    <2>11. CASE Validate BY <2>11 DEF Validate, Continue, Recorded, IsReport
    <2>12. CASE ValidateFails
        BY <2>12 DEF ValidateFails, Fails, Converted, Captured, Recorded, IsReport
    <2> QED BY <1>1, <2>1, <2>2, <2>3, <2>4, <2>5, <2>6, <2>7, <2>8, <2>9, <2>10, <2>11, <2>12
            DEF Browse
<1>2. CASE Filter
    <2>1. CASE NoFilters BY <2>1 DEF NoFilters, Continue, Recorded
    <2>2. CASE ApplyViaUrl BY <2>2 DEF ApplyViaUrl, Continue, Recorded
    <2>3. CASE ApplyViaWidgets BY <2>3 DEF ApplyViaWidgets, Continue, Recorded
    <2>4. CASE WidgetsUnavailable BY <2>4 DEF WidgetsUnavailable, Continue, Recorded
    <2>5. CASE ApplyFails
        BY <2>5 DEF ApplyFails, Fails, Converted, Captured, Recorded
    <2>6. CASE Results BY <2>6 DEF Results, Continue, Recorded
    <2>7. CASE NoResults BY <2>7 DEF NoResults, Continue, Recorded
    <2>8. CASE ResultsFail
        BY <2>8 DEF ResultsFail, Fails, Converted, Captured, Recorded
    <2>9. CASE Verify BY <2>9 DEF Verify, Continue, Recorded, Accepts
    <2>10. CASE VerifyAgainViaUrl BY <2>10 DEF VerifyAgainViaUrl, Continue, Recorded
    <2>11. CASE VerifyFails
        BY <2>11 DEF VerifyFails, Fails, Converted, Captured, Recorded, Accepts
    <2> QED BY <1>2, <2>1, <2>2, <2>3, <2>4, <2>5, <2>6, <2>7, <2>8, <2>9, <2>10, <2>11
            DEF Filter
<1>3. CASE Leave
    <2>1. CASE Capture BY <2>1 DEF Capture
    <2>2. CASE FinishTrace BY <2>2 DEF FinishTrace, Keeps
    <2>3. CASE StoreTraceFails BY <2>3 DEF StoreTraceFails, Keeps
    <2>4. CASE Close BY <2>4 DEF Close
    <2>5. CASE StoreRaw BY <2>5 DEF StoreRaw
    <2>6. CASE StoreRawFails BY <2>6 DEF StoreRawFails
    <2>7. CASE Retry BY <2>7 DEF Retry, Retries
    <2>8. CASE GiveUp BY <2>8 DEF GiveUp, Retries
    <2> QED BY <1>3, <2>1, <2>2, <2>3, <2>4, <2>5, <2>6, <2>7, <2>8
            DEF Leave
<1>4. CASE UNCHANGED vars BY <1>4 DEF vars
<1> QED BY <1>1, <1>2, <1>3, <1>4 DEF Next

(* After a rejected login every step leads on to the end of the acquisition. *)
LEMMA StepRejected == TypeOK /\ Progress /\ Rejected /\ [Next]_vars => Rejected'
<1> SUFFICES ASSUME TypeOK, Progress, Rejected, [Next]_vars PROVE Rejected'
    OBVIOUS
<1> USE DEF TypeOK, Progress, Rejected, Steps, Retryable, Permanent, NoError
<1>1. CASE Browse
    <2>1. CASE Launch BY <2>1 DEF Launch
    <2>2. CASE LaunchFails BY <2>2 DEF LaunchFails
    <2>3. CASE Login BY <2>3 DEF Login, Continue, Recorded
    <2>4. CASE LoginFails
        BY <2>4 DEF LoginFails, Fails, Converted, Captured, Recorded
    <2>5. CASE StartTrace BY <2>5 DEF StartTrace
    <2>6. CASE StartTraceFails BY <2>6 DEF StartTraceFails
    <2>7. CASE Navigate BY <2>7 DEF Navigate, Continue, Recorded
    <2>8. CASE NavigateFails
        BY <2>8 DEF NavigateFails, Fails, Converted, Captured, Recorded
    <2>9. CASE Download BY <2>9 DEF Download, Recorded
    <2>10. CASE DownloadFails
        BY <2>10 DEF DownloadFails, Fails, Converted, Captured, Recorded
    <2>11. CASE Validate BY <2>11 DEF Validate, Continue, Recorded, IsReport
    <2>12. CASE ValidateFails
        BY <2>12 DEF ValidateFails, Fails, Converted, Captured, Recorded, IsReport
    <2> QED BY <1>1, <2>1, <2>2, <2>3, <2>4, <2>5, <2>6, <2>7, <2>8, <2>9, <2>10, <2>11, <2>12
            DEF Browse
<1>2. CASE Filter
    <2>1. CASE NoFilters BY <2>1 DEF NoFilters, Continue, Recorded
    <2>2. CASE ApplyViaUrl BY <2>2 DEF ApplyViaUrl, Continue, Recorded
    <2>3. CASE ApplyViaWidgets BY <2>3 DEF ApplyViaWidgets, Continue, Recorded
    <2>4. CASE WidgetsUnavailable BY <2>4 DEF WidgetsUnavailable, Continue, Recorded
    <2>5. CASE ApplyFails
        BY <2>5 DEF ApplyFails, Fails, Converted, Captured, Recorded
    <2>6. CASE Results BY <2>6 DEF Results, Continue, Recorded
    <2>7. CASE NoResults BY <2>7 DEF NoResults, Continue, Recorded
    <2>8. CASE ResultsFail
        BY <2>8 DEF ResultsFail, Fails, Converted, Captured, Recorded
    <2>9. CASE Verify BY <2>9 DEF Verify, Continue, Recorded, Accepts
    <2>10. CASE VerifyAgainViaUrl BY <2>10 DEF VerifyAgainViaUrl, Continue, Recorded
    <2>11. CASE VerifyFails
        BY <2>11 DEF VerifyFails, Fails, Converted, Captured, Recorded, Accepts
    <2> QED BY <1>2, <2>1, <2>2, <2>3, <2>4, <2>5, <2>6, <2>7, <2>8, <2>9, <2>10, <2>11
            DEF Filter
<1>3. CASE Leave
    <2>1. CASE Capture BY <2>1 DEF Capture
    <2>2. CASE FinishTrace BY <2>2 DEF FinishTrace, Keeps
    <2>3. CASE StoreTraceFails BY <2>3 DEF StoreTraceFails, Keeps
    <2>4. CASE Close BY <2>4 DEF Close
    <2>5. CASE StoreRaw BY <2>5 DEF StoreRaw
    <2>6. CASE StoreRawFails BY <2>6 DEF StoreRawFails
    <2>7. CASE Retry BY <2>7 DEF Retry, Retries
    <2>8. CASE GiveUp BY <2>8 DEF GiveUp, Retries
    <2> QED BY <1>3, <2>1, <2>2, <2>3, <2>4, <2>5, <2>6, <2>7, <2>8
            DEF Leave
<1>4. CASE UNCHANGED vars BY <1>4 DEF vars
<1> QED BY <1>1, <1>2, <1>3, <1>4 DEF Next

-----------------------------------------------------------------------------
(* The inductive invariant holds in every reachable state. *)
THEOREM AcquisitionInvariant == Spec => []IInv
<1>1. Init => IInv
    BY InitTypeOK DEF Init, IInv, Progress, ReportIsWhatWasAsked, Filtered, Leaving,
        TraceScope, SecretsStayOut, BrowserScope, Rejected, NotTracing, Steps, NoError
<1>2. IInv /\ [Next]_vars => IInv'
    BY StepTypeOK, StepProgress, StepTraceScope, StepBrowserScope, StepRejected DEF IInv
<1> QED BY <1>1, <1>2, PTL DEF Spec

(* Every variable has its type in every reachable state; in particular an    *)
(* acquisition that gives up reports the error of its last attempt.          *)
THEOREM AcquisitionTypeCorrect == Spec => []TypeOK
<1>1. IInv => TypeOK BY DEF IInv
<1> QED BY <1>1, AcquisitionInvariant, PTL

(* For any number of attempts and any mix of modes, acquire returns a report *)
(* only if its page showed the configured filters and its content was that   *)
(* of a report, both in the attempt that returned, and it alone stored a     *)
(* file ("silently downloading unfiltered data would be wrong",              *)
(* metabase.py:227).                                                         *)
THEOREM ReturnsWhatWasAsked == Spec => []ReportIsWhatWasAsked
<1>1. IInv => ReportIsWhatWasAsked BY DEF IInv
<1> QED BY <1>1, AcquisitionInvariant, PTL

(* However many attempts are allowed, the credentials are rejected once at   *)
(* most: no failure on the way out of the attempt makes it retryable         *)
(* (errors.py:74).                                                           *)
THEOREM AvoidsLockout == Spec => []NoLockout
<1>1. IInv => NoLockout BY DEF IInv, Rejected, NoLockout
<1> QED BY <1>1, AcquisitionInvariant, PTL

(* No trace that is stored has seen a login, in any mode and any attempt     *)
(* (browser.py:30).                                                          *)
THEOREM TracesKeepSecrets == Spec => []SecretsStayOut
<1>1. IInv => SecretsStayOut BY DEF IInv
<1> QED BY <1>1, AcquisitionInvariant, PTL

(* Between attempts, and after the last, no browser is open and no trace is  *)
(* running (browser.py:55).                                                  *)
THEOREM ClosesEverything == Spec => []NothingIsLeftOpen
<1>1. IInv => NothingIsLeftOpen
    BY DEF IInv, TraceScope, BrowserScope, NothingIsLeftOpen
<1> QED BY <1>1, AcquisitionInvariant, PTL

=============================================================================
