---------------------------- MODULE Acquisition ----------------------------
(***************************************************************************)
(* Acquiring a report: AcquisitionService.acquire (acquisition/service.py) *)
(* with its browser session (acquisition/browser.py), the filter step of   *)
(* the Metabase adapter (acquisition/adapters/metabase.py), the download   *)
(* checks (acquisition/validation.py) and the retry loop (utils/retry.py). *)
(*                                                                         *)
(* An attempt runs the steps login, navigate, filters, download, validate  *)
(* in a fresh browser.  A step that fails leaves evidence, the trace is    *)
(* finished, the browser closed, and the error decides about another       *)
(* attempt.  The pages of the dashboard are the environment.               *)
(***************************************************************************)
EXTENDS Naturals, FiniteSets

CONSTANTS
    MaxAttempts,   \* RetryPolicy.max_attempts
    Filters,       \* values of source.filter_mode that are considered
    TraceModes     \* values of browser.trace that are considered

ASSUME AcquisitionAssumption ==
    /\ MaxAttempts \in Nat \ {0}
    /\ Filters \subseteq {"none", "url", "widget", "auto"}
    /\ TraceModes \subseteq {"off", "on_failure", "always"}

(* Errors: the ones that may heal, and the ones that will not.  "bad_file" *)
(* is a DownloadError with retryable=False, "playwright" a raw Playwright  *)
(* error, "unexpected" any other exception, "interrupt" a BaseException.   *)
Retryable == {"browser", "navigation", "download", "playwright"}
Permanent == {"authentication", "not_found", "configuration", "bad_file",
              "storage", "unexpected", "interrupt"}
NoError   == "none"

Pieces == {"html", "screenshot"}   \* what _capture_failure stores

(* The state of the configured filters on the page: the URL lacks one of   *)
(* them, shows another value, or shows what the configuration asks for.    *)
PageStates == {"missing", "wrong", "wanted"}

VARIABLES
    config,      \* the report's filter mode, trace mode and screenshot_on_failure
    attempt,     \* number of the attempt
    pc,          \* where the attempt is
    error,       \* the exception on its way out
    via,         \* filters: how the ones on the page were set
    page,        \* filters: what the page shows
    file,        \* what was downloaded in this attempt
    browser,     \* a browser is open
    trace,       \* what the trace being recorded covers, or NotTracing
    evidence,    \* pieces this attempt stored and named in its error
    traces,      \* what the stored traces cover
    raw,         \* attempts whose file is in raw storage
    rejections,  \* times the dashboard rejected the credentials
    outcome      \* how acquire ended

vars == <<config, attempt, pc, error, via, page, file, browser, trace,
          evidence, traces, raw, rejections, outcome>>

NotTracing == {"not tracing"}
Steps      == {"login", "navigate", "filters", "fallback", "results", "verify",
               "download", "validate"}
Outcomes   == {"pending", "report"} \cup Retryable \cup Permanent

TypeOK ==
    /\ config \in [filters : Filters, trace : TraceModes, screenshots : BOOLEAN]
    /\ attempt \in 1..MaxAttempts
    /\ pc \in Steps \cup {"launch", "trace", "capture", "finish", "close", "store",
                          "decide", "over"}
    /\ error \in {NoError} \cup Retryable \cup Permanent
    /\ via \in {"nothing", "trial", "widget", "url"}
    /\ page \in PageStates
    /\ file \in {"none", "good", "html", "bad"}
    /\ browser \in BOOLEAN
    /\ trace = NotTracing \/ trace \subseteq Steps
    /\ evidence \in SUBSET Pieces
    /\ traces \in SUBSET SUBSET Steps
    /\ raw \subseteq 1..MaxAttempts
    /\ rejections \in Nat
    /\ outcome \in Outcomes

Init ==
    /\ config \in [filters : Filters, trace : TraceModes, screenshots : BOOLEAN]
    /\ attempt = 1
    /\ pc = "launch"
    /\ error = NoError
    /\ via = "nothing" /\ page = "missing" /\ file = "none"
    /\ browser = FALSE /\ trace = NotTracing
    /\ evidence = {} /\ traces = {}
    /\ raw = {} /\ rejections = 0
    /\ outcome = "pending"

-----------------------------------------------------------------------------
(***************************************************************************)
(* The browser.                                                            *)
(***************************************************************************)
Launch ==
    /\ pc = "launch"
    /\ browser' = TRUE
    /\ pc' = "login"
    /\ UNCHANGED <<config, attempt, error, via, page, file, trace, evidence,
                   traces, raw, rejections, outcome>>

(* The browser does not start, or it starts and opens no page, or prepare  *)
(* fails on it; the finally of browser_session closes it in these cases.   *)
LaunchFails ==
    /\ pc = "launch"
    /\ \E e \in {"browser", "playwright", "unexpected", "interrupt"} :
          /\ error' = e
          /\ browser' \in IF e = "browser" THEN {FALSE} ELSE BOOLEAN
    /\ pc' = "close"
    /\ UNCHANGED <<config, attempt, via, page, file, trace, evidence,
                   traces, raw, rejections, outcome>>

(* What a running trace records. *)
Recorded(step) == IF trace = NotTracing THEN NotTracing ELSE trace \cup {step}

(* The errors _step captures: those of the application and of Playwright.  *)
Captured(e) == e \notin {"unexpected", "interrupt"}

(* A Playwright error of a step becomes a NavigationError. *)
Converted(e) == IF e = "playwright" THEN "navigation" ELSE e

(* The step that is running fails with e. *)
Fails(e) ==
    /\ error' = Converted(e)
    /\ pc' = IF Captured(e) /\ config.screenshots THEN "capture" ELSE "finish"
    /\ trace' = Recorded(pc)
    /\ UNCHANGED <<config, attempt, via, page, file, browser, evidence,
                   traces, raw, outcome>>

(* It succeeds and leaves only the page in another state. *)
Continue(next) ==
    /\ pc' = next
    /\ trace' = Recorded(pc)
    /\ UNCHANGED <<config, attempt, error, file, browser, evidence,
                   traces, raw, rejections, outcome>>

-----------------------------------------------------------------------------
(***************************************************************************)
(* The steps.                                                              *)
(***************************************************************************)
Login ==
    /\ pc = "login"
    /\ Continue("trace")
    /\ UNCHANGED <<via, page>>

LoginFails ==
    /\ pc = "login"
    /\ \E e \in {"authentication", "navigation", "playwright", "unexpected", "interrupt"} :
          /\ Fails(e)
          /\ rejections' = rejections + (IF e = "authentication" THEN 1 ELSE 0)

(* Mutant: the trace is started with the browser. *)
StartTraceEarly ==
    /\ pc = "trace"
    /\ trace' = IF config.trace = "off" THEN NotTracing ELSE {"login"}
    /\ pc' = "navigate"
    /\ UNCHANGED <<config, attempt, error, via, page, file, browser, evidence,
                   traces, raw, rejections, outcome>>

StartTrace ==
    /\ pc = "trace"
    /\ trace' = IF config.trace = "off" THEN NotTracing ELSE {}
    /\ pc' = "navigate"
    /\ UNCHANGED <<config, attempt, error, via, page, file, browser, evidence,
                   traces, raw, rejections, outcome>>

(* tracing.start is outside any step: its error is not captured. *)
StartTraceFails ==
    /\ pc = "trace"
    /\ config.trace # "off"
    /\ error' \in {"playwright", "interrupt"}
    /\ pc' = "finish"
    /\ UNCHANGED <<config, attempt, via, page, file, browser, trace, evidence,
                   traces, raw, rejections, outcome>>

(* open_report; the dashboard may remember values of an earlier visit.     *)
Navigate ==
    /\ pc = "navigate"
    /\ Continue("filters")
    /\ page' \in PageStates
    /\ UNCHANGED via

NavigateFails ==
    /\ pc = "navigate"
    /\ \E e \in {"not_found", "navigation", "playwright", "unexpected", "interrupt"} : Fails(e)
    /\ UNCHANGED rejections

(* apply_filters: nothing to apply. *)
NoFilters ==
    /\ pc = "filters" /\ config.filters = "none"
    /\ Continue("results")
    /\ UNCHANGED <<via, page>>

(* The dashboard shows what was asked for, drops a parameter it does not   *)
(* know, or shows something else.                                          *)
ApplyViaUrl ==
    /\ pc = "fallback" \/ (pc = "filters" /\ config.filters = "url")
    /\ Continue("results")
    /\ via' = "url"
    /\ page' \in PageStates

ApplyViaWidgets ==
    /\ pc = "filters" /\ config.filters \in {"widget", "auto"}
    /\ Continue("results")
    /\ via' = IF config.filters = "auto" THEN "trial" ELSE "widget"
    /\ page' \in PageStates

(* A widget cannot be operated, half-way through the filters perhaps. *)
WidgetsUnavailable ==
    /\ pc = "filters" /\ config.filters = "auto"
    /\ Continue("fallback")
    /\ page' \in PageStates
    /\ UNCHANGED via

(* A value that a widget does not offer, or a widget that is not there in  *)
(* filter_mode widget, is a ConfigurationError in every mode.              *)
ApplyFails ==
    /\ pc \in {"filters", "fallback"}
    /\ config.filters # "none"
    /\ \E e \in {"configuration", "playwright", "unexpected", "interrupt"} :
          /\ e = "configuration" => pc = "filters" /\ config.filters # "url"
          /\ e = "playwright" => ~(pc = "filters" /\ config.filters = "auto")
          /\ Fails(e)
    /\ UNCHANGED rejections

(* _wait_for_results *)
Results ==
    /\ pc = "results"
    /\ Continue(IF config.filters = "none" THEN "download" ELSE "verify")
    /\ UNCHANGED <<via, page>>

NoResults ==
    /\ pc = "results" /\ via = "trial"
    /\ Continue("fallback")
    /\ UNCHANGED <<via, page>>

ResultsFail ==
    /\ pc = "results"
    /\ \E e \in {"navigation", "interrupt"} :
          /\ e = "navigation" => via # "trial"
          /\ Fails(e)
    /\ UNCHANGED rejections

(* Mutant: filters set by URL need no check. *)
AcceptsUrl == page = "wanted" \/ via = "url"

(* _verify_filters *)
Accepts == page = "wanted"

(* A trial that is accepted goes through the common checks once more. *)
Verify ==
    /\ pc = "verify"
    /\ Accepts
    /\ Continue(IF via = "trial" THEN "results" ELSE "download")
    /\ via' = IF via = "trial" THEN "widget" ELSE via
    /\ UNCHANGED page

(* Mutant: a mismatch is followed by the URL every time. *)
VerifyAgainAlways ==
    /\ pc = "verify"
    /\ page = "wrong"
    /\ Continue("fallback")
    /\ UNCHANGED <<via, page>>

VerifyAgainViaUrl ==
    /\ pc = "verify"
    /\ page = "wrong" /\ via = "trial"
    /\ Continue("fallback")
    /\ UNCHANGED <<via, page>>

VerifyFails ==
    /\ pc = "verify"
    /\ ~Accepts
    /\ page = "wrong" => via # "trial"
    /\ Fails(IF page = "missing" THEN "configuration" ELSE "navigation")
    /\ UNCHANGED rejections

(* The file may be an error page, or not what it claims to be. *)
Download ==
    /\ pc = "download"
    /\ file' \in {"good", "html", "bad"}
    /\ pc' = "validate"
    /\ trace' = Recorded(pc)
    /\ UNCHANGED <<config, attempt, error, via, page, browser, evidence,
                   traces, raw, rejections, outcome>>

DownloadFails ==
    /\ pc = "download"
    /\ \E e \in {"download", "playwright", "unexpected", "interrupt"} : Fails(e)
    /\ UNCHANGED rejections

(* validate_download *)
IsReport(f) == f = "good"

Validate ==
    /\ pc = "validate"
    /\ IsReport(file)
    /\ Continue("finish")
    /\ UNCHANGED <<via, page>>

ValidateFails ==
    /\ pc = "validate"
    /\ ~IsReport(file)
    /\ Fails(IF file = "html" THEN "download" ELSE "bad_file")
    /\ UNCHANGED rejections

-----------------------------------------------------------------------------
(***************************************************************************)
(* The way out of an attempt.                                              *)
(***************************************************************************)
(* _capture_failure: each piece is stored or not, independently. *)
Capture ==
    /\ pc = "capture"
    /\ evidence' \in SUBSET Pieces
    /\ pc' = "finish"
    /\ UNCHANGED <<config, attempt, error, via, page, file, browser, trace,
                   traces, raw, rejections, outcome>>

(* _finish_trace keeps the trace if the mode says so. *)
Keeps == config.trace = "always" \/ (config.trace = "on_failure" /\ error # NoError)

(* The trace is stored, or discarded, or could not be written (a warning). *)
FinishTrace ==
    /\ pc = "finish"
    /\ \/ UNCHANGED traces
       \/ trace # NotTracing /\ Keeps /\ traces' = traces \cup {trace}
    /\ trace' = NotTracing
    /\ pc' = "close"
    /\ UNCHANGED <<config, attempt, error, via, page, file, browser, evidence,
                   raw, rejections, outcome>>

(* put_file raises in the finally block: its StorageError replaces whatever *)
(* was on its way out.                                                     *)
StoreTraceFails ==
    /\ pc = "finish"
    /\ trace # NotTracing /\ Keeps
    /\ error' = "storage"
    /\ trace' = NotTracing
    /\ pc' = "close"
    /\ UNCHANGED <<config, attempt, via, page, file, browser, evidence,
                   traces, raw, rejections, outcome>>

(* Mutant: the browser of a failed attempt stays open. *)
CloseOnSuccess ==
    /\ pc = "close"
    /\ browser' = (browser /\ error # NoError)
    /\ pc' = IF error = NoError THEN "store" ELSE "decide"
    /\ UNCHANGED <<config, attempt, error, via, page, file, trace, evidence,
                   traces, raw, rejections, outcome>>

(* The exit stack closes the browser. *)
Close ==
    /\ pc = "close"
    /\ browser' = FALSE
    /\ pc' = IF error = NoError THEN "store" ELSE "decide"
    /\ UNCHANGED <<config, attempt, error, via, page, file, trace, evidence,
                   traces, raw, rejections, outcome>>

StoreRaw ==
    /\ pc = "store"
    /\ raw' = raw \cup {attempt}
    /\ outcome' = "report"
    /\ pc' = "over"
    /\ UNCHANGED <<config, attempt, error, via, page, file, browser, trace, evidence, traces, rejections>>

StoreRawFails ==
    /\ pc = "store"
    /\ error' \in {"storage", "interrupt"}
    /\ pc' = "decide"
    /\ UNCHANGED <<config, attempt, via, page, file, browser, trace, evidence,
                   traces, raw, rejections, outcome>>

(* Mutant: every error but an interrupt is tried again. *)
RetriesAll == error # "interrupt" /\ attempt < MaxAttempts

(* call_with_retry *)
Retries == error \in Retryable /\ attempt < MaxAttempts

(* After a delay, a new attempt with a new browser and directory. *)
Retry ==
    /\ pc = "decide"
    /\ Retries
    /\ attempt' = attempt + 1
    /\ pc' = "launch"
    /\ error' = NoError
    /\ via' = "nothing" /\ page' = "missing" /\ file' = "none"
    /\ evidence' = {}
    /\ UNCHANGED <<config, browser, trace, traces, raw, rejections, outcome>>

GiveUp ==
    /\ pc = "decide"
    /\ ~Retries
    /\ outcome' = error
    /\ pc' = "over"
    /\ UNCHANGED <<config, attempt, error, via, page, file, browser, trace, evidence, traces, raw, rejections>>

Browse ==
    \/ Launch \/ LaunchFails \/ Login \/ LoginFails \/ StartTrace \/ StartTraceFails
    \/ Navigate \/ NavigateFails \/ Download \/ DownloadFails \/ Validate \/ ValidateFails

Filter ==
    \/ NoFilters \/ ApplyViaUrl \/ ApplyViaWidgets \/ WidgetsUnavailable \/ ApplyFails
    \/ Results \/ NoResults \/ ResultsFail
    \/ Verify \/ VerifyAgainViaUrl \/ VerifyFails

Leave ==
    \/ Capture \/ FinishTrace \/ StoreTraceFails \/ Close
    \/ StoreRaw \/ StoreRawFails \/ Retry \/ GiveUp

Next == Browse \/ Filter \/ Leave

Spec == Init /\ [][Next]_vars

(* The thread of the run goes on: every wait of the browser has a timeout. *)
FairSpec == Spec /\ WF_vars(Next)

-----------------------------------------------------------------------------
(***************************************************************************)
(* Properties.                                                             *)
(***************************************************************************)
(* "Silently downloading unfiltered data would be wrong" (metabase.py:227): *)
(* what acquire returns was downloaded in the attempt that returned, from  *)
(* a page that showed the configured filters, is a report by its content,  *)
(* and no file of another attempt is in raw storage.                       *)
ReportIsWhatWasAsked ==
    /\ outcome = "report" => /\ raw = {attempt}
                             /\ file = "good"
                             /\ config.filters # "none" => page = "wanted"
    /\ outcome # "report" => raw = {}

(* "Retrying would only risk a lockout" (errors.py:74): one acquisition    *)
(* never gets its credentials rejected twice, whatever else fails on the   *)
(* way out of the attempt.                                                 *)
NoLockout == rejections <= 1

(* "Traces record every typed value in plain text" (browser.py:30): no     *)
(* stored trace covers a login, of this attempt or an earlier one.         *)
SecretsStayOut == \A t \in traces : "login" \notin t

(* Each attempt starts with no browser and no trace left by the one        *)
(* before, and none outlives the acquisition (browser.py:55).              *)
NothingIsLeftOpen ==
    pc \in {"launch", "store", "decide", "over"} => ~browser /\ trace = NotTracing

(* Every acquisition ends, with a report or an error (retry.py).           *)
AcquisitionEnds == <>(pc = "over")

=============================================================================
