--------------------------- MODULE FuriThreadFlags ---------------------------
(***************************************************************************)
(* The thread flags of furi/core/thread.c: a set of flags per thread, kept *)
(* in the value of a FreeRTOS task notification.  Any thread sets them,    *)
(* the thread itself waits for them, reads them and clears them.           *)
(*                                                                         *)
(* A notification has a value and, apart from it, a state that says        *)
(* whether anything was notified since the last wait.  xTaskNotifyWait     *)
(* looks at the state only: it returns if and only if a notification is    *)
(* pending, whatever the value.  Every FreeRTOS call is one step; set and  *)
(* clear make two of them.                                                 *)
(***************************************************************************)
EXTENDS Integers

CONSTANTS
    Flag,           \* the flags in use, out of 31
    FuriFlagError,  \* bit 31, which marks an error in what is returned
    Setter,         \* threads and interrupts that set them
    Option,         \* the arguments the thread passes to furi_thread_flags_wait
    UsesClear       \* bound: whether it calls furi_thread_flags_clear

Timeout == {"zero", "finite", "forever"}

\* flags, FuriFlagWaitAll, FuriFlagNoClear and timeout.
WaitOption == [mask : SUBSET Flag, all : BOOLEAN, noclear : BOOLEAN,
               timeout : Timeout]

ASSUME ErrorFresh == FuriFlagError \notin Flag
ASSUME OptionType == Option \subseteq WaitOption /\ UsesClear \in BOOLEAN

VARIABLES
    value,          \* the notification value
    pending,        \* the notification state is taskNOTIFICATION_RECEIVED
    pc,             \* where the thread is
    option,         \* the arguments of its furi_thread_flags_wait
    rflags,         \* local of furi_thread_flags_wait
    tout,           \* local of furi_thread_flags_wait
    clearing,       \* the argument of its furi_thread_flags_clear
    cflags,         \* local of furi_thread_flags_clear
    setting,        \* what each setter has set, until it has read the value back
    owed            \* history: flags set, and since neither received nor cleared

wait == <<option, rflags, tout>>
clear == <<clearing, cflags>>
flags_vars == <<value, pending, pc, wait, clear, setting, owed>>

FlagsTypeOK ==
    /\ value \subseteq Flag
    /\ pending \in BOOLEAN
    /\ pc \in {"run", "wait", "clear"}
    /\ option \in Option
    /\ rflags \subseteq Flag
    /\ tout \in Timeout
    /\ clearing \subseteq Flag
    /\ cflags \subseteq Flag
    /\ setting \in [Setter -> SUBSET Flag]
    /\ owed \subseteq Flag

FlagsInit ==
    /\ value = {}
    /\ pending = FALSE
    /\ pc = "run"
    /\ option \in Option
    /\ rflags = {}
    /\ tout = "zero"
    /\ clearing = {}
    /\ cflags = {}
    /\ setting = [s \in Setter |-> {}]
    /\ owed = {}

-----------------------------------------------------------------------------
\* furi_thread_flags_set

AnyFlag == Flag \cup {FuriFlagError}

\* The test against THREAD_FLAGS_INVALID_BITS.
Valid(f) == FuriFlagError \notin f

\* eSetBits
NotifiedValue(f) == value \cup f

\* xTaskNotifyIndexed, unless the flags are refused with FuriStatusErrorParameter.
SetNotify(s, f) ==
    /\ Valid(f)
    /\ setting[s] = {}
    /\ setting' = [setting EXCEPT ![s] = f]
    /\ value' = NotifiedValue(f)
    /\ pending' = TRUE
    /\ owed' = owed \cup f
    /\ UNCHANGED <<pc, wait, clear>>

\* xTaskNotifyAndQueryIndexed with eNoAction, which is a notification too; what it reads is returned.
SetQuery(s) ==
    /\ setting[s] # {}
    /\ setting' = [setting EXCEPT ![s] = {}]
    /\ pending' = TRUE
    /\ UNCHANGED <<value, pc, wait, clear, owed>>

-----------------------------------------------------------------------------
\* The thread.

\* furi_thread_flags_get
Get ==
    /\ pc = "run"
    /\ pending' = TRUE
    /\ UNCHANGED <<value, pc, wait, clear, setting, owed>>

\* furi_thread_flags_clear reads the value
ClearQuery(f) ==
    /\ pc = "run"
    /\ UsesClear
    /\ Valid(f)
    /\ pc' = "clear"
    /\ clearing' = f
    /\ cflags' = value
    /\ pending' = TRUE
    /\ UNCHANGED <<value, wait, setting, owed>>

\* and overwrites it with what it has read less the flags to clear.
ClearWrite ==
    /\ pc = "clear"
    /\ pc' = "run"
    /\ value' = cflags \ clearing
    /\ pending' = TRUE
    /\ owed' = owed \ clearing
    /\ clearing' = {}
    /\ cflags' = {}
    /\ UNCHANGED <<wait, setting>>

\* furi_thread_flags_wait, up to the loop.
Wait(opt) ==
    /\ pc = "run"
    /\ pc' = "wait"
    /\ option' = opt
    /\ rflags' = {}
    /\ tout' = opt.timeout
    /\ UNCHANGED <<value, pending, clear, setting, owed>>

\* Mutation of Taken: FuriFlagNoClear for everybody.
TakenNothing == {}

\* Mutation of Taken: everything is cleared, not only what was waited for.
TakenAll == value

\* The bits xTaskNotifyWaitIndexed clears when it returns.
Taken == IF option.noclear THEN {} ELSE option.mask

\* Mutation of Satisfied: FuriFlagWaitAll for everybody.
SatisfiedAll(r) == option.mask \subseteq r

Satisfied(r) ==
    IF option.all THEN option.mask \subseteq r ELSE option.mask \cap r # {}

\* rflags &= flags; rflags |= nval
Received == (rflags \cap option.mask) \cup value

\* xTaskNotifyWaitIndexed returns pdPASS and the flags suffice.
WaitReceive ==
    /\ pc = "wait"
    /\ pending
    /\ Satisfied(Received)
    /\ pc' = "run"
    /\ pending' = FALSE
    /\ rflags' = Received
    /\ tout' = "zero"
    /\ value' = value \ Taken
    /\ owed' = IF option.noclear THEN owed ELSE owed \ (Received \cap option.mask)
    /\ UNCHANGED <<option, clear, setting>>

\* It returns pdPASS and they do not: another round, or an error without a
\* timeout.  If a tick has passed, it is subtracted from the timeout, also from
\* FuriWaitForever, which then is one.
WaitMore ==
    /\ pc = "wait"
    /\ pending
    /\ ~Satisfied(Received)
    /\ pending' = FALSE
    /\ value' = value \ Taken
    /\ IF option.timeout = "zero"
       THEN pc' = "run" /\ rflags' = {} /\ tout' = "zero"
       ELSE rflags' = Received /\ tout' \in {tout, "finite"} /\ UNCHANGED pc
    /\ UNCHANGED <<option, clear, setting, owed>>

\* It returns pdFAIL: FuriStatusErrorTimeout or FuriStatusErrorResource.
WaitFail ==
    /\ pc = "wait"
    /\ ~pending
    /\ tout # "forever"
    /\ pc' = "run"
    /\ rflags' = {}
    /\ tout' = "zero"
    /\ UNCHANGED <<value, pending, option, clear, setting, owed>>

-----------------------------------------------------------------------------

FlagsNext ==
    \/ \E s \in Setter, f \in SUBSET AnyFlag \ {{}} : SetNotify(s, f)
    \/ \E s \in Setter : SetQuery(s)
    \/ Get
    \/ \E f \in SUBSET AnyFlag \ {{}} : ClearQuery(f)
    \/ ClearWrite
    \/ \E opt \in Option : Wait(opt)
    \/ WaitReceive \/ WaitMore \/ WaitFail

FlagsSpec == FlagsInit /\ [][FlagsNext]_flags_vars

\* Threads that can run do.  Nobody is obliged to set, to clear or to wait, and
\* no timeout needs to be reached.
FlagsFairness ==
    /\ WF_flags_vars(WaitReceive \/ WaitMore)
    /\ \A s \in Setter : WF_flags_vars(SetQuery(s))

FlagsFairSpec == FlagsSpec /\ FlagsFairness

-----------------------------------------------------------------------------

\* A successful wait reports no flag that it waited for unless somebody set it
\* after it was last received or cleared: nothing is received twice, although a
\* wait collects flags over several rounds and sets go on in between.
ReceivedOnce ==
    [][WaitReceive => rflags' \cap option.mask \subseteq owed]_flags_vars

\* Flags that were set, were neither reported nor cleared, and are neither in the
\* value nor in what the wait has collected.
Missing == owed \ (value \cup IF pc = "wait" THEN rflags \cap option.mask ELSE {})

\* The wait ends with an error.
GivesUp == pc = "wait" /\ pc' = "run" /\ rflags' = {}

\* No set is lost by a later set, nor by a wait that goes on or succeeds,
\* whatever flags it waits for and in whatever rounds they come: flags go missing
\* only in furi_thread_flags_clear and in a wait that gives up.
FlagsKept == [][Missing' \subseteq Missing \/ ClearWrite \/ GivesUp]_flags_vars

\* A wait whose flags are set, the last of them by a set that has not returned,
\* returns: no wakeup is lost between the notifications of a set and the rounds of
\* a wait.
WaitReturnsOnSet ==
    \A s \in Setter :
        (/\ pc = "wait" /\ setting[s] # {}
         /\ IF option.all THEN option.mask \subseteq value
                          ELSE option.mask \cap value # {})
            ~> pc = "run"

\* thread.h, furi_thread_flags_wait: "Wait for some thread flags to be set."
\* A wait whose flags are set returns.
WaitReturns ==
    (pc = "wait" /\ IF option.all THEN option.mask \subseteq value
                                  ELSE option.mask \cap value # {})
        ~> pc = "run"

=============================================================================
