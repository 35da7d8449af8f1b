--------------------------- MODULE ExpiryReminders ---------------------------
(***************************************************************************)
(* Reminders before a paid subscription ends. Every half hour the worker    *)
(* looks for subscriptions that end about one lead time from now, claims the*)
(* reminder's bit on condition that the date is still the one it read,      *)
(* sends, and gives the bit back if that ended in an error, which need not  *)
(* mean that Telegram has not accepted the message. A payment moves the date*)
(* and clears the bits at any point in between.                             *)
(* (internal/service/subscription_reminders.go,                             *)
(* internal/database/subscription_reminders.go,                             *)
(* internal/scheduler/subscription_reminder_worker.go)                      *)
(*                                                                          *)
(* A moment is a quarter of an hour.                                        *)
(***************************************************************************)
EXTENDS Naturals, Sequences

CONSTANTS Leads,     \* expiryReminderWindows: the lead times, in their order
          HalfTick,  \* ReminderWindowBounds: half of a window
          Interval,  \* between two passes of the worker
          Expiries,  \* the dates the subscription may end at, each longer than the last
          MaxTime,
          MaxFaults  \* failed statements, failed sends and restarts in a behaviour

Windows == DOMAIN Leads
Dates == DOMAIN Expiries

VARIABLES now,
          date,      \* expires_at, as an index of Expiries
          since,     \* when the subscription was given that date
          sent,      \* reminders_sent
          told,      \* the reminders Telegram accepted, as <<date, window>>
          confirmed, \* those whose sending reported success
          repeated,  \* one of these was sent again
          window,    \* the window the pass is at; 0 between passes
          step, copy,   \* the step in it, and the date of the row it loaded
          next,      \* when the next pass is due
          faults,
          failed, spoilt  \* reminders a call failed for, and those that may be lost by it

pass == <<window, step, copy, next>>
vars == <<now, date, since, sent, told, confirmed, repeated, pass, faults, failed, spoilt>>

Steps == {"query", "claim", "send", "release"}

(* The clock, the row and the pass have their types.                         *)
TypeOK ==
  /\ now \in 0 .. MaxTime /\ since \in 0 .. MaxTime /\ next \in 0 .. MaxTime + Interval
  /\ date \in Dates /\ copy \in Dates
  /\ sent \subseteq Windows
  /\ {told, confirmed, failed, spoilt} \subseteq SUBSET (Dates \X Windows)
  /\ repeated \in BOOLEAN
  /\ window \in 0 .. Len(Leads) /\ step \in Steps
  /\ faults \in 0 .. MaxFaults

(* The first pass comes with the process, at any moment of the date.         *)
Init ==
  /\ now = 0 /\ since = 0
  /\ date = 1 /\ copy = 1
  /\ sent = {} /\ told = {} /\ confirmed = {} /\ repeated = FALSE
  /\ window = 0 /\ step = "query" /\ next \in 0 .. Interval - 1
  /\ faults = 0 /\ failed = {} /\ spoilt = {}

(* A call of the copy's reminder fails. A second failure, and one that leaves *)
(* the bit claimed, may cost the reminder.                                    *)
Fault(d, bitStays) ==
  /\ faults < MaxFaults
  /\ faults' = faults + 1
  /\ failed' = failed \cup {<<d, window>>}
  /\ spoilt' = IF bitStays \/ <<d, window>> \in failed THEN spoilt \cup {<<d, window>>} ELSE spoilt

Calm == UNCHANGED <<faults, failed, spoilt>>

NextWindow ==
  /\ window' = (IF window = Len(Leads) THEN 0 ELSE window + 1)
  /\ step' = "query"

StartPass ==
  /\ window = 0 /\ now = next
  /\ window' = 1 /\ step' = "query"
  /\ next' = now + Interval
  /\ UNCHANGED <<now, date, since, sent, told, confirmed, repeated, copy, faults, failed, spoilt>>

InWindow(w) ==
  /\ Expiries[date] + HalfTick >= now + Leads[w]
  /\ Expiries[date] <= now + Leads[w] + HalfTick

Query ==
  /\ window # 0 /\ step = "query"
  /\ \/ InWindow(window) /\ copy' = date /\ step' = "claim" /\ UNCHANGED window /\ Calm
     \/ ~InWindow(window) /\ NextWindow /\ UNCHANGED copy /\ Calm
     \/ Fault(date, FALSE) /\ NextWindow /\ UNCHANGED copy
  /\ UNCHANGED <<now, date, since, sent, told, confirmed, repeated, next>>

(* Mutant: the date is not compared. *)
ClaimAnyDate ==
  /\ window # 0 /\ step = "claim"
  /\ \/ /\ window \notin sent
        /\ sent' = sent \cup {window}
        /\ step' = "send" /\ UNCHANGED window /\ Calm
     \/ /\ window \in sent
        /\ NextWindow /\ UNCHANGED sent /\ Calm
     \/ Fault(copy, FALSE) /\ NextWindow /\ UNCHANGED sent
  /\ UNCHANGED <<now, date, since, told, confirmed, repeated, copy, next>>

Claim ==
  /\ window # 0 /\ step = "claim"
  /\ \/ /\ date = copy /\ window \notin sent
        /\ sent' = sent \cup {window}
        /\ step' = "send" /\ UNCHANGED window /\ Calm
     \/ /\ date # copy \/ window \in sent
        /\ NextWindow /\ UNCHANGED sent /\ Calm
     \/ Fault(copy, FALSE) /\ NextWindow /\ UNCHANGED sent
  /\ UNCHANGED <<now, date, since, told, confirmed, repeated, copy, next>>

(* An error, a timeout say, leaves open whether Telegram has the message.    *)
Send ==
  /\ window # 0 /\ step = "send"
  /\ repeated' = (repeated \/ <<copy, window>> \in confirmed)
  /\ \/ /\ told' = told \cup {<<copy, window>>}
        /\ confirmed' = confirmed \cup {<<copy, window>>}
        /\ NextWindow /\ Calm
     \/ /\ Fault(copy, FALSE)
        /\ told' \in {told, told \cup {<<copy, window>>}}
        /\ step' = "release" /\ UNCHANGED <<confirmed, window>>
  /\ UNCHANGED <<now, date, since, sent, copy, next>>

Release ==
  /\ window # 0 /\ step = "release"
  /\ NextWindow
  /\ \/ sent' = (IF date = copy THEN sent \ {window} ELSE sent) /\ Calm
     \/ Fault(copy, TRUE) /\ UNCHANGED sent
  /\ UNCHANGED <<now, date, since, told, confirmed, repeated, copy, next>>

(* The process restarts and begins a pass at once. The message it was        *)
(* sending may have arrived.                                                 *)
Restart ==
  /\ IF window = 0
     THEN faults < MaxFaults /\ faults' = faults + 1 /\ UNCHANGED <<failed, spoilt>>
     ELSE Fault(copy, step \in {"send", "release"})
  /\ window' = 0 /\ step' = "query"
  /\ next' = now
  /\ \/ UNCHANGED <<told, repeated>>
     \/ /\ window # 0 /\ step = "send"
        /\ told' = told \cup {<<copy, window>>}
        /\ repeated' = (repeated \/ <<copy, window>> \in confirmed)
  /\ UNCHANGED <<now, date, since, sent, confirmed, copy>>

(* ConfirmOrderPaid: the date moves and the bits are cleared together.       *)
Renew ==
  /\ date + 1 \in Dates
  /\ date' = date + 1 /\ since' = now
  /\ sent' = {}
  /\ UNCHANGED <<now, told, confirmed, repeated, pass, faults, failed, spoilt>>

(* Passes are far shorter than a moment, and start in time.                  *)
Tick ==
  /\ now < MaxTime
  /\ window = 0 /\ next > now
  /\ now' = now + 1
  /\ UNCHANGED <<date, since, sent, told, confirmed, repeated, pass, faults, failed, spoilt>>

Next ==
  StartPass \/ Query \/ Claim \/ Send \/ Release \/ Restart \/ Renew \/ Tick

Spec == Init /\ [][Next]_vars

-----------------------------------------------------------------------------
(* Properties                                                                *)

(* A date's reminder whose sending has succeeded is not sent again, although *)
(* windows overlap, passes are cut short and the date moves during one (an   *)
(* error gives the bit back even if Telegram has the message: only then is it*)
(* sent twice); and whoever keeps a date from before a window opens until it *)
(* is over is reminded, even if one call failed on the way.                  *)
RemindedOnceInTime ==
  /\ ~repeated
  /\ \A w \in Windows :
       (/\ Expiries[date] >= since + Leads[w] + HalfTick
        /\ now + Leads[w] > Expiries[date] + HalfTick
        /\ <<date, w>> \notin spoilt)
       => <<date, w>> \in told
=============================================================================
