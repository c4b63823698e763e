------------------------------ MODULE ServerParts ------------------------------
(***************************************************************************)
(* What the XBT Client keeps besides its torrents, each an instance with    *)
(* the variables of its own: the schedule of its profiles, and the window.  *)
(***************************************************************************)
EXTENDS Server

CONSTANTS Day, Values, MaxKeys, MaxEdits, \* Scheduler
          Hosts, MaxChanges               \* Window

VARIABLES
  m_profiles, m_scheduler, profiles_file, scheduler_file, now, last_run, limit, edit, running, \* Scheduler
  in_force, gap, asked, edits,
  torrents, m_files_map, file_rows, m_file, m_bottom_view, rows, visible, changes, fewer, full, fresh \* Window

\* A day has a second, and an entry of the schedule a time in it.
ASSUME ScheduleAssumption == Day \in Nat \ {0} /\ MaxKeys \in Nat
\* Addresses are numbers of 32 bits.
ASSUME WindowAssumption == IsFiniteSet(Hosts)

Schedule == INSTANCE Scheduler
Gui == INSTANCE Window WITH Hashes <- Torrents, files <- torrents

\* The schedule is obeyed and keeps its entries, and no profile is looked up that is not there.
ScheduleObeyed == Schedule!InForce /\ Schedule!LookupSafe /\ Schedule!EntriesKept

\* A row of the window has its item, and shows what the server has.
WindowFaithful == Gui!RowsHaveItems /\ Gui!SameAsServer
================================================================================
