------------------------------ MODULE ClientParts ------------------------------
(***************************************************************************)
(* What goes on around the files of a torrent, each an instance with the    *)
(* variables of its own: the window's place and its icon, its commands and  *)
(* menus, the links with peers, and the listening port.                    *)
(***************************************************************************)
EXTENDS Files

CONSTANTS IdleTime, MaxStarts,                                       \* Tray
          Torrents,                                                  \* Commands and Peers
          Sizes, PieceSize, MaxCommands,                             \* Commands
          Addresses, LinkTime, Limits, MaxBacklog, MaxOps,           \* Peers
          LowPort, HighPort, MaxChanges                              \* Ports

VARIABLES
  t_up, visible, iconic, active, m_initial_hide, m_hide_on_deactivate, m_show_tray_icon, timer,
  t_profile, hot_key, t_options, shell, icon, t_server, starts,                                   \* Tray
  o_server, copy, selected, dialog, priorities, ranks, commands, meant, o_fresh,                  \* Commands
  turn, listens, p_state, m_new_peers, m_peers, m_links, backlog, m_block_list, m_peer_limit, ops,
  excused,                                                                                        \* Peers
  p_up, config_port, m_peer_port, socket, others, p_changes, turned                               \* Ports

ASSUME TrayAssumption == IdleTime \in Nat
\* Addresses are numbers of 32 bits, and the lists of a program are finite.
ASSUME PeersAssumption ==
  /\ Addresses \subseteq Nat /\ IsFiniteSet(Addresses) /\ IsFiniteSet(Torrents)
  /\ LinkTime \in Nat /\ Limits \subseteq Int
\* There are ports, and 0 is none.
ASSUME PortsAssumption == LowPort \in Nat \ {0} /\ HighPort \in Nat /\ LowPort <= HighPort

Window == INSTANCE Tray WITH
  is_up <- t_up, profile <- t_profile, options <- t_options, server <- t_server
Orders == INSTANCE Commands WITH
  MaxChanges <- MaxCommands, server <- o_server, pieces <- ranks, changes <- commands, fresh <- o_fresh
Swarm == INSTANCE Peers WITH state <- p_state
Listening == INSTANCE Ports WITH is_up <- p_up, l <- socket, changes <- p_changes

\* The user keeps hold of the window and is told the truth by its menus, peers have the links they
\* should and no others, and are found where they were told to look.
ControlKept ==
  /\ Window!IconAsWanted /\ Window!HidesWhenLeft /\ Orders!MarkTrue
  /\ Swarm!OneLinkEach /\ Swarm!BlockedOut
  /\ Listening!ReachedWhereTold
\* Commands reach the torrents they were meant for, and the peer limit is heeded.
CommandsObeyed == Orders!MeantOnly /\ Orders!PausedPauses /\ Swarm!OwnWithinLimit
================================================================================
