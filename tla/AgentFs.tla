------------------------------ MODULE AgentFs ------------------------------
(***************************************************************************)
(* The file system as the agent uses it.  Two things are added to Fat32:   *)
(* the agent's key-value store of src/src/agent/agent.c, and commands that *)
(* arrive in an answer of the language model.  Such a command is run by    *)
(* shell_execute inside the timer interrupt (timer_handler, rtl8169_poll,  *)
(* lwIP, ollama_recv_cb in src/src/drivers/net/net_stack.c), so it may run *)
(* while the shell task is between fat32_open and fat32_write of its own   *)
(* command; the shell's write is two steps here.                           *)
(***************************************************************************)
EXTENDS Fat32

CONSTANT AgentKeys      \* arguments of agent_ctx_set

VARIABLE job    \* the shell's write command, between its open and its write

agentVars == <<fat32Vars, job>>

NoJob == [file |-> NoFile]

AgentInit == Fat32Init /\ job = NoJob

agent_path(key) == [abs |-> TRUE, parts |-> <<"agent", "db", key>>]

\* fat32_open creates the file in the root directory, whatever its path.
agent_ctx_set(key, text) == write(agent_path(key), text)

OpenToWrite(path, text) ==
    LET r == fat32_open(disk, fat32_cwd_cluster, path, "w")
    IN  /\ booted /\ job = NoJob
        /\ Leaves(r.D)
        /\ job' = IF r.file = NoFile THEN NoJob ELSE [file |-> r.file, text |-> text, path |-> path]
        /\ UNCHANGED <<fat32_cwd_cluster, booted, outage>>

FinishWrite ==
    /\ job # NoJob /\ job' = NoJob
    /\ Leaves(fat32_write(disk, job.file, job.text).D)
    /\ UNCHANGED <<fat32_cwd_cluster, booted, outage>>

\* A command of the shell when it is idle, or of the interrupt at any time.
RunCommand ==
    /\ Fat32Next \/ (booted /\ \E key \in AgentKeys, text \in Texts : agent_ctx_set(key, text))
    /\ job' = IF booted' THEN job ELSE NoJob

AgentNext ==
    \/ RunCommand
    \/ \E path \in FilePaths, text \in Texts : OpenToWrite(path, text)
    \/ FinishWrite

AgentSpec == AgentInit /\ [][AgentNext]_agentVars

-----------------------------------------------------------------------------
(* Properties.                                                             *)

\* The shell's write command changes no file but the one it was given.
ShellWritesItsFile ==
    [][FinishWrite => \A f \in Files(disk) \ Files(disk') : f.name = Last(job.path.parts)]_agentVars

=============================================================================
