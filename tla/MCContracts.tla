------------------------------ MODULE MCContracts ------------------------------
(* Small instance of Contracts: see README, "Runs". *)
EXTENDS Contracts, TLC

\* Every set of at most two words of at most three letters.
Words == UNION {[1..n -> Letters] : n \in 1..3}
MCSecretSets == {{}} \cup {{v, w} : v, w \in Words}

Jobs == {"JOB-REACTIVE", "JOB-SIMULATIVE"}
MCLabel == [j \in Jobs |-> IF j = "JOB-REACTIVE" THEN "reactive" ELSE "simulative"]

MCDirectories == {"output", "out<newline>put"}
MCSessionPath == [at \in MCDirectories \X Jobs |-> at[1] \o "/" \o at[2]]

MCBrokenPaths == {"ra<newline>w"} \cup {MCSessionPath[<<"out<newline>put", j>>] : j \in Jobs}
MCPaths == {"run-plan.json", "command.json", "raw"}
           \cup {MCSessionPath[<<"output", j>>] : j \in Jobs}
MCLoosePaths == {"."}
MCSamplePaths == {"raw", "ra<newline>w", " ", ".", "/raw"}
CONSTANT OneAsFloat \* the JSON number 1.0
MCFloatValue == [x \in {OneAsFloat} |-> 1]

MCPairIds == {"PAIR-TASK-0"}
MCTexts == {"sira-mode-assignment", "sira-policy", "reactive", "simulative", "sha256",
            "unknown", "text", "mode"} \cup MCPairIds
MCSampleTexts == {"text", "mode", " ", "sk-secret", ""}

Symmetric == Permutations(OutputRoots) \cup Permutations(WallSeconds)
             \cup Permutations(Letters)
=============================================================================
