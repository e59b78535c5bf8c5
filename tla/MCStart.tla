------------------------------ MODULE MCStart ------------------------------
EXTENDS ComponentStart

MCDeclared == <<"trace", "core", "sysprobe", "process", "security">>
MCNeeds == [a \in {"trace", "core", "sysprobe", "process", "security"} |->
              CASE a \in {"trace", "core"} -> "always"
                [] a \in {"sysprobe", "process"} -> "systemProbe"
                [] OTHER -> "security"]
=============================================================================
