---------------------------- MODULE CpuFeatures ----------------------------
(***************************************************************************)
(* get_cpu_features of src/src/cpu_features.cpp on x86_64: five CPUID      *)
(* leaves and XGETBV are read into the same four variables, and about 60   *)
(* features are taken from their bits.  A register variable holds the name *)
(* of the answer it was filled with, <<leaf, register>>.                   *)
(***************************************************************************)
EXTENDS Naturals

CONSTANTS
    Processors,        \* a processor: its highest basic leaf, whether it has the extended
                       \* leaf 1, and what its operating system has enabled in XCR0
    Cpuid(_, _, _)     \* Cpuid(cpu, <<leaf, register>>, bit): the bit is one

\* What the instances have to satisfy; the module that makes them assumes it.
ProcessorsAssumption ==
    \A p \in Processors : p.level \in Nat /\ p.ext \in BOOLEAN /\ p.xcr0 \subseteq Nat

Registers == {"ax", "bx", "cx", "dx"}

VARIABLES
    cpu,        \* the processor and what its operating system has enabled
    pc,         \* the statement that comes next
    reg,        \* ax, bx, cx, dx
    has,        \* has_avx_save, has_avx512_save
    features    \* the features reported as present

vars == <<cpu, pc, reg, has, features>>

Answer(leaf) == [r \in Registers |-> <<leaf, r>>]

\* (answer >> bit) & 1
Bit(answer, bit) ==
    IF answer[1] = "xcr0" THEN answer[2] = "ax" /\ bit \in cpu.xcr0
    ELSE Cpuid(cpu, answer, bit)

\* The names of those entries <<name, register, bit>> whose bit is set.
Set(table, registers) == {e[1] : e \in {f \in table : Bit(registers[f[2]], f[3])}}

Leaf1Features ==
    {<<"cmov", "dx", 15>>, <<"mmx", "dx", 23>>, <<"sse", "dx", 25>>, <<"sse2", "dx", 26>>,
     <<"sse3", "cx", 0>>, <<"ssse3", "cx", 9>>, <<"sse4.1", "cx", 19>>, <<"sse4.2", "cx", 20>>,
     <<"pclmul", "cx", 1>>, <<"cx16", "cx", 13>>, <<"movbe", "cx", 22>>,
     <<"popcnt", "cx", 23>>, <<"aes", "cx", 25>>, <<"rdrnd", "cx", 30>>}

Leaf1AvxFeatures == {<<"fma", "cx", 12>>, <<"f16c", "cx", 29>>, <<"xsave", "cx", 26>>}

ExtFeatures ==
    {<<"lzcnt", "cx", 5>>, <<"sse4a", "cx", 6>>, <<"prfchw", "cx", 8>>, <<"tbm", "cx", 21>>,
     <<"mwaitx", "cx", 29>>}

ExtAvxFeatures == {<<"xop", "cx", 11>>, <<"fma4", "cx", 16>>}

Leaf7Features ==
    {<<"fsgsbase", "bx", 0>>, <<"sgx", "bx", 2>>, <<"bmi", "bx", 3>>, <<"hle", "bx", 4>>,
     <<"bmi2", "bx", 8>>, <<"invpcid", "bx", 10>>, <<"rtm", "bx", 11>>, <<"rdseed", "bx", 18>>,
     <<"adx", "bx", 19>>, <<"smap", "bx", 20>>, <<"pcommit", "bx", 22>>,
     <<"clflushopt", "bx", 23>>, <<"clwb", "bx", 24>>, <<"sha", "bx", 29>>,
     <<"prefetchwt1", "cx", 0>>, <<"pku", "cx", 4>>}

Leaf7AvxFeatures == {<<"avx2", "bx", 5>>}

Avx512Features ==
    {<<"avx512f", "bx", 16>>, <<"avx512dq", "bx", 17>>, <<"avx512ifma", "bx", 21>>,
     <<"avx512pf", "bx", 26>>, <<"avx512er", "bx", 27>>, <<"avx512cd", "bx", 28>>,
     <<"avx512bw", "bx", 30>>, <<"avx512vl", "bx", 31>>, <<"avx512vbmi", "cx", 1>>}

LeafDFeatures == {<<"xsaveopt", "ax", 0>>, <<"xsavec", "ax", 1>>, <<"xsaves", "ax", 3>>}

When(condition, names) == IF condition THEN names ELSE {}

-----------------------------------------------------------------------------
Init ==
    /\ cpu \in Processors
    /\ pc = "leaf 0" /\ features = {}
    /\ reg = [r \in Registers |-> <<"none", r>>]
    /\ has = [avx |-> FALSE, avx512 |-> FALSE]

\* max_level receives ax; a processor without leaf 1 is given up.
Leaf0 ==
    /\ pc = "leaf 0"
    /\ pc' = IF cpu.level < 1 THEN "return false" ELSE "leaf 1"
    /\ reg' = [Answer("0") EXCEPT !["ax"] = reg["ax"]]
    /\ UNCHANGED <<cpu, has, features>>

Leaf1 ==
    /\ pc = "leaf 1"
    /\ reg' = Answer("1")
    /\ features' = Set(Leaf1Features, reg')
    /\ pc' = "xgetbv"
    /\ UNCHANGED <<cpu, has>>

\* Mutated form of Xgetbv: AVX-512 is decided from ax alone.
Xgetbv_unguarded ==
    /\ pc = "xgetbv"
    /\ LET called == Bit(reg["cx"], 27) /\ Bit(reg["cx"], 28)
           ax == IF called THEN <<"xcr0", "ax">> ELSE reg["ax"]
           avx == called /\ Bit(ax, 1) /\ Bit(ax, 2)
       IN  /\ reg' = [reg EXCEPT !["ax"] = ax]
           /\ has' = [avx |-> avx, avx512 |-> Bit(ax, 5) /\ Bit(ax, 6) /\ Bit(ax, 7)]
           /\ features' = features \cup When(avx, {"avx"} \cup Set(Leaf1AvxFeatures, reg'))
    /\ pc' = "extended"
    /\ UNCHANGED cpu

\* x86_xgetbv is called only when the bits for XSAVE and AVX are set, and overwrites ax
\* and dx; otherwise they keep the answers of leaf 1.
Xgetbv ==
    /\ pc = "xgetbv"
    /\ LET called == Bit(reg["cx"], 27) /\ Bit(reg["cx"], 28)
           ax == IF called THEN <<"xcr0", "ax">> ELSE reg["ax"]
           dx == IF called THEN <<"xcr0", "dx">> ELSE reg["dx"]
           avx == called /\ Bit(ax, 1) /\ Bit(ax, 2)
       IN  /\ reg' = [reg EXCEPT !["ax"] = ax, !["dx"] = dx]
           /\ has' = [avx |-> avx, avx512 |-> avx /\ Bit(ax, 5) /\ Bit(ax, 6) /\ Bit(ax, 7)]
           /\ features' = features \cup When(avx, {"avx"} \cup Set(Leaf1AvxFeatures, reg'))
    /\ pc' = "extended"
    /\ UNCHANGED cpu

\* The highest extended leaf goes to a variable of its own; ax stays.
Extended ==
    /\ pc = "extended"
    /\ reg' = IF cpu.ext THEN Answer("ext1") ELSE [Answer("ext0") EXCEPT !["ax"] = reg["ax"]]
    /\ features' = features \cup When(cpu.ext,
         Set(ExtFeatures, reg') \cup When(has.avx, Set(ExtAvxFeatures, reg')))
    /\ pc' = "leaf 7"
    /\ UNCHANGED <<cpu, has>>

Leaf7 ==
    /\ pc = "leaf 7"
    /\ reg' = IF cpu.level >= 7 THEN Answer("7") ELSE reg
    /\ features' = features \cup When(cpu.level >= 7,
         Set(Leaf7Features, reg') \cup When(has.avx, Set(Leaf7AvxFeatures, reg'))
           \cup When(has.avx512, Set(Avx512Features, reg')))
    /\ pc' = "leaf d"
    /\ UNCHANGED <<cpu, has>>

LeafD ==
    /\ pc = "leaf d"
    /\ reg' = IF cpu.level >= 13 THEN Answer("d") ELSE reg
    /\ features' = features \cup When(cpu.level >= 13 /\ has.avx, Set(LeafDFeatures, reg'))
    /\ pc' = "return true"
    /\ UNCHANGED <<cpu, has>>

Next == Leaf0 \/ Leaf1 \/ Xgetbv \/ Extended \/ Leaf7 \/ LeafD

Spec == Init /\ [][Next]_vars

-----------------------------------------------------------------------------
\* What the operating system saves on a context switch: AVX and, with it, AVX-512.
YmmSaved == Bit(<<"1", "cx">>, 27) /\ Bit(<<"1", "cx">>, 28) /\ {1, 2} \subseteq cpu.xcr0
ZmmSaved == YmmSaved /\ {5, 6, 7} \subseteq cpu.xcr0

\* When get_cpu_features returns true, a feature has been reported exactly when its own
\* leaf exists and says so and the operating system saves the registers it needs: no
\* bit is taken from what an earlier call left in ax .. dx.
ReportsOwnLeaf ==
    pc = "return true" =>
        features =
            Set(Leaf1Features, Answer("1"))
            \cup When(YmmSaved, {"avx"} \cup Set(Leaf1AvxFeatures, Answer("1")))
            \cup When(cpu.ext, Set(ExtFeatures, Answer("ext1")))
            \cup When(cpu.ext /\ YmmSaved, Set(ExtAvxFeatures, Answer("ext1")))
            \cup When(cpu.level >= 7, Set(Leaf7Features, Answer("7")))
            \cup When(cpu.level >= 7 /\ YmmSaved, Set(Leaf7AvxFeatures, Answer("7")))
            \cup When(cpu.level >= 7 /\ ZmmSaved, Set(Avx512Features, Answer("7")))
            \cup When(cpu.level >= 13 /\ YmmSaved, Set(LeafDFeatures, Answer("d")))
=============================================================================
