# TLA+ models of the uBPF VM (ebpf-learn)

This directory holds TLA+ models of the uBPF virtual machine vendored under
`src/bpftime/third_party/ubpf`, with TLC configurations that check them. The
models cover the ELF object loader, the x86-64 JIT translator and the code it
emits. They are checked against a reference interpreter and verifier, which
are written from the spec because `ubpf_vm.c` is not part of this
repository's sources.

## The system and how its parts interact

1. **Loader.** `ubpf_load_elf_ex` (`vm/ubpf_loader.c`) takes a relocatable
   object. It checks the header and the section headers, finds the string
   and symbol tables, and collects the function symbols. It copies main
   first and then the other functions into one linked program. It applies
   the `R_BPF_64_64` and `R_BPF_64_32` relocations and passes the result to
   `ubpf_load`.
2. **Verifier.** `ubpf_load` (in `ubpf_vm.c`, outside `src/`) validates the
   instructions. It records the entries of local functions in
   `vm->int_funcs`.
3. **Interpreter.** `ubpf_exec` (also in `ubpf_vm.c`) runs the program. It
   saves R6-R9 at each local call and stops at `UBPF_MAX_CALL_DEPTH`.
4. **JIT.** `ubpf_translate_x86_64` (`vm/ubpf_jit_x86_64.c`) emits x86-64
   code. The prologue saves the non-volatile registers. Each instruction
   becomes one or more native instructions. Local calls push R6-R9 around a
   near call. Helper calls go through a retpoline and the external
   dispatcher. The epilogue restores everything and returns to the
   `ubpf_jit_fn` caller. `resolve_patchable_relatives` then patches every
   rel32 from the fixup tables.
5. **Helpers.** The test harness's helpers (`ubpf_plugin/test_helpers.h`)
   include `unwind` (index 5). When it returns 0, the compiled code jumps
   straight to the epilogue, even from inside nested calls.
6. **LLVM JIT context.** bpftime's `llvm_bpf_jit_context`
   (`vm/llvm-jit/src/llvm_jit_context.hpp`) is the LLVM backend. Only its
   header is in this repository, and the header has declarations only, so
   it is not modelled (see "Not modelled").

## Modules

| Module | Models | State and actions |
|---|---|---|
| `EbpfIsa` | instruction set (spec 4.4), `test_helpers.h` | Words are scaled to `WordBits`, with `HalfBits` for the 32-bit forms and immediates. `AluResult` and `Taken` hold the semantics. `HelperResult` models `unwind` (index 5) and `no_op` (index 2, which returns 0). No configuration registers `sqrti` or `strcmp_ext`. |
| `Verifier` | `validate` (spec 4.2) | `Validate` and `IntFuncs` are operators over a program. |
| `Interpreter` | `ubpf_exec` (spec 4.4) | VARIABLES `prog, pc, reg, frames, status`. There is one action per instruction class: `AluStep`, `LddwStep`, `BranchStep`, `HelperStep`, `LocalCallStep`, `ExitStep` and `UnknownStep`. |
| `X86Translate` | `translate`, `emit_local_call`, `emit_retpoline`, `muldivmod`, `resolve_patchable_relatives`, `ubpf_translate_x86_64` | Pure operators. Each `emit_*` call appends one native operation. A location is an index into that sequence, so `pc_locs`, the `jumps`/`loads` fixup tables and the `TARGET_PC_*` sentinels have the shape they have in the code. |
| `X86Jit` | execution of the emitted code | VARIABLES are the host `rip`, stack, registers and flags, the status, `abiOk` and the eBPF view `bpf`. `EnterStep` runs the prologue. `HostStep` runs native operations (RECURSIVE `Run`) up to the next instruction boundary. `EpilogueStep` runs the epilogue. `Abs` maps the state onto `Interpreter` (INSTANCE ... WITH). |
| `ElfLoader` | `ubpf_load_elf_ex` | VARIABLES `img, mainName, phase, i, j, rf, total, linkedSize, linked, err`. The section-header table is located in bytes (`e_shoff`, `e_shentsize`, the file size). The other byte-level checks are the flags `headerOk` and `ok`. There is one action per loop iteration of the code: `CheckHeader`, `ParseSection`, `FindTables`, `DiscoverSymbol`, `CheckMain`, `LinkFunction`, `StartRelocSection`, `ApplyRelocation` and `Verify`. A read or write outside an array moves to phase `"ub"`. |
| `ElfImages` | the `rel_64_32`-shaped test images | The good image, the images that a loader check rejects, and `TwoSecImage`. `TwoSecImage` is the test object's own layout scaled to eight records: `sec1` holds `zero` and `two`, and `__main` holds `three` and then `main`, with one call inside a section and one across sections. The real `two()` begins with its call, which the loader rejects (`elf_firstinst`), so the scaled `two` sets r0 first. |
| `MCJit`, `MCElf` | model values and program or image sets for TLC | `MCJit` instantiates `ElfLoader` at the good image (INSTANCE ... WITH) to compile its linked program. |

`PROJECT.json` maps every definition to the lines it models.

## Runs

| Run | Checks | Shows |
|---|---|---|
| `jit` (pass, 9414 states) | `CalleeSavedRestored`, `HelperCallsAligned`, `JitRefinesInterpreter`, `ReturnsToCaller` | The programs are every program of up to three instructions from a 29-instruction alphabet, plus call, nested-call, LDDW and unwind programs, and the four programs the loader links from the test images: the good image with main named and with the default main, and the two-section image with `main` and with `three` as entry. For these four the loader and the JIT are composed. The `elf` run shows that a successful load links exactly `RefLinked`, so `MCJit` compiles `RefLinked` of each image. The loader's and the JIT's readings of a local call's immediate are then checked end to end. For each: the compiled code refines the interpreter (the abstract spec as a PROPERTY), restores the caller's callee-saved registers and stack, makes every helper call on a 16-byte aligned stack, and eventually returns. |
| `jit_entry` | `JitRefinesInterpreter` | Falling into a local function's entry re-runs `sub rsp,8` (`pc_locs` is recorded before it), and the final `ret` leaves the code. |
| `jit_zext` | `JitRefinesInterpreter` | 32-bit MOD by zero and 32-bit MOV reg keep the upper 32 bits. |
| `jit_regimm` | `JitRefinesInterpreter` | A register-form MUL/DIV/MOD uses the record's imm when it is nonzero. |
| `jit_depth` | `JitRefinesInterpreter` | The compiled code has no call-depth limit. |
| `jit_fixups` | `FixupTablesInBounds` | Fixups are appended past the `UBPF_MAX_INSTS`-entry table before the `==` check. |
| `elf` (pass, 765 states) | `MemorySafe`, `LinkedAsSpecified`, `LoadsWellFormed` | Each image is the good image or the good image with one change that a check of the loader rejects. Every error path is reached. Loading never goes out of bounds. A successful load produces exactly the linked program the spec describes (`RefLinked`, written from spec 4.1). Every well-formed image is loaded. |
| `elf_slots`, `elf_fields` | `MemorySafe` | `relocated_functions` overflow and `calloc(0)`; a file that ends inside its last section header (the loop checks `sizeof(Elf64_Ehdr*)`, 8 bytes, then reads `sh_offset` and `sh_size`); `st_shndx == section_count` (checked with `>`) and unchecked `st_size`, `sh_info` and call-target `st_shndx`. |
| `elf_firstinst` | `LoadsWellFormed` | A relocation on a function's first instruction is rejected (`r_offset > start`). |

Each property of a passing run has a mutant in `PROJECT.json`. The mutant is
a plausible bug in the mapped code that TLC must catch:

- an unsigned jcc for a signed condition;
- the alignment condition inverted;
- pops in push order;
- no stack restore;
- an uncounted main;
- an off-by-one call immediate;
- no default main.

The findings are listed in `PROJECT.json` with their source lines.

## Bounds and why they are enough

- `WordBits = 4`, `HalfBits = 2`. Words have 16 values and immediates run
  from -2 to 1. This is enough for a negative immediate, a value with upper
  bits set, zero and overflow, which are the cases where sign extension,
  zero extension and division by zero differ.
- `MaxInsts = 8`. This is enough for a call into a two-instruction
  function, LDDW pairs, and the three-helper program that overflows an
  8-entry fixup table.
- `MaxCallDepth = 2` gives nested calls and one level past the limit.
- `HostStackCap = 30` is above the deepest legal stack (5 saved registers,
  the alignment word, 2 stack slots, and two frames of 4 saves plus a
  return address).
- `MaxBlockOps = 40` is above the longest native sequence of one
  instruction (the unwind-helper call through the retpoline).
- `Junk = {0}`, `ClobberVals = {9}` and distinct `CallerVals` make every
  clobbered or unrestored register visible.
- Images have 7 sections and 5 symbols, with relocations of every kind on
  both functions. The two-section image has four functions in two
  executable sections. Main names are `"main"`, NULL (default main) and
  `"three"`. `"three"` names a function of the two-section image but no
  function of the others. The two-section image has no `.text`, so its
  default-main load is rejected ("function not found"). Images are laid
  out as clang lays out an object: the 64-byte ELF header, the payloads,
  then the 64-byte section headers. Two variants cut the file 4 and 32
  bytes into the last section header, on either side of the 8 bytes the
  loop checks.

## Fairness

The compiled code is a single thread that runs until it returns or faults,
so `X86Jit` assumes `[]<><<Next>>_hvars \/ <>[](hstatus # "running")`. That
is: a running program keeps running. It is written without `ENABLED`,
because `Next` is recursive. `ElfLoader` is a sequential function and uses
`WF_lvars(Next)`. Neither has concurrency to schedule.

## Not modelled

- Memory load and store instructions, and their bounds check.
- LE/BE byte swaps.
- The Windows ABI.
- `ubpf_set_register_offset`.
- Machine-code bytes and the buffer-size check.
- The retpoline and dispatcher internals. They run as one step.
- Raw ELF byte checks other than the section-header table's. These are
  the `ok` and `headerOk` flags. Of a section header that ends between 40
  and 64 bytes into the file, the later reads of `sh_link` and `sh_info`
  are not modelled.
- Byte offsets that are not multiples of 8.
- The allocation failures of the per-function `calloc`.
- The LLVM JIT context (`llvm_jit_context.hpp`). The header declares the
  `jit` slot, the `compiling` spinlock and the public operations, but
  `llvm_jit_context.cpp`, which holds their bodies, is not in this
  repository. Which operations take the lock, when the slot is filled and
  how an entry is looked up cannot be read from the code. A model would
  have to invent them, and its properties would then follow from the
  invention. The constants and macros at lines 23-38 are used only by that
  `.cpp`.

## Plan for later work

- The data-relocation pair that straddles two functions.
- `ubpf_set_register_offset`, and the memory instructions with the bounds
  check.
