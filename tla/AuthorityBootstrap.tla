------------------------- MODULE AuthorityBootstrap -------------------------
(***************************************************************************)
(* g10_operator_bootstrap.py: an operator proves the authority of a        *)
(* profile, appends the deployment alias to the shared AWS config file and *)
(* keeps a private receipt.  Operators run concurrently with each other    *)
(* and with an editor of the config file that does not take the lock.      *)
(***************************************************************************)
EXTENDS Naturals, Sequences, SequencesExt, FiniteSets

CONSTANTS Operators,   \* processes that run the bootstrap
          Nobody,
          MaxRuns,     \* bound: bootstrap runs
          MaxEdits,    \* bound: edits of the config file by others
          MaxFaults,   \* bound: OSErrors of local writes
          MaxCrashes   \* bound: killed runs

VARIABLES file,     \* inode -> contents, a sequence of blocks
          config,   \* the inode the config path names
          lock,     \* inode -> holder of its flock
          receipt,  \* the private receipt on disk
          backups,  \* its .previous-<sha> copies
          op,       \* each operator's process
          results,  \* history: how each run ended
          edits, faults, crashes

vars == <<file, config, lock, receipt, backups, op, results, edits, faults, crashes>>

Runs == 1..MaxRuns
Profiles == {"operator", "another", "deployment"}
\* half of an alias block of a run (naming its source_profile), or an edit
Block == [kind : {"head", "tail"}, by : Runs, source : Profiles]
    \cup [kind : {"user", "alien"}, by : (MaxRuns + 1)..(MaxRuns + MaxEdits)]
NoReceipt == [run |-> 0]
Suffix(o) ==
    <<[kind |-> "head", by |-> o.st.run, source |-> o.source],
      [kind |-> "tail", by |-> o.st.run, source |-> o.source]>>

\* _State, and the receipt _private_receipt makes of it
State == [run : Runs, status : {"PASS", "BLOCKED", "FAIL"}, reasons : BOOLEAN,
          ambiguous : BOOLEAN, selected : BOOLEAN, source_verified : BOOLEAN,
          assumed : BOOLEAN, temporary_verified : BOOLEAN, exact_role : BOOLEAN,
          alias_created : BOOLEAN, alias_reverified : BOOLEAN, api_operations : 0..3]
Fresh(r) ==
    [run |-> r, status |-> "BLOCKED", reasons |-> TRUE, ambiguous |-> FALSE,
     selected |-> FALSE, source_verified |-> FALSE, assumed |-> FALSE,
     temporary_verified |-> FALSE, exact_role |-> FALSE, alias_created |-> FALSE,
     alias_reverified |-> FALSE, api_operations |-> 0]

\* The conditions validate_private_authority_receipt relates fields by
ValidPrivate(s) ==
    /\ s.ambiguous => ~s.selected
    /\ s.source_verified => s.selected /\ s.api_operations > 0
    /\ s.assumed <=> s.api_operations > 1
    /\ s.temporary_verified => s.assumed /\ s.api_operations = 3
    /\ s.exact_role => s.source_verified /\ (s.assumed => s.temporary_verified)
    /\ s.alias_reverified => s.exact_role /\ s.api_operations \in {1, 3}
    /\ s.status = "PASS" =>
        /\ ~s.reasons /\ s.selected /\ s.source_verified /\ s.exact_role
        /\ s.alias_reverified /\ (s.assumed <=> s.temporary_verified)
    /\ s.status # "PASS" => s.reasons

\* and those validate_sanitized_authority_receipt adds
ValidSanitized(s, private_created) ==
    /\ s.reasons <=> s.status # "PASS"
    /\ s.ambiguous => ~s.selected
    /\ s.source_verified => s.selected
    /\ s.temporary_verified => s.assumed
    /\ s.exact_role => s.source_verified /\ (s.assumed => s.temporary_verified)
    /\ (s.alias_reverified \/ s.alias_created) => s.exact_role
    /\ s.status = "PASS" => s.alias_reverified /\ private_created

\* RawConfigParser(strict): a section given twice does not parse
Heads(c) == {i \in 1..Len(c) : c[i].kind \in {"head", "alien"}}
Parses(c) == Cardinality(Heads(c)) <= 1
\* _section_mapping: the keys after a header up to the next header are its own; a
\* whole alias is told by its source_profile
Section(c) ==
    IF Heads(c) = {} THEN "none"
    ELSE LET h == CHOOSE i \in Heads(c) : TRUE
         IN IF /\ c[h].kind = "head" /\ h < Len(c)
               /\ c[h + 1] = [c[h] EXCEPT !.kind = "tail"]
            THEN c[h].source ELSE "other"

Idle == [pc |-> "idle", st |-> Fresh(1), source |-> "operator", fd |-> 1,
         original |-> <<>>, written |-> 0]

TypeOK ==
    /\ \A i \in DOMAIN file : \A k \in 1..Len(file[i]) : file[i][k] \in Block
    /\ config \in DOMAIN file
    /\ lock \in [DOMAIN file -> Operators \cup {Nobody}]
    /\ receipt \in State \cup {NoReceipt}
    /\ backups \subseteq State
    /\ \A p \in Operators : op[p].st \in State
    /\ \A r \in DOMAIN results : results[r] \in [status : {"PASS", "BLOCKED", "FAIL", "killed"},
                                                 alias_created : BOOLEAN, valid : BOOLEAN]

Init ==
    /\ file = <<(<<>>)>>
    /\ config = 1
    /\ lock = <<Nobody>>
    /\ receipt = NoReceipt
    /\ backups = {}
    /\ op = [p \in Operators |-> Idle]
    /\ results = <<>>
    /\ edits = 0 /\ faults = 0 /\ crashes = 0

-----------------------------------------------------------------------------
At(p, pc) == op[p].pc = pc
Go(p, pc) == op' = [op EXCEPT ![p].pc = pc]
Set(p, pc, s) == op' = [op EXCEPT ![p].pc = pc, ![p].st = s]
KeepFiles == UNCHANGED <<file, config, lock>>
KeepReceipts == UNCHANGED <<receipt, backups>>
KeepBudgets == UNCHANGED <<edits, faults, crashes>>
OSError == faults < MaxFaults /\ faults' = faults + 1

\* state.reason, and the handler around run_authority_bootstrap's try
Failed(s, status) ==
    [s EXCEPT !.reasons = TRUE,
              !.status = IF status = "FAIL" THEN "FAIL" ELSE @]
Raise(p, status) == Set(p, "report", Failed(op[p].st, status))

\* _atomic_write of the receipt: an error after os.replace leaves it written
AtomicWrite(s, ok) ==
    \/ /\ ok /\ receipt' = s /\ UNCHANGED faults
    \/ /\ ~ok /\ OSError /\ receipt' \in {s, receipt}

\* the run returns or raises out of run_authority_bootstrap to main
Return(p, s, private_created) ==
    /\ op' = [op EXCEPT ![p] = Idle]
    /\ results' = [results EXCEPT ![s.run] =
                      [status |-> s.status, alias_created |-> s.alias_created,
                       valid |-> ValidSanitized(s, private_created)]]

\* _private_output_allowed and the path collision check may refuse the run
Start(p) ==
    /\ At(p, "idle")
    /\ Len(results) < MaxRuns
    /\ LET s == Fresh(Len(results) + 1)
       IN \/ /\ Set(p, "preserve", s)
             /\ results' = Append(results, [status |-> "BLOCKED", alias_created |-> FALSE,
                                            valid |-> TRUE])
          \/ /\ results' = Append(results, [status |-> "FAIL", alias_created |-> FALSE,
                                            valid |-> TRUE])
             /\ UNCHANGED op
    /\ KeepFiles /\ KeepReceipts /\ KeepBudgets

\* _preserve_existing_private_receipt: the backup is named by its content
Preserve(p) ==
    /\ At(p, "preserve")
    /\ \/ /\ backups' = backups \cup ({receipt} \ {NoReceipt})
          /\ Go(p, "begin")
          /\ UNCHANGED <<results, faults>>
       \/ /\ receipt # NoReceipt /\ receipt \notin backups
          /\ OSError
          /\ backups' \in {backups, backups \cup {receipt}}
          /\ Return(p, Failed(op[p].st, "FAIL"), FALSE)
    /\ KeepFiles /\ UNCHANGED <<receipt, edits, crashes>>

\* the BOOTSTRAP_IN_PROGRESS receipt, written before anything is proven
Begin(p) ==
    /\ At(p, "begin")
    /\ \/ /\ AtomicWrite(op[p].st, TRUE)
          /\ Go(p, "guard")
          /\ UNCHANGED results
       \/ /\ AtomicWrite(op[p].st, FALSE)
          /\ Return(p, Failed(op[p].st, "FAIL"), FALSE)
    /\ KeepFiles /\ UNCHANGED <<backups, edits, crashes>>

\* An explicit profile of the environment, else the only source candidate, else the
\* only profile; {} stands for the failure that the second part names
select_source_profile(explicit, profiles) ==
    LET candidates == profiles \ {"deployment"}
        blocked(ambiguous) == [source |-> {}, ambiguous |-> ambiguous]
        chosen(found) == [source |-> found, ambiguous |-> FALSE]
    IN IF Cardinality(explicit) > 1 THEN blocked(TRUE)
       ELSE IF explicit # {} THEN IF explicit \subseteq profiles
                                  THEN chosen(explicit) ELSE blocked(FALSE)
       ELSE IF Cardinality(candidates) = 1 THEN chosen(candidates)
       ELSE IF profiles = {"deployment"} THEN chosen(profiles)
       ELSE blocked(profiles # {})

\* repository_guard and the endpoint and config path checks come first
Guard(p) ==
    /\ At(p, "guard")
    /\ \/ Raise(p, "FAIL")
       \/ \E explicit, profiles \in SUBSET Profiles :
            LET choice == select_source_profile(explicit, profiles)
            IN \/ /\ choice.source = {}
                  /\ Set(p, "report",
                         Failed([op[p].st EXCEPT !.ambiguous = choice.ambiguous], "BLOCKED"))
               \/ \E source \in choice.source :
                    op' = [op EXCEPT ![p].pc = "read", ![p].source = source,
                                     ![p].st = [@ EXCEPT !.selected = TRUE]]
    /\ KeepFiles /\ KeepReceipts /\ KeepBudgets /\ UNCHANGED results

\* _read_aws_config: the bytes every later read is compared with
ReadConfig(p) ==
    /\ At(p, "read")
    /\ IF Parses(file[config])
       THEN op' = [op EXCEPT ![p].pc = "identify", ![p].original = file[config]]
       ELSE Raise(p, "FAIL")
    /\ KeepFiles /\ KeepReceipts /\ KeepBudgets /\ UNCHANGED results

\* what sts:GetCallerIdentity may answer: the account's root, something malformed,
\* the exact deployment role (itself or assumed), or another principal
Identities == {"root", "malformed", "exact", "principal"}
identity_parts(identity) == identity \notin {"root", "malformed"}
identity_is_exact_role(identity) == identity_parts(identity) /\ identity = "exact"

\* the source session and its identity
Identify(p) ==
    /\ At(p, "identify")
    /\ LET called == [op[p].st EXCEPT !.api_operations = 1]
           verified == [called EXCEPT !.source_verified = TRUE]
       IN \/ Raise(p, "BLOCKED")                                   \* no session
          \/ Set(p, "report", Failed(called, "BLOCKED"))            \* the call failed
          \/ \E identity \in Identities :
                \/ /\ ~identity_parts(identity)
                   /\ Set(p, "report", Failed(called, "BLOCKED"))
                \/ /\ identity_is_exact_role(identity)
                   /\ Set(p, "reread", [verified EXCEPT !.exact_role = TRUE])
                \/ /\ identity_parts(identity) /\ ~identity_is_exact_role(identity)
                   /\ Set(p, "assume", verified)
    /\ KeepFiles /\ KeepReceipts /\ KeepBudgets /\ UNCHANGED results

\* sts:AssumeRole of the exact role and the identity of the temporary session
AssumeRole(p) ==
    /\ At(p, "assume")
    /\ LET asked == [op[p].st EXCEPT !.assumed = TRUE, !.api_operations = 2]
           called == [asked EXCEPT !.api_operations = 3]
       IN \/ \E s \in {asked, called} : Set(p, "report", Failed(s, "BLOCKED"))
          \/ Set(p, "reread", [called EXCEPT !.temporary_verified = TRUE,
                                             !.exact_role = TRUE])
    /\ KeepFiles /\ KeepReceipts /\ KeepBudgets /\ UNCHANGED results

\* the second read, _expected_alias_mapping and the alias already there
Reread(p) ==
    /\ At(p, "reread")
    /\ LET s == op[p].st
           found == Section(file[config])
       IN \/ /\ file[config] # op[p].original
             /\ Raise(p, "FAIL")
          \/ /\ file[config] = op[p].original
             /\ \/ /\ ~s.assumed /\ op[p].source # "deployment"
                   /\ Raise(p, "BLOCKED")
                \/ /\ ~s.assumed /\ op[p].source = "deployment" /\ found \notin Profiles
                   /\ \E status \in {"BLOCKED", "FAIL"} : Raise(p, status)
                \/ /\ s.assumed /\ found \notin {"none", op[p].source}
                   /\ Raise(p, "BLOCKED")
                \/ /\ s.assumed /\ found = "none"
                   /\ Go(p, "open")
                \/ /\ found \in Profiles
                   /\ IF s.assumed THEN found = op[p].source ELSE op[p].source = "deployment"
                   /\ Set(p, "pass", [s EXCEPT !.alias_reverified = TRUE,
                                               !.status = "PASS", !.reasons = FALSE])
    /\ KeepFiles /\ KeepReceipts /\ KeepBudgets /\ UNCHANGED results

-----------------------------------------------------------------------------
(* _append_config_alias *)
Unlock(p) == lock' = [lock EXCEPT ![op[p].fd] = IF @ = p THEN Nobody ELSE @]
\* BootstrapFailure(..., local_profile_changed), the lock released by finally
RaiseChanged(p, changed) ==
    /\ Set(p, "report", Failed([op[p].st EXCEPT !.alias_created = changed], "FAIL"))
    /\ Unlock(p)

\* os.open by path: the descriptor keeps naming this inode
Open(p) ==
    /\ At(p, "open")
    /\ op' = [op EXCEPT ![p].pc = "lock", ![p].fd = config, ![p].written = 0]
    /\ KeepFiles /\ KeepReceipts /\ KeepBudgets /\ UNCHANGED results

\* flock(LOCK_EX)
Lock(p) ==
    /\ At(p, "lock")
    /\ lock[op[p].fd] = Nobody
    /\ lock' = [lock EXCEPT ![op[p].fd] = p]
    /\ Go(p, "compare")
    /\ KeepReceipts /\ KeepBudgets /\ UNCHANGED <<file, config, results>>

\* under the lock the file must still hold the original bytes
Compare(p) ==
    /\ At(p, "compare")
    /\ \/ /\ file[op[p].fd] = op[p].original
          /\ Go(p, "append") /\ UNCHANGED lock
       \/ /\ file[op[p].fd] # op[p].original
          /\ RaiseChanged(p, FALSE)
    /\ KeepReceipts /\ KeepBudgets /\ UNCHANGED <<file, config, results>>

\* os.write appends one part of the suffix wherever the file ends by now
AppendPart(p) ==
    /\ At(p, "append")
    /\ LET k == op[p].written + 1
       IN /\ file' = [file EXCEPT ![op[p].fd] = Append(@, Suffix(op[p])[k])]
          /\ op' = [op EXCEPT ![p].written = k,
                              ![p].pc = IF k = 2 THEN "sync" ELSE "append"]
    /\ KeepReceipts /\ KeepBudgets /\ UNCHANGED <<config, lock, results>>

\* os.write or os.fsync fails
AppendFails(p) ==
    /\ op[p].pc \in {"append", "sync"}
    /\ OSError
    /\ Go(p, "rollback")
    /\ KeepFiles /\ KeepReceipts /\ UNCHANGED <<results, edits, crashes>>

\* the bytes are read back; they are taken out only when nothing else came in
Rollback(p) ==
    /\ At(p, "rollback")
    /\ LET mine == op[p].original \o SubSeq(Suffix(op[p]), 1, op[p].written)
       IN \/ /\ file[op[p].fd] = mine
             /\ Go(p, "truncate") /\ UNCHANGED <<lock, faults>>
          \/ /\ file[op[p].fd] # mine
             /\ RaiseChanged(p, op[p].written > 0) /\ UNCHANGED faults
          \/ /\ OSError
             /\ RaiseChanged(p, op[p].written > 0)
    /\ KeepReceipts /\ UNCHANGED <<file, config, results, edits, crashes>>

\* Mutant: a truncation that failed is reported as a restored file
Truncate_optimistic(p) ==
    /\ At(p, "truncate")
    /\ LET cut == [file EXCEPT ![op[p].fd] = SubSeq(@, 1, Len(op[p].original))]
       IN file' \in {file, cut}
    /\ RaiseChanged(p, FALSE)
    /\ KeepReceipts /\ KeepBudgets /\ UNCHANGED <<config, results>>

\* os.ftruncate to the original length, then fsync
Truncate(p) ==
    /\ At(p, "truncate")
    /\ LET cut == [file EXCEPT ![op[p].fd] = SubSeq(@, 1, Len(op[p].original))]
       IN \/ /\ file' = cut /\ RaiseChanged(p, FALSE) /\ UNCHANGED faults
          \/ /\ OSError /\ file' \in {file, cut} /\ RaiseChanged(p, op[p].written > 0)
    /\ KeepReceipts /\ UNCHANGED <<config, results, edits, crashes>>

\* os.fsync done: the file must hold the original and the whole suffix
CheckAfter(p) ==
    /\ At(p, "sync")
    /\ \/ /\ file[op[p].fd] = op[p].original \o Suffix(op[p])
          /\ Set(p, "verify", [op[p].st EXCEPT !.alias_created = TRUE])
          /\ Unlock(p)
       \/ /\ file[op[p].fd] # op[p].original \o Suffix(op[p])
          /\ RaiseChanged(p, TRUE)
    /\ KeepReceipts /\ KeepBudgets /\ UNCHANGED <<file, config, results>>

\* the config path is read once more, whatever file it names by now
Verify(p) ==
    /\ At(p, "verify")
    /\ LET s == op[p].st
       IN IF /\ file[config] = op[p].original \o Suffix(op[p])
             /\ Parses(file[config]) /\ Section(file[config]) = op[p].source
          THEN Set(p, "pass", [s EXCEPT !.alias_reverified = TRUE, !.status = "PASS",
                                        !.reasons = FALSE])
          ELSE Raise(p, "FAIL")
    /\ KeepFiles /\ KeepReceipts /\ KeepBudgets /\ UNCHANGED results

\* the PASS receipt; if it cannot be written the run fails
WritePass(p) ==
    /\ At(p, "pass")
    /\ LET s == op[p].st
       IN \/ /\ ValidPrivate(s) /\ AtomicWrite(s, TRUE) /\ Return(p, s, TRUE)
          \/ /\ ValidPrivate(s) /\ AtomicWrite(s, FALSE) /\ Raise(p, "FAIL")
             /\ UNCHANGED results
          \/ /\ ~ValidPrivate(s) /\ Raise(p, "FAIL") /\ UNCHANGED <<receipt, faults, results>>
    /\ KeepFiles /\ UNCHANGED <<backups, edits, crashes>>

\* the receipt of a failed run, after the except clauses
Report(p) ==
    /\ At(p, "report")
    /\ LET s == op[p].st
       IN \/ /\ ValidPrivate(s) /\ AtomicWrite(s, TRUE) /\ Return(p, s, TRUE)
          \/ /\ ValidPrivate(s) /\ AtomicWrite(s, FALSE) /\ Return(p, Failed(s, "FAIL"), FALSE)
          \/ /\ ~ValidPrivate(s) /\ Return(p, Failed(s, "FAIL"), FALSE)
             /\ UNCHANGED <<receipt, faults>>
    /\ KeepFiles /\ UNCHANGED <<backups, edits, crashes>>

-----------------------------------------------------------------------------
\* The process dies; the kernel releases its lock
Crash(p) ==
    /\ ~At(p, "idle") /\ crashes < MaxCrashes
    /\ crashes' = crashes + 1
    /\ op' = [op EXCEPT ![p] = Idle]
    /\ results' = [results EXCEPT ![op[p].st.run].status = "killed"]
    /\ Unlock(p)
    /\ KeepReceipts /\ UNCHANGED <<file, config, edits, faults>>

\* Another program appends to the config file in place, or writes a copy and
\* renames it over the path; neither asks for the lock
Edited(c, kind) == Append(c, [kind |-> kind, by |-> MaxRuns + edits + 1])
Edit(kind) ==
    /\ edits < MaxEdits
    /\ edits' = edits + 1
    /\ \/ /\ file' = [file EXCEPT ![config] = Edited(@, kind)]
          /\ UNCHANGED <<config, lock>>
       \/ /\ file' = Append(file, Edited(file[config], kind))
          /\ config' = Len(file) + 1
          /\ lock' = Append(lock, Nobody)
    /\ KeepReceipts /\ UNCHANGED <<op, results, faults, crashes>>

Append_config_alias(p) ==
    \/ Open(p) \/ Lock(p) \/ Compare(p) \/ AppendPart(p) \/ AppendFails(p)
    \/ Rollback(p) \/ Truncate(p) \/ CheckAfter(p)
Run_authority_bootstrap(p) ==
    \/ Start(p) \/ Preserve(p) \/ Begin(p) \/ Guard(p) \/ ReadConfig(p) \/ Identify(p)
    \/ AssumeRole(p) \/ Reread(p) \/ Append_config_alias(p) \/ Verify(p)
    \/ WritePass(p) \/ Report(p)

Next ==
    \/ \E p \in Operators : Run_authority_bootstrap(p) \/ Crash(p)
    \/ \E kind \in {"user", "alien"} : Edit(kind)

Spec == Init /\ [][Next]_vars

-----------------------------------------------------------------------------
Finished(r) == results[r].status # "killed" /\ \A p \in Operators : At(p, "idle") \/ op[p].st.run # r

\* Concurrent bootstraps, killed ones and ones that failed half way never leave
\* the config file with two headers of the deployment profile of their own: the
\* bytes compared under the lock are the bytes the alias was missing from.
OneAliasHeader ==
    Cardinality({i \in 1..Len(file[config]) : file[config][i].kind = "head"}) <= 1

\* A run that ended without being killed says so when bytes of its alias stay in
\* the file (local_profile_state_changed), through every failure of the append
\* and of its rollback.  (About the file of Init; a file an editor made by copying
\* a half appended one and renamed over the path is not the run's to report.)
LeftoverIsReported ==
    \A r \in DOMAIN results :
        Finished(r) /\ (\E i \in 1..Len(file[1]) : file[1][i].by = r)
            => results[r].alias_created

\* One failing local write never leaves a PASS receipt of a run that did not
\* return PASS, the write that replaced the file before it failed included.
PassReceiptIsReturned ==
    receipt # NoReceipt /\ receipt.status = "PASS" /\ Finished(receipt.run) /\ faults <= 1
        => results[receipt.run].status = "PASS"

\* Every path through the handlers produces receipts the module's own validators
\* accept, so a failure is reported under its own reason.
ReceiptsValidate ==
    /\ \A p \in Operators : op[p].pc \in {"pass", "report", "begin"} => ValidPrivate(op[p].st)
    /\ \A r \in DOMAIN results : results[r].valid

\* With one operator at a time the receipt of a run that returned PASS is on disk
\* or among the backups: a later run never destroys the proof of an earlier one.
PassIsPreserved ==
    \A r \in DOMAIN results :
        results[r].status = "PASS" => \E s \in backups \cup {receipt} : s.run = r
=============================================================================
