------------------------- MODULE ProvisioningProofs -------------------------
(***************************************************************************)
(* Proofs about Provisioning, for any number of goroutines, volumes,       *)
(* accounts and parameter classes, and any value of the limits and bounds. *)
(*                                                                         *)
(* The invariant is proved in layers: types and locals, then the keys of   *)
(* volumeLocks, then the accounts, then what is left of a deleted volume,  *)
(* which needs the layer about the keys.                                   *)
(***************************************************************************)
EXTENDS Provisioning, TLAPS

\* Every step keeps the types. It is not inductive alone: an account is added
\* to skipTag or to shares only at steps where LocalsInv says that one was
\* chosen.
LEMMA TypeStep == TypeOK /\ LocalsInv /\ [Next]_vars => TypeOK'
<1> USE NoneAssumption, ParamAssumption
        DEF TypeOK, PCs, Working, CreateSteps, DeleteSteps, Targets, NoTarget,
            VolOf, Goto, Fail, memory, azure, locals, co, hist,
            LocalsInv, AccountSteps, EntrySteps
<1> SUFFICES ASSUME TypeOK, LocalsInv, [Next]_vars PROVE TypeOK'
  OBVIOUS
<1>1. ASSUME NEW p \in Procs, AcquireCreate(p) PROVE TypeOK'
  BY <1>1 DEF AcquireCreate, Acquire, TryAcquire
<1>2. ASSUME NEW p \in Procs, Aborted(p) PROVE TypeOK'
  BY <1>2 DEF Aborted
<1>3. ASSUME NEW p \in Procs, Validate(p) PROVE TypeOK'
  BY <1>3 DEF Validate
<1>4. ASSUME NEW p \in Procs, SearchAccountCache(p) PROVE TypeOK'
  BY <1>4 DEF SearchAccountCache
<1>5. ASSUME NEW p \in Procs, LockEntry(p) PROVE TypeOK'
  BY <1>5 DEF LockEntry
<1>6. ASSUME NEW p \in Procs, EnsureListAccounts(p) PROVE TypeOK'
  BY <1>6 DEF EnsureListAccounts, Matching
<1>7. ASSUME NEW p \in Procs, EnsureCreateAccount(p) PROVE TypeOK'
  BY <1>7 DEF EnsureCreateAccount
<1>8. ASSUME NEW p \in Procs, EnsureFails(p) PROVE TypeOK'
  BY <1>8 DEF EnsureFails
<1>9. ASSUME NEW p \in Procs, UnlockEntry(p) PROVE TypeOK'
  <2>1. CASE account[p] # None
    BY <1>9, <2>1 DEF UnlockEntry
  <2>2. CASE account[p] = None
    BY <1>9, <2>2 DEF UnlockEntry
  <2> QED
    BY <2>1, <2>2
<1>10. ASSUME NEW p \in Procs, CheckAccountQuota(p) PROVE TypeOK'
  BY <1>10 DEF CheckAccountQuota
<1>11. ASSUME NEW p \in Procs, TagOverQuota(p) PROVE TypeOK'
  BY <1>11 DEF TagOverQuota, AddSkipTag
<1>12. ASSUME NEW p \in Procs, RetryOverQuota(p) PROVE TypeOK'
  BY <1>12 DEF RetryOverQuota, ReleaseAndReenter, Release
<1>13. ASSUME NEW p \in Procs, RememberAccount(p) PROVE TypeOK'
  BY <1>13 DEF RememberAccount
<1>14. ASSUME NEW p \in Procs, GetFileShare(p) PROVE TypeOK'
  BY <1>14 DEF GetFileShare
<1>15. ASSUME NEW p \in Procs, CreateFileShare(p) PROVE TypeOK'
  BY <1>15 DEF CreateFileShare
<1>16. ASSUME NEW p \in Procs, AccountLimitExceeded(p) PROVE TypeOK'
  BY <1>16 DEF AccountLimitExceeded
<1>17. ASSUME NEW p \in Procs, TagFullAccount(p) PROVE TypeOK'
  BY <1>17 DEF TagFullAccount, AddSkipTag
<1>18. ASSUME NEW p \in Procs, SetSkipMatchingTagCache(p) PROVE TypeOK'
  BY <1>18 DEF SetSkipMatchingTagCache
<1>19. ASSUME NEW p \in Procs, RetryFullAccount(p) PROVE TypeOK'
  BY <1>19 DEF RetryFullAccount, ReleaseAndReenter, Release
<1>20. ASSUME NEW p \in Procs, ForgetAccount(p) PROVE TypeOK'
  BY <1>20 DEF ForgetAccount
<1>21. ASSUME NEW p \in Procs, Finish(p) PROVE TypeOK'
  BY <1>21 DEF Finish
<1>22. ASSUME NEW p \in Procs, ReturnError(p) PROVE TypeOK'
  BY <1>22 DEF ReturnError
<1>23. ASSUME NEW p \in Procs, AcquireDelete(p) PROVE TypeOK'
  BY <1>23 DEF AcquireDelete, Acquire, TryAcquire
<1>24. ASSUME NEW p \in Procs, DeleteFileShare(p) PROVE TypeOK'
  BY <1>24 DEF DeleteFileShare
<1>25. ASSUME NEW p \in Procs, GetSkipMatchingTagCache(p) PROVE TypeOK'
  BY <1>25 DEF GetSkipMatchingTagCache
<1>26. ASSUME NEW p \in Procs, RemoveStorageAccountTag(p) PROVE TypeOK'
  BY <1>26 DEF RemoveStorageAccountTag
<1>27. ASSUME NEW p \in Procs, SetSkipAfterRemove(p) PROVE TypeOK'
  BY <1>27 DEF SetSkipAfterRemove
<1>28. ASSUME NEW p \in Procs, RunDefer(p) PROVE TypeOK'
  BY <1>28 DEF RunDefer, Release
<1>29. ASSUME NEW p \in Procs, Reply(p) PROVE TypeOK'
  BY <1>29 DEF Reply
<1>30. ASSUME NEW p \in Procs, GiveUp(p) PROVE TypeOK'
  BY <1>30 DEF GiveUp
<1>31. ASSUME NEW p \in Procs, NEW v \in Vols, CallCreate(p, v) PROVE TypeOK'
  BY <1>31 DEF CallCreate
<1>32. ASSUME NEW p \in Procs, NEW v \in Vols, CallDelete(p, v) PROVE TypeOK'
  BY <1>32 DEF CallDelete
<1>33. ASSUME NEW k \in Classes, ExpireSearch(k) PROVE TypeOK'
  BY <1>33 DEF ExpireSearch
<1>34. ASSUME NEW a \in Accounts, ExpireSkip(a) PROVE TypeOK'
  BY <1>34 DEF ExpireSkip
<1>35. CASE Crash
  BY <1>35 DEF Crash
<1>36. CASE UNCHANGED vars
  BY <1>36 DEF vars
<1> QED
  BY <1>1, <1>2, <1>3, <1>4, <1>5, <1>6, <1>7, <1>8, <1>9, <1>10,
     <1>11, <1>12, <1>13, <1>14, <1>15, <1>16, <1>17, <1>18, <1>19, <1>20,
     <1>21, <1>22, <1>23, <1>24, <1>25, <1>26, <1>27, <1>28, <1>29, <1>30,
     <1>31, <1>32, <1>33, <1>34, <1>35, <1>36
  DEF Next, RpcStep, CreateStep, DeleteStep

\* Every step keeps what the steps of an RPC rely on about its locals.
LEMMA LocalsStep == TypeOK /\ LocalsInv /\ [Next]_vars => LocalsInv'
<1> USE NoneAssumption, ParamAssumption
        DEF TypeOK, PCs, Working, CreateSteps, DeleteSteps, Targets, NoTarget,
            VolOf, Goto, Fail, memory, azure, locals, co, hist,
            LocalsInv, AccountSteps, EntrySteps
<1> SUFFICES ASSUME TypeOK, LocalsInv, [Next]_vars PROVE LocalsInv'
  OBVIOUS
<1>1. ASSUME NEW p \in Procs, AcquireCreate(p) PROVE LocalsInv'
  BY <1>1 DEF AcquireCreate, Acquire, TryAcquire
<1>2. ASSUME NEW p \in Procs, Aborted(p) PROVE LocalsInv'
  BY <1>2 DEF Aborted
<1>3. ASSUME NEW p \in Procs, Validate(p) PROVE LocalsInv'
  BY <1>3 DEF Validate
<1>4. ASSUME NEW p \in Procs, SearchAccountCache(p) PROVE LocalsInv'
  BY <1>4 DEF SearchAccountCache
<1>5. ASSUME NEW p \in Procs, LockEntry(p) PROVE LocalsInv'
  BY <1>5 DEF LockEntry
<1>6. ASSUME NEW p \in Procs, EnsureListAccounts(p) PROVE LocalsInv'
  BY <1>6 DEF EnsureListAccounts, Matching
<1>7. ASSUME NEW p \in Procs, EnsureCreateAccount(p) PROVE LocalsInv'
  BY <1>7 DEF EnsureCreateAccount
<1>8. ASSUME NEW p \in Procs, EnsureFails(p) PROVE LocalsInv'
  BY <1>8 DEF EnsureFails
<1>9. ASSUME NEW p \in Procs, UnlockEntry(p) PROVE LocalsInv'
  BY <1>9 DEF UnlockEntry
<1>10. ASSUME NEW p \in Procs, CheckAccountQuota(p) PROVE LocalsInv'
  BY <1>10 DEF CheckAccountQuota
<1>11. ASSUME NEW p \in Procs, TagOverQuota(p) PROVE LocalsInv'
  BY <1>11 DEF TagOverQuota, AddSkipTag
<1>12. ASSUME NEW p \in Procs, RetryOverQuota(p) PROVE LocalsInv'
  BY <1>12 DEF RetryOverQuota, ReleaseAndReenter, Release
<1>13. ASSUME NEW p \in Procs, RememberAccount(p) PROVE LocalsInv'
  BY <1>13 DEF RememberAccount
<1>14. ASSUME NEW p \in Procs, GetFileShare(p) PROVE LocalsInv'
  BY <1>14 DEF GetFileShare
<1>15. ASSUME NEW p \in Procs, CreateFileShare(p) PROVE LocalsInv'
  BY <1>15 DEF CreateFileShare
<1>16. ASSUME NEW p \in Procs, AccountLimitExceeded(p) PROVE LocalsInv'
  BY <1>16 DEF AccountLimitExceeded
<1>17. ASSUME NEW p \in Procs, TagFullAccount(p) PROVE LocalsInv'
  BY <1>17 DEF TagFullAccount, AddSkipTag
<1>18. ASSUME NEW p \in Procs, SetSkipMatchingTagCache(p) PROVE LocalsInv'
  BY <1>18 DEF SetSkipMatchingTagCache
<1>19. ASSUME NEW p \in Procs, RetryFullAccount(p) PROVE LocalsInv'
  BY <1>19 DEF RetryFullAccount, ReleaseAndReenter, Release
<1>20. ASSUME NEW p \in Procs, ForgetAccount(p) PROVE LocalsInv'
  BY <1>20 DEF ForgetAccount
<1>21. ASSUME NEW p \in Procs, Finish(p) PROVE LocalsInv'
  BY <1>21 DEF Finish
<1>22. ASSUME NEW p \in Procs, ReturnError(p) PROVE LocalsInv'
  BY <1>22 DEF ReturnError
<1>23. ASSUME NEW p \in Procs, AcquireDelete(p) PROVE LocalsInv'
  BY <1>23 DEF AcquireDelete, Acquire, TryAcquire
<1>24. ASSUME NEW p \in Procs, DeleteFileShare(p) PROVE LocalsInv'
  BY <1>24 DEF DeleteFileShare
<1>25. ASSUME NEW p \in Procs, GetSkipMatchingTagCache(p) PROVE LocalsInv'
  BY <1>25 DEF GetSkipMatchingTagCache
<1>26. ASSUME NEW p \in Procs, RemoveStorageAccountTag(p) PROVE LocalsInv'
  BY <1>26 DEF RemoveStorageAccountTag
<1>27. ASSUME NEW p \in Procs, SetSkipAfterRemove(p) PROVE LocalsInv'
  BY <1>27 DEF SetSkipAfterRemove
<1>28. ASSUME NEW p \in Procs, RunDefer(p) PROVE LocalsInv'
  BY <1>28 DEF RunDefer, Release
<1>29. ASSUME NEW p \in Procs, Reply(p) PROVE LocalsInv'
  BY <1>29 DEF Reply
<1>30. ASSUME NEW p \in Procs, GiveUp(p) PROVE LocalsInv'
  BY <1>30 DEF GiveUp
<1>31. ASSUME NEW p \in Procs, NEW v \in Vols, CallCreate(p, v) PROVE LocalsInv'
  BY <1>31 DEF CallCreate
<1>32. ASSUME NEW p \in Procs, NEW v \in Vols, CallDelete(p, v) PROVE LocalsInv'
  BY <1>32 DEF CallDelete
<1>33. ASSUME NEW k \in Classes, ExpireSearch(k) PROVE LocalsInv'
  BY <1>33 DEF ExpireSearch
<1>34. ASSUME NEW a \in Accounts, ExpireSkip(a) PROVE LocalsInv'
  BY <1>34 DEF ExpireSkip
<1>35. CASE Crash
  BY <1>35 DEF Crash
<1>36. CASE UNCHANGED vars
  BY <1>36 DEF vars
<1> QED
  BY <1>1, <1>2, <1>3, <1>4, <1>5, <1>6, <1>7, <1>8, <1>9, <1>10,
     <1>11, <1>12, <1>13, <1>14, <1>15, <1>16, <1>17, <1>18, <1>19, <1>20,
     <1>21, <1>22, <1>23, <1>24, <1>25, <1>26, <1>27, <1>28, <1>29, <1>30,
     <1>31, <1>32, <1>33, <1>34, <1>35, <1>36
  DEF Next, RpcStep, CreateStep, DeleteStep

\* Every step keeps the keys of volumeLocks backed by deferred Releases. The
\* steps that matter are TryAcquire, the explicit Release of a CreateVolume
\* that calls itself, the deferred Release, and a crash.
LEMMA LockStep == TypeOK /\ LocalsInv /\ LockInv /\ [Next]_vars => LockInv'
<1> USE NoneAssumption, ParamAssumption, BoundAssumption
        DEF TypeOK, PCs, Working, CreateSteps, DeleteSteps, Targets, NoTarget,
            VolOf, Goto, Fail, memory, azure, locals, co, hist,
            LocalsInv, AccountSteps, EntrySteps,
            LockInv, NoOrphanLock, Operating, Once
<1> SUFFICES ASSUME TypeOK, LocalsInv, LockInv, [Next]_vars PROVE LockInv'
  OBVIOUS
<1>1. ASSUME NEW p \in Procs, AcquireCreate(p) PROVE LockInv'
  BY <1>1 DEF AcquireCreate, Acquire, TryAcquire
<1>2. ASSUME NEW p \in Procs, Aborted(p) PROVE LockInv'
  BY <1>2 DEF Aborted
<1>3. ASSUME NEW p \in Procs, Validate(p) PROVE LockInv'
  BY <1>3 DEF Validate
<1>4. ASSUME NEW p \in Procs, SearchAccountCache(p) PROVE LockInv'
  BY <1>4 DEF SearchAccountCache
<1>5. ASSUME NEW p \in Procs, LockEntry(p) PROVE LockInv'
  BY <1>5 DEF LockEntry
<1>6. ASSUME NEW p \in Procs, EnsureListAccounts(p) PROVE LockInv'
  BY <1>6 DEF EnsureListAccounts, Matching
<1>7. ASSUME NEW p \in Procs, EnsureCreateAccount(p) PROVE LockInv'
  BY <1>7 DEF EnsureCreateAccount
<1>8. ASSUME NEW p \in Procs, EnsureFails(p) PROVE LockInv'
  BY <1>8 DEF EnsureFails
<1>9. ASSUME NEW p \in Procs, UnlockEntry(p) PROVE LockInv'
  BY <1>9 DEF UnlockEntry
<1>10. ASSUME NEW p \in Procs, CheckAccountQuota(p) PROVE LockInv'
  BY <1>10 DEF CheckAccountQuota
<1>11. ASSUME NEW p \in Procs, TagOverQuota(p) PROVE LockInv'
  BY <1>11 DEF TagOverQuota, AddSkipTag
<1>12. ASSUME NEW p \in Procs, RetryOverQuota(p) PROVE LockInv'
  BY <1>12 DEF RetryOverQuota, ReleaseAndReenter, Release
<1>13. ASSUME NEW p \in Procs, RememberAccount(p) PROVE LockInv'
  BY <1>13 DEF RememberAccount
<1>14. ASSUME NEW p \in Procs, GetFileShare(p) PROVE LockInv'
  BY <1>14 DEF GetFileShare
<1>15. ASSUME NEW p \in Procs, CreateFileShare(p) PROVE LockInv'
  BY <1>15 DEF CreateFileShare
<1>16. ASSUME NEW p \in Procs, AccountLimitExceeded(p) PROVE LockInv'
  BY <1>16 DEF AccountLimitExceeded
<1>17. ASSUME NEW p \in Procs, TagFullAccount(p) PROVE LockInv'
  BY <1>17 DEF TagFullAccount, AddSkipTag
<1>18. ASSUME NEW p \in Procs, SetSkipMatchingTagCache(p) PROVE LockInv'
  BY <1>18 DEF SetSkipMatchingTagCache
<1>19. ASSUME NEW p \in Procs, RetryFullAccount(p) PROVE LockInv'
  BY <1>19 DEF RetryFullAccount, ReleaseAndReenter, Release
<1>20. ASSUME NEW p \in Procs, ForgetAccount(p) PROVE LockInv'
  BY <1>20 DEF ForgetAccount
<1>21. ASSUME NEW p \in Procs, Finish(p) PROVE LockInv'
  BY <1>21 DEF Finish
<1>22. ASSUME NEW p \in Procs, ReturnError(p) PROVE LockInv'
  BY <1>22 DEF ReturnError
<1>23. ASSUME NEW p \in Procs, AcquireDelete(p) PROVE LockInv'
  BY <1>23 DEF AcquireDelete, Acquire, TryAcquire
<1>24. ASSUME NEW p \in Procs, DeleteFileShare(p) PROVE LockInv'
  BY <1>24 DEF DeleteFileShare
<1>25. ASSUME NEW p \in Procs, GetSkipMatchingTagCache(p) PROVE LockInv'
  BY <1>25 DEF GetSkipMatchingTagCache
<1>26. ASSUME NEW p \in Procs, RemoveStorageAccountTag(p) PROVE LockInv'
  BY <1>26 DEF RemoveStorageAccountTag
<1>27. ASSUME NEW p \in Procs, SetSkipAfterRemove(p) PROVE LockInv'
  BY <1>27 DEF SetSkipAfterRemove
<1>28. ASSUME NEW p \in Procs, RunDefer(p) PROVE LockInv'
  BY <1>28 DEF RunDefer, Release
<1>29. ASSUME NEW p \in Procs, Reply(p) PROVE LockInv'
  BY <1>29 DEF Reply
<1>30. ASSUME NEW p \in Procs, GiveUp(p) PROVE LockInv'
  BY <1>30 DEF GiveUp
<1>31. ASSUME NEW p \in Procs, NEW v \in Vols, CallCreate(p, v) PROVE LockInv'
  BY <1>31 DEF CallCreate
<1>32. ASSUME NEW p \in Procs, NEW v \in Vols, CallDelete(p, v) PROVE LockInv'
  BY <1>32 DEF CallDelete
<1>33. ASSUME NEW k \in Classes, ExpireSearch(k) PROVE LockInv'
  BY <1>33 DEF ExpireSearch
<1>34. ASSUME NEW a \in Accounts, ExpireSkip(a) PROVE LockInv'
  BY <1>34 DEF ExpireSkip
<1>35. CASE Crash
  BY <1>35 DEF Crash
<1>36. CASE UNCHANGED vars
  BY <1>36 DEF vars
<1> QED
  BY <1>1, <1>2, <1>3, <1>4, <1>5, <1>6, <1>7, <1>8, <1>9, <1>10,
     <1>11, <1>12, <1>13, <1>14, <1>15, <1>16, <1>17, <1>18, <1>19, <1>20,
     <1>21, <1>22, <1>23, <1>24, <1>25, <1>26, <1>27, <1>28, <1>29, <1>30,
     <1>31, <1>32, <1>33, <1>34, <1>35, <1>36
  DEF Next, RpcStep, CreateStep, DeleteStep

\* Every step keeps the accounts of a class in order: an account is created
\* under the mutex of its class, when the list taken under that mutex had no
\* account left to use.
LEMMA AccountStep == TypeOK /\ LocalsInv /\ AccountInv /\ [Next]_vars => AccountInv'
<1> USE NoneAssumption, ParamAssumption
        DEF TypeOK, PCs, Working, CreateSteps, DeleteSteps, Targets, NoTarget,
            VolOf, Goto, Fail, memory, azure, locals, co, hist,
            LocalsInv, AccountSteps, EntrySteps,
            AccountInv, MutexIsInUse, OneFreshAccountPerClass
<1> SUFFICES ASSUME TypeOK, LocalsInv, AccountInv, [Next]_vars PROVE AccountInv'
  OBVIOUS
<1>1. ASSUME NEW p \in Procs, AcquireCreate(p) PROVE AccountInv'
  BY <1>1 DEF AcquireCreate, Acquire, TryAcquire
<1>2. ASSUME NEW p \in Procs, Aborted(p) PROVE AccountInv'
  BY <1>2 DEF Aborted
<1>3. ASSUME NEW p \in Procs, Validate(p) PROVE AccountInv'
  BY <1>3 DEF Validate
<1>4. ASSUME NEW p \in Procs, SearchAccountCache(p) PROVE AccountInv'
  BY <1>4 DEF SearchAccountCache
<1>5. ASSUME NEW p \in Procs, LockEntry(p) PROVE AccountInv'
  BY <1>5 DEF LockEntry
<1>6. ASSUME NEW p \in Procs, EnsureListAccounts(p) PROVE AccountInv'
  <2>1. CASE pc'[p] = "unlockEntry"
    BY <1>6, <2>1 DEF EnsureListAccounts, Matching
  <2>2. CASE pc'[p] = "newAccount"
    BY <1>6, <2>2 DEF EnsureListAccounts, Matching
  <2> QED
    BY <1>6, <2>1, <2>2 DEF EnsureListAccounts
<1>7. ASSUME NEW p \in Procs, EnsureCreateAccount(p) PROVE AccountInv'
  BY <1>7 DEF EnsureCreateAccount
<1>8. ASSUME NEW p \in Procs, EnsureFails(p) PROVE AccountInv'
  BY <1>8 DEF EnsureFails
<1>9. ASSUME NEW p \in Procs, UnlockEntry(p) PROVE AccountInv'
  <2>1. /\ pc[p] = "unlockEntry" /\ UNCHANGED <<azure, target, lockKey, hist>>
        /\ volLockMap' = [volLockMap EXCEPT ![lockKey[p]] = None]
    BY <1>9 DEF UnlockEntry
  <2>2. \E to \in {"quota", "remember", "return"} : pc' = [pc EXCEPT ![p] = to]
    BY <1>9 DEF UnlockEntry
  <2> QED
    BY <2>1, <2>2
<1>10. ASSUME NEW p \in Procs, CheckAccountQuota(p) PROVE AccountInv'
  BY <1>10 DEF CheckAccountQuota
<1>11. ASSUME NEW p \in Procs, TagOverQuota(p) PROVE AccountInv'
  BY <1>11 DEF TagOverQuota, AddSkipTag
<1>12. ASSUME NEW p \in Procs, RetryOverQuota(p) PROVE AccountInv'
  BY <1>12 DEF RetryOverQuota, ReleaseAndReenter, Release
<1>13. ASSUME NEW p \in Procs, RememberAccount(p) PROVE AccountInv'
  BY <1>13 DEF RememberAccount
<1>14. ASSUME NEW p \in Procs, GetFileShare(p) PROVE AccountInv'
  BY <1>14 DEF GetFileShare
<1>15. ASSUME NEW p \in Procs, CreateFileShare(p) PROVE AccountInv'
  BY <1>15 DEF CreateFileShare
<1>16. ASSUME NEW p \in Procs, AccountLimitExceeded(p) PROVE AccountInv'
  BY <1>16 DEF AccountLimitExceeded
<1>17. ASSUME NEW p \in Procs, TagFullAccount(p) PROVE AccountInv'
  BY <1>17 DEF TagFullAccount, AddSkipTag
<1>18. ASSUME NEW p \in Procs, SetSkipMatchingTagCache(p) PROVE AccountInv'
  BY <1>18 DEF SetSkipMatchingTagCache
<1>19. ASSUME NEW p \in Procs, RetryFullAccount(p) PROVE AccountInv'
  BY <1>19 DEF RetryFullAccount, ReleaseAndReenter, Release
<1>20. ASSUME NEW p \in Procs, ForgetAccount(p) PROVE AccountInv'
  BY <1>20 DEF ForgetAccount
<1>21. ASSUME NEW p \in Procs, Finish(p) PROVE AccountInv'
  BY <1>21 DEF Finish
<1>22. ASSUME NEW p \in Procs, ReturnError(p) PROVE AccountInv'
  BY <1>22 DEF ReturnError
<1>23. ASSUME NEW p \in Procs, AcquireDelete(p) PROVE AccountInv'
  BY <1>23 DEF AcquireDelete, Acquire, TryAcquire
<1>24. ASSUME NEW p \in Procs, DeleteFileShare(p) PROVE AccountInv'
  BY <1>24 DEF DeleteFileShare
<1>25. ASSUME NEW p \in Procs, GetSkipMatchingTagCache(p) PROVE AccountInv'
  BY <1>25 DEF GetSkipMatchingTagCache
<1>26. ASSUME NEW p \in Procs, RemoveStorageAccountTag(p) PROVE AccountInv'
  BY <1>26 DEF RemoveStorageAccountTag
<1>27. ASSUME NEW p \in Procs, SetSkipAfterRemove(p) PROVE AccountInv'
  BY <1>27 DEF SetSkipAfterRemove
<1>28. ASSUME NEW p \in Procs, RunDefer(p) PROVE AccountInv'
  BY <1>28 DEF RunDefer, Release
<1>29. ASSUME NEW p \in Procs, Reply(p) PROVE AccountInv'
  BY <1>29 DEF Reply
<1>30. ASSUME NEW p \in Procs, GiveUp(p) PROVE AccountInv'
  BY <1>30 DEF GiveUp
<1>31. ASSUME NEW p \in Procs, NEW v \in Vols, CallCreate(p, v) PROVE AccountInv'
  BY <1>31 DEF CallCreate
<1>32. ASSUME NEW p \in Procs, NEW v \in Vols, CallDelete(p, v) PROVE AccountInv'
  BY <1>32 DEF CallDelete
<1>33. ASSUME NEW k \in Classes, ExpireSearch(k) PROVE AccountInv'
  BY <1>33 DEF ExpireSearch
<1>34. ASSUME NEW a \in Accounts, ExpireSkip(a) PROVE AccountInv'
  BY <1>34 DEF ExpireSkip
<1>35. CASE Crash
  BY <1>35 DEF Crash
<1>36. CASE UNCHANGED vars
  BY <1>36 DEF vars
<1> QED
  BY <1>1, <1>2, <1>3, <1>4, <1>5, <1>6, <1>7, <1>8, <1>9, <1>10,
     <1>11, <1>12, <1>13, <1>14, <1>15, <1>16, <1>17, <1>18, <1>19, <1>20,
     <1>21, <1>22, <1>23, <1>24, <1>25, <1>26, <1>27, <1>28, <1>29, <1>30,
     <1>31, <1>32, <1>33, <1>34, <1>35, <1>36
  DEF Next, RpcStep, CreateStep, DeleteStep

\* Every step keeps a volume pinned to its account. volMap of a volume changes
\* while one call operates on it, LockInv says, and that call found it empty.
LEMMA PinStep == TypeOK /\ LocalsInv /\ LockInv /\ PinInv /\ [Next]_vars => PinInv'
<1> USE NoneAssumption, ParamAssumption
        DEF TypeOK, PCs, Working, CreateSteps, DeleteSteps, Targets, NoTarget,
            VolOf, Goto, Fail, memory, azure, locals, co, hist,
            LocalsInv, AccountSteps, EntrySteps,
            LockInv, Operating, Once, PinInv, Pin, SearchSteps, UseSteps
<1> SUFFICES ASSUME TypeOK, LocalsInv, LockInv, PinInv, [Next]_vars PROVE PinInv'
  OBVIOUS
<1>1. ASSUME NEW p \in Procs, AcquireCreate(p) PROVE PinInv'
  BY <1>1 DEF AcquireCreate, Acquire, TryAcquire
<1>2. ASSUME NEW p \in Procs, Aborted(p) PROVE PinInv'
  BY <1>2 DEF Aborted
<1>3. ASSUME NEW p \in Procs, Validate(p) PROVE PinInv'
  BY <1>3 DEF Validate
<1>4. ASSUME NEW p \in Procs, SearchAccountCache(p) PROVE PinInv'
  BY <1>4 DEF SearchAccountCache
<1>5. ASSUME NEW p \in Procs, LockEntry(p) PROVE PinInv'
  BY <1>5 DEF LockEntry
<1>6. ASSUME NEW p \in Procs, EnsureListAccounts(p) PROVE PinInv'
  BY <1>6 DEF EnsureListAccounts, Matching
<1>7. ASSUME NEW p \in Procs, EnsureCreateAccount(p) PROVE PinInv'
  BY <1>7 DEF EnsureCreateAccount
<1>8. ASSUME NEW p \in Procs, EnsureFails(p) PROVE PinInv'
  BY <1>8 DEF EnsureFails
<1>9. ASSUME NEW p \in Procs, UnlockEntry(p) PROVE PinInv'
  BY <1>9 DEF UnlockEntry
<1>10. ASSUME NEW p \in Procs, CheckAccountQuota(p) PROVE PinInv'
  BY <1>10 DEF CheckAccountQuota
<1>11. ASSUME NEW p \in Procs, TagOverQuota(p) PROVE PinInv'
  BY <1>11 DEF TagOverQuota, AddSkipTag
<1>12. ASSUME NEW p \in Procs, RetryOverQuota(p) PROVE PinInv'
  BY <1>12 DEF RetryOverQuota, ReleaseAndReenter, Release
<1>13. ASSUME NEW p \in Procs, RememberAccount(p) PROVE PinInv'
  <2>1. pc[p] = "remember" /\ target[p][2] = None /\ account[p] \in Accounts
    BY <1>13 DEF RememberAccount
  <2>2. ASSUME NEW q \in Procs, q # p, target[q] = target[p], VolOf(p) \notin reentered
        PROVE pc[q] \notin SearchSteps \cup UseSteps
    BY <2>1, <2>2
  <2>3. \A q \in Procs : pc[q] # "idle" /\ target[q][2] = None /\ VolOf(q) = VolOf(p)
                          => target[q] = target[p]
    BY <2>1
  <2>4. ASSUME NEW v \in Vols \ (unpinned \cup reentered), NEW a \in Accounts, <<a, v>> \in shares
        PROVE a = Pin(v)'
    <3>1. a = Pin(v)
      BY <2>4
    <3>2. v # VolOf(p)
      BY <3>1, <2>1
    <3> QED
      BY <3>1, <3>2, <1>13 DEF RememberAccount
  <2>5. ASSUME NEW q \in Procs, pc'[q] # "idle", target[q][2] = None,
               VolOf(q) \notin unpinned \cup reentered
        PROVE /\ pc'[q] \in SearchSteps => Pin(VolOf(q))' = None
              /\ pc'[q] \in UseSteps => account[q] = Pin(VolOf(q))'
    <3>1. CASE q = p
      BY <3>1, <2>1, <2>5, <1>13 DEF RememberAccount
    <3>2. CASE q # p /\ VolOf(q) = VolOf(p)
      <4>1. pc'[q] = pc[q]
        BY <3>2, <1>13 DEF RememberAccount
      <4>2. pc[q] \notin SearchSteps \cup UseSteps
        BY <4>1, <3>2, <2>1, <2>2, <2>3, <2>5
      <4> QED
        BY <4>1, <4>2
    <3>3. CASE q # p /\ VolOf(q) # VolOf(p)
      BY <3>3, <2>5, <1>13 DEF RememberAccount
    <3> QED
      BY <3>1, <3>2, <3>3
  <2>6. shares' = shares /\ unpinned' = unpinned /\ reentered' = reentered
        /\ target' = target /\ account' = account
    BY <1>13 DEF RememberAccount
  <2> QED
    BY <2>4, <2>5, <2>6
<1>14. ASSUME NEW p \in Procs, GetFileShare(p) PROVE PinInv'
  BY <1>14 DEF GetFileShare
<1>15. ASSUME NEW p \in Procs, CreateFileShare(p) PROVE PinInv'
  BY <1>15 DEF CreateFileShare
<1>16. ASSUME NEW p \in Procs, AccountLimitExceeded(p) PROVE PinInv'
  BY <1>16 DEF AccountLimitExceeded
<1>17. ASSUME NEW p \in Procs, TagFullAccount(p) PROVE PinInv'
  BY <1>17 DEF TagFullAccount, AddSkipTag
<1>18. ASSUME NEW p \in Procs, SetSkipMatchingTagCache(p) PROVE PinInv'
  BY <1>18 DEF SetSkipMatchingTagCache
<1>19. ASSUME NEW p \in Procs, RetryFullAccount(p) PROVE PinInv'
  BY <1>19 DEF RetryFullAccount, ReleaseAndReenter, Release
<1>20. ASSUME NEW p \in Procs, ForgetAccount(p) PROVE PinInv'
  BY <1>20 DEF ForgetAccount
<1>21. ASSUME NEW p \in Procs, Finish(p) PROVE PinInv'
  BY <1>21 DEF Finish
<1>22. ASSUME NEW p \in Procs, ReturnError(p) PROVE PinInv'
  BY <1>22 DEF ReturnError
<1>23. ASSUME NEW p \in Procs, AcquireDelete(p) PROVE PinInv'
  BY <1>23 DEF AcquireDelete, Acquire, TryAcquire
<1>24. ASSUME NEW p \in Procs, DeleteFileShare(p) PROVE PinInv'
  BY <1>24 DEF DeleteFileShare
<1>25. ASSUME NEW p \in Procs, GetSkipMatchingTagCache(p) PROVE PinInv'
  BY <1>25 DEF GetSkipMatchingTagCache
<1>26. ASSUME NEW p \in Procs, RemoveStorageAccountTag(p) PROVE PinInv'
  BY <1>26 DEF RemoveStorageAccountTag
<1>27. ASSUME NEW p \in Procs, SetSkipAfterRemove(p) PROVE PinInv'
  BY <1>27 DEF SetSkipAfterRemove
<1>28. ASSUME NEW p \in Procs, RunDefer(p) PROVE PinInv'
  BY <1>28 DEF RunDefer, Release
<1>29. ASSUME NEW p \in Procs, Reply(p) PROVE PinInv'
  BY <1>29 DEF Reply
<1>30. ASSUME NEW p \in Procs, GiveUp(p) PROVE PinInv'
  BY <1>30 DEF GiveUp
<1>31. ASSUME NEW p \in Procs, NEW v \in Vols, CallCreate(p, v) PROVE PinInv'
  BY <1>31 DEF CallCreate
<1>32. ASSUME NEW p \in Procs, NEW v \in Vols, CallDelete(p, v) PROVE PinInv'
  BY <1>32 DEF CallDelete
<1>33. ASSUME NEW k \in Classes, ExpireSearch(k) PROVE PinInv'
  BY <1>33 DEF ExpireSearch
<1>34. ASSUME NEW a \in Accounts, ExpireSkip(a) PROVE PinInv'
  BY <1>34 DEF ExpireSkip
<1>35. CASE Crash
  BY <1>35 DEF Crash
<1>36. CASE UNCHANGED vars
  BY <1>36 DEF vars
<1> QED
  BY <1>1, <1>2, <1>3, <1>4, <1>5, <1>6, <1>7, <1>8, <1>9, <1>10,
     <1>11, <1>12, <1>13, <1>14, <1>15, <1>16, <1>17, <1>18, <1>19, <1>20,
     <1>21, <1>22, <1>23, <1>24, <1>25, <1>26, <1>27, <1>28, <1>29, <1>30,
     <1>31, <1>32, <1>33, <1>34, <1>35, <1>36
  DEF Next, RpcStep, CreateStep, DeleteStep

\* Every step keeps a deleted share deleted. A create request for the share
\* of v is sent only by the call the CO waits for; when that call has
\* succeeded, LockInv says that no other call operates on v, and a call the
\* CO has given up on gets no further than GetFileShare.
LEMMA DeletedStep == TypeOK /\ LocalsInv /\ LockInv /\ DeleteInv /\ [Next]_vars => DeleteInv'
<1> USE NoneAssumption, ParamAssumption
        DEF TypeOK, PCs, Working, CreateSteps, DeleteSteps, Targets, NoTarget,
            VolOf, Goto, Fail, memory, azure, locals, co, hist,
            LocalsInv, AccountSteps, EntrySteps,
            LockInv, Operating, Once, DeleteInv, DeletedStaysDeleted, OneLiveCall,
            NoRivalCreate, ProvisionedIsQuiet, DeleteTargetsPv, ShareIsGone, Live, Outstanding
<1> SUFFICES ASSUME TypeOK, LocalsInv, LockInv, DeleteInv, [Next]_vars PROVE DeleteInv'
  OBVIOUS
<1>1. ASSUME NEW p \in Procs, AcquireCreate(p) PROVE DeleteInv'
  BY <1>1 DEF AcquireCreate, Acquire, TryAcquire
<1>2. ASSUME NEW p \in Procs, Aborted(p) PROVE DeleteInv'
  BY <1>2 DEF Aborted
<1>3. ASSUME NEW p \in Procs, Validate(p) PROVE DeleteInv'
  BY <1>3 DEF Validate
<1>4. ASSUME NEW p \in Procs, SearchAccountCache(p) PROVE DeleteInv'
  BY <1>4 DEF SearchAccountCache
<1>5. ASSUME NEW p \in Procs, LockEntry(p) PROVE DeleteInv'
  BY <1>5 DEF LockEntry
<1>6. ASSUME NEW p \in Procs, EnsureListAccounts(p) PROVE DeleteInv'
  <2>1. DeletedStaysDeleted'
    BY <1>6 DEF EnsureListAccounts
  <2>2. OneLiveCall'
    BY <1>6 DEF EnsureListAccounts
  <2>3. NoRivalCreate'
    BY <1>6 DEF EnsureListAccounts
  <2>4. ProvisionedIsQuiet'
    BY <1>6 DEF EnsureListAccounts
  <2>5. DeleteTargetsPv'
    BY <1>6 DEF EnsureListAccounts
  <2>6. ShareIsGone'
    BY <1>6 DEF EnsureListAccounts
  <2>7. \A v \in deleted' : pv'[v] # None
    BY <1>6 DEF EnsureListAccounts
  <2> QED
    BY <2>1, <2>2, <2>3, <2>4, <2>5, <2>6, <2>7
<1>7. ASSUME NEW p \in Procs, EnsureCreateAccount(p) PROVE DeleteInv'
  <2>1. DeletedStaysDeleted'
    BY <1>7 DEF EnsureCreateAccount
  <2>2. OneLiveCall'
    BY <1>7 DEF EnsureCreateAccount
  <2>3. NoRivalCreate'
    BY <1>7 DEF EnsureCreateAccount
  <2>4. ProvisionedIsQuiet'
    BY <1>7 DEF EnsureCreateAccount
  <2>5. DeleteTargetsPv'
    BY <1>7 DEF EnsureCreateAccount
  <2>6. ShareIsGone'
    BY <1>7 DEF EnsureCreateAccount
  <2>7. \A v \in deleted' : pv'[v] # None
    BY <1>7 DEF EnsureCreateAccount
  <2> QED
    BY <2>1, <2>2, <2>3, <2>4, <2>5, <2>6, <2>7
<1>8. ASSUME NEW p \in Procs, EnsureFails(p) PROVE DeleteInv'
  <2>1. DeletedStaysDeleted'
    BY <1>8 DEF EnsureFails
  <2>2. OneLiveCall'
    BY <1>8 DEF EnsureFails
  <2>3. NoRivalCreate'
    BY <1>8 DEF EnsureFails
  <2>4. ProvisionedIsQuiet'
    BY <1>8 DEF EnsureFails
  <2>5. DeleteTargetsPv'
    BY <1>8 DEF EnsureFails
  <2>6. ShareIsGone'
    BY <1>8 DEF EnsureFails
  <2>7. \A v \in deleted' : pv'[v] # None
    BY <1>8 DEF EnsureFails
  <2> QED
    BY <2>1, <2>2, <2>3, <2>4, <2>5, <2>6, <2>7
<1>9. ASSUME NEW p \in Procs, UnlockEntry(p) PROVE DeleteInv'
  <2>1. DeletedStaysDeleted'
    BY <1>9 DEF UnlockEntry
  <2>2. OneLiveCall'
    BY <1>9 DEF UnlockEntry
  <2>3. NoRivalCreate'
    BY <1>9 DEF UnlockEntry
  <2>4. ProvisionedIsQuiet'
    BY <1>9 DEF UnlockEntry
  <2>5. DeleteTargetsPv'
    BY <1>9 DEF UnlockEntry
  <2>6. ShareIsGone'
    BY <1>9 DEF UnlockEntry
  <2>7. \A v \in deleted' : pv'[v] # None
    BY <1>9 DEF UnlockEntry
  <2> QED
    BY <2>1, <2>2, <2>3, <2>4, <2>5, <2>6, <2>7
<1>10. ASSUME NEW p \in Procs, CheckAccountQuota(p) PROVE DeleteInv'
  BY <1>10 DEF CheckAccountQuota
<1>11. ASSUME NEW p \in Procs, TagOverQuota(p) PROVE DeleteInv'
  BY <1>11 DEF TagOverQuota, AddSkipTag
<1>12. ASSUME NEW p \in Procs, RetryOverQuota(p) PROVE DeleteInv'
  BY <1>12 DEF RetryOverQuota, ReleaseAndReenter, Release
<1>13. ASSUME NEW p \in Procs, RememberAccount(p) PROVE DeleteInv'
  BY <1>13 DEF RememberAccount
<1>14. ASSUME NEW p \in Procs, GetFileShare(p) PROVE DeleteInv'
  BY <1>14 DEF GetFileShare
<1>15. ASSUME NEW p \in Procs, CreateFileShare(p) PROVE DeleteInv'
  <2>1. DeletedStaysDeleted'
    BY <1>15 DEF CreateFileShare
  <2>2. OneLiveCall'
    BY <1>15 DEF CreateFileShare
  <2>3. NoRivalCreate'
    BY <1>15 DEF CreateFileShare
  <2>4. ProvisionedIsQuiet'
    BY <1>15 DEF CreateFileShare
  <2>5. DeleteTargetsPv'
    BY <1>15 DEF CreateFileShare
  <2>6. ShareIsGone'
    BY <1>15 DEF CreateFileShare
  <2>7. \A v \in deleted' : pv'[v] # None
    BY <1>15 DEF CreateFileShare
  <2> QED
    BY <2>1, <2>2, <2>3, <2>4, <2>5, <2>6, <2>7
<1>16. ASSUME NEW p \in Procs, AccountLimitExceeded(p) PROVE DeleteInv'
  <2>1. CASE AccountParam[VolOf(p)] # None
    <3>1. pc' = [pc EXCEPT ![p] = "return"] /\ reply' = [reply EXCEPT ![p] = "err"]
      BY <1>16, <2>1 DEF AccountLimitExceeded
    <3>2. UNCHANGED <<target, cancelled, pv, deleted, reentered, shares>>
      BY <1>16 DEF AccountLimitExceeded
    <3>3. DeletedStaysDeleted' /\ OneLiveCall' /\ DeleteTargetsPv' /\ \A v \in deleted' : pv'[v] # None
      BY <3>1, <3>2, <1>16 DEF AccountLimitExceeded
    <3>4. NoRivalCreate'
      <4>1. \A q \in Procs : q # p => pc'[q] = pc[q] /\ reply'[q] = reply[q]
        BY <3>1
      <4>2. pc'[p] = "return" /\ reply'[p] = "err"
        BY <3>1
      <4> QED
        BY <3>2, <4>1, <4>2
    <3>6. ProvisionedIsQuiet'
      BY <3>1, <3>2, <1>16 DEF AccountLimitExceeded
    <3>5. ShareIsGone'
      BY <3>1, <3>2
    <3> QED
      BY <3>3, <3>4, <3>5, <3>6
  <2>2. CASE AccountParam[VolOf(p)] = None
    BY <1>16, <2>2 DEF AccountLimitExceeded
  <2> QED
    BY <1>16, <2>1, <2>2 DEF AccountLimitExceeded
<1>17. ASSUME NEW p \in Procs, TagFullAccount(p) PROVE DeleteInv'
  BY <1>17 DEF TagFullAccount, AddSkipTag
<1>18. ASSUME NEW p \in Procs, SetSkipMatchingTagCache(p) PROVE DeleteInv'
  BY <1>18 DEF SetSkipMatchingTagCache
<1>19. ASSUME NEW p \in Procs, RetryFullAccount(p) PROVE DeleteInv'
  BY <1>19 DEF RetryFullAccount, ReleaseAndReenter, Release
<1>20. ASSUME NEW p \in Procs, ForgetAccount(p) PROVE DeleteInv'
  BY <1>20 DEF ForgetAccount
<1>21. ASSUME NEW p \in Procs, Finish(p) PROVE DeleteInv'
  BY <1>21 DEF Finish
<1>22. ASSUME NEW p \in Procs, ReturnError(p) PROVE DeleteInv'
  BY <1>22 DEF ReturnError
<1>23. ASSUME NEW p \in Procs, AcquireDelete(p) PROVE DeleteInv'
  BY <1>23 DEF AcquireDelete, Acquire, TryAcquire
<1>24. ASSUME NEW p \in Procs, DeleteFileShare(p) PROVE DeleteInv'
  <2>1. DeletedStaysDeleted'
    BY <1>24 DEF DeleteFileShare
  <2>2. OneLiveCall'
    BY <1>24 DEF DeleteFileShare
  <2>3. NoRivalCreate'
    BY <1>24 DEF DeleteFileShare
  <2>4. ProvisionedIsQuiet'
    BY <1>24 DEF DeleteFileShare
  <2>5. DeleteTargetsPv'
    BY <1>24 DEF DeleteFileShare
  <2>6. ShareIsGone'
    BY <1>24 DEF DeleteFileShare
  <2>7. \A v \in deleted' : pv'[v] # None
    BY <1>24 DEF DeleteFileShare
  <2> QED
    BY <2>1, <2>2, <2>3, <2>4, <2>5, <2>6, <2>7
<1>25. ASSUME NEW p \in Procs, GetSkipMatchingTagCache(p) PROVE DeleteInv'
  <2>1. DeletedStaysDeleted'
    BY <1>25 DEF GetSkipMatchingTagCache
  <2>2. OneLiveCall'
    BY <1>25 DEF GetSkipMatchingTagCache
  <2>3. NoRivalCreate'
    BY <1>25 DEF GetSkipMatchingTagCache
  <2>4. ProvisionedIsQuiet'
    BY <1>25 DEF GetSkipMatchingTagCache
  <2>5. DeleteTargetsPv'
    BY <1>25 DEF GetSkipMatchingTagCache
  <2>6. ShareIsGone'
    BY <1>25 DEF GetSkipMatchingTagCache
  <2>7. \A v \in deleted' : pv'[v] # None
    BY <1>25 DEF GetSkipMatchingTagCache
  <2> QED
    BY <2>1, <2>2, <2>3, <2>4, <2>5, <2>6, <2>7
<1>26. ASSUME NEW p \in Procs, RemoveStorageAccountTag(p) PROVE DeleteInv'
  BY <1>26 DEF RemoveStorageAccountTag
<1>27. ASSUME NEW p \in Procs, SetSkipAfterRemove(p) PROVE DeleteInv'
  BY <1>27 DEF SetSkipAfterRemove
<1>28. ASSUME NEW p \in Procs, RunDefer(p) PROVE DeleteInv'
  BY <1>28 DEF RunDefer, Release
<1>29. ASSUME NEW p \in Procs, Reply(p) PROVE DeleteInv'
  <2>1. DeletedStaysDeleted'
    BY <1>29 DEF Reply
  <2>2. OneLiveCall'
    BY <1>29 DEF Reply
  <2>3. NoRivalCreate'
    BY <1>29 DEF Reply
  <2>4. ProvisionedIsQuiet'
    BY <1>29 DEF Reply
  <2>5. DeleteTargetsPv'
    BY <1>29 DEF Reply
  <2>6. ShareIsGone'
    BY <1>29 DEF Reply
  <2>7. \A v \in deleted' : pv'[v] # None
    BY <1>29 DEF Reply
  <2> QED
    BY <2>1, <2>2, <2>3, <2>4, <2>5, <2>6, <2>7
<1>30. ASSUME NEW p \in Procs, GiveUp(p) PROVE DeleteInv'
  BY <1>30 DEF GiveUp
<1>31. ASSUME NEW p \in Procs, NEW v \in Vols, CallCreate(p, v) PROVE DeleteInv'
  BY <1>31 DEF CallCreate
<1>32. ASSUME NEW p \in Procs, NEW v \in Vols, CallDelete(p, v) PROVE DeleteInv'
  BY <1>32 DEF CallDelete
<1>33. ASSUME NEW k \in Classes, ExpireSearch(k) PROVE DeleteInv'
  BY <1>33 DEF ExpireSearch
<1>34. ASSUME NEW a \in Accounts, ExpireSkip(a) PROVE DeleteInv'
  BY <1>34 DEF ExpireSkip
<1>35. CASE Crash
  BY <1>35 DEF Crash
<1>36. CASE UNCHANGED vars
  BY <1>36 DEF vars
<1> QED
  BY <1>1, <1>2, <1>3, <1>4, <1>5, <1>6, <1>7, <1>8, <1>9, <1>10,
     <1>11, <1>12, <1>13, <1>14, <1>15, <1>16, <1>17, <1>18, <1>19, <1>20,
     <1>21, <1>22, <1>23, <1>24, <1>25, <1>26, <1>27, <1>28, <1>29, <1>30,
     <1>31, <1>32, <1>33, <1>34, <1>35, <1>36
  DEF Next, RpcStep, CreateStep, DeleteStep

-----------------------------------------------------------------------------
(***************************************************************************)
(* Theorems.                                                               *)
(***************************************************************************)

\* IInv holds of every reachable state of every instance.
THEOREM Invariance == Spec => []IInv
<1>1. Init => TypeOK /\ LocalsInv
  BY NoneAssumption, ParamAssumption, StartAssumption
  DEF Init, TypeOK, PCs, Targets, NoTarget, LocalsInv, Working, CreateSteps,
      DeleteSteps, AccountSteps, EntrySteps
<1>2. Init => LockInv
  BY DEF Init, LockInv, NoOrphanLock, Operating, Working, CreateSteps, DeleteSteps
<1>3. Init => AccountInv
  <2> SUFFICES ASSUME Init PROVE AccountInv
    OBVIOUS
  <2>1. OneFreshAccountPerClass
    BY DEF Init, OneFreshAccountPerClass
  <2> QED
    BY <2>1 DEF Init, AccountInv, EntrySteps, MutexIsInUse
<1>4. Init => DeleteInv
  BY DEF Init, DeleteInv, DeletedStaysDeleted, OneLiveCall, NoRivalCreate,
         ProvisionedIsQuiet, DeleteTargetsPv, ShareIsGone
<1>5. Init => PinInv
  BY DEF Init, PinInv, Pin, SearchSteps, UseSteps
<1>6. IInv /\ [Next]_vars => IInv'
  BY TypeStep, LocalsStep, LockStep, AccountStep, DeletedStep, PinStep DEF IInv
<1> QED
  BY <1>1, <1>2, <1>3, <1>4, <1>5, <1>6, PTL DEF Spec, IInv

\* The state of the driver, of Azure and of the CO keeps its types: in
\* particular no step uses an account name before one was chosen.
THEOREM TypeCorrect == Spec => []TypeOK
BY Invariance, PTL DEF IInv

\* No error path of CreateVolume or DeleteVolume leaves a key in volumeLocks
\* that no deferred Release will remove, re-entered calls included.
THEOREM KeysAreReleased == Spec => []NoOrphanLock
BY Invariance, PTL DEF IInv, LockInv

\* At most one RPC operates on a volume ID, and on the name of a volume whose
\* CreateVolume has not called itself.
THEOREM Exclusion == Spec => []ExclusiveUnlessReentered
<1>1. IInv => ExclusiveUnlessReentered
  BY DEF IInv, LockInv, ExclusiveUnlessReentered, Once, VolOf
<1> QED
  BY <1>1, Invariance, PTL

\* EnsureStorageAccount under volLockMap never creates a second account while
\* one of the same class was never set aside.
THEOREM NoDuplicateAccount == Spec => []OneFreshAccountPerClass
BY Invariance, PTL DEF IInv, AccountInv

\* Who waits for the mutex of a class waits for a goroutine that waits for no other, so that
\* no RPC waits for itself or for one that has returned.
THEOREM MutexesAreGivenBack == Spec => []MutexIsInUse
BY Invariance, PTL DEF IInv, AccountInv

\* A share that DeleteVolume deleted is not created again by a CreateVolume
\* that is still being served, unless that volume's CreateVolume called itself.
THEOREM DeletionIsFinal == Spec => []DeletedStaysDeleted
BY Invariance, PTL DEF IInv, DeleteInv

\* CreateVolume makes the share of a volume on one account only, for a volume
\* that volMap was told about in this life of the driver and whose CreateVolume
\* did not call itself.
THEOREM VolumeIsPinned == Spec => []OneAccountPerVolume
<1>1. IInv => OneAccountPerVolume
  BY DEF IInv, PinInv, OneAccountPerVolume
<1> QED
  BY <1>1, Invariance, PTL
=============================================================================
