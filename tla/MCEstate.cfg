CONSTANTS
    w1 = w1
    h1 = h1
    h2 = h2
    h3 = h3
    k1 = k1
    k2 = k2
    rule1 = rule1
    r1 = r1
    r2 = r2
    s1 = s1
    s2 = s2
    n1 = n1
    m1 = m1
    t1 = t1
    t2 = t2
    name1 = name1
    name2 = name2
    c1 = c1
    c2 = c2
    mfa1 = mfa1
    mfa2 = mfa2
    code1 = code1
    Workers = {w1, w2}
    NoRequest = NoRequest
    MaxFailures = 1
    Keep = Keep
    Loads <- MCLoads
    Heirs = {h1, h2, h3}
    Contacts = {k1, k2}
    Percents = {0, 70}
    Limit <- MCLimit
    NoLimit = NoLimit
    Rules = {rule1}
    Triggers = {"death_verification", "manual_release"}
    MaxAccess = 2
    QueueLimit = 2
    Records = {r1, r2}
    Secrets = {s1, s2}
    Plains = {p1, p2}
    LegacyNotes = {n1}
    Memories = {m1}
    Releases = {"specific_date", "proof_of_death"}
    NoRelease = NoRelease
    Tokens = {t1, t2}
    NoToken = NoToken
    Names = {name1, name2}
    Categories = {c1, c2}
    DefaultOn = {c1}
    MfaSecrets = {mfa1, mfa2}
    NoSecret = NoSecret
    Codes = {code1}
SPECIFICATION Spec
INVARIANTS
    TypeOK OvershootIsBounded MailIsBacked WaitingHasRelease LastDecisionStands
    EncryptedFieldsStand UploadIsBacked AuditAgrees ScheduledHasTrigger PreferencesStand
    EnabledIsBacked PendingIsQueued ViewsAgree AdviceIsHonest
PROPERTIES CapRespected OnlyNamedFieldsChange ReportIsFrozen
\* When the rows of a load have been used up and deleted, nothing more arrives in it.
CHECK_DEADLOCK FALSE
