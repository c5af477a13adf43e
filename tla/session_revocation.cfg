SPECIFICATION Spec
SYMMETRY WorkerSymmetry
CONSTANTS
    u1 = u1
    u2 = u2
    d1 = d1
    d2 = d2
    s1 = s1
    s2 = s2
    s3 = s3
    w1 = w1
    w2 = w2
    w3 = w3
    User = {u1}
    Device = {d1}
    Session = {s1, s2}
    Worker = {w1, w2}
    ActiveLimit = 2
    Requests = {"authorize", "refresh", "logout", "cli_revoke_session", "admin_revoke_session", "admin_revoke_device",
                "reset_password", "change_password", "revoke_all_sessions", "force_password_reset", "request_deletion",
                "recover_deletion", "finalize_deletion", "disable_user", "enable_user"}
INVARIANTS
    LiveSessionsAreBacked
PROPERTIES
    RevocationIsComplete
    GrantsAccessOnce
