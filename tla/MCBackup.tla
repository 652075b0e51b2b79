------------------------------ MODULE MCBackup ------------------------------
EXTENDS Backup

C(d, f, fo, n) ==
    [dest |-> d, freq |-> f, folder |-> fo, format |-> "zip", auto |-> TRUE,
     days |-> n, notify |-> TRUE, keys |-> TRUE, plain |-> TRUE]

\* Two crons that share a folder, one cron for two folders, a removal at
\* once, a format that is not checked, missing access data.
MCConfs == {
    <<C("ftp", "daily", "f", 1), C("ftp", "weekly", "f", 1)>>,
    <<C("local", "daily", "f", 1), C("local", "weekly", "f", 1)>>,
    <<C("amazon_s3", "daily", "f", 1),
      [C("amazon_s3", "weekly", "f", 1) EXCEPT !.auto = FALSE]>>,
    <<[C("next_cloud", "daily", "f", 1) EXCEPT !.plain = FALSE],
      C("next_cloud", "daily", "f", 1)>>,
    <<C("google_drive", "daily", "f", 1), C("sftp", "daily", "f", 1)>>,
    <<C("dropbox", "daily", "f", 1), C("onedrive", "daily", "g", 0)>>,
    <<[C("amazon_s3", "daily", "f", 1) EXCEPT !.keys = FALSE],
      [C("local", "daily", "g", 1) EXCEPT !.format = "dump"]>> }
=============================================================================
