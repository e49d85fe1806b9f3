----------------------------- MODULE Encryption -----------------------------
(***************************************************************************)
(* The hybrid encryption pipeline of encryption.py.  AES and ECIES are     *)
(* external and taken to be perfect: a ciphertext opens under its own key  *)
(* and raises under any other.  A key pair is one value, held by one       *)
(* process; an exception is the value Failed.                              *)
(***************************************************************************)
Failed == "error"

AESEncrypt(key, plaintext) == [under |-> key, text |-> plaintext]

AESDecrypt(key, ciphertext) ==
  IF ciphertext.under = key THEN ciphertext.text ELSE Failed

encrypt_aes_key(public_key, aes_key) == [for |-> public_key, secret |-> aes_key]

decrypt_aes_key(private_key, encrypted) ==
  IF encrypted.for = private_key THEN encrypted.secret ELSE Failed

\* os.urandom gives every call a session key of its own, named after the call's
\* data here.  (Seeded fault: the key that is sent is another new one.)
process_iot_data_encryption_FreshKeys(data, public_key) ==
  [encrypted_data    |-> AESEncrypt(data, data),
   encrypted_aes_key |-> encrypt_aes_key(public_key, "another key")]

process_iot_data_encryption(data, public_key) ==
  [encrypted_data    |-> AESEncrypt(data, data),
   encrypted_aes_key |-> encrypt_aes_key(public_key, data)]

process_iot_data_decryption(payload, private_key) ==
  LET aes_key == decrypt_aes_key(private_key, payload.encrypted_aes_key)
  IN  IF aes_key = Failed THEN Failed ELSE AESDecrypt(aes_key, payload.encrypted_data)
=============================================================================
